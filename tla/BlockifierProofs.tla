-------------------------- MODULE BlockifierProofs --------------------------
(***************************************************************************)
(* Blockifier: the image it builds is right for every set of sources, every *)
(* content, hash function, block index method and parameter setting.        *)
(***************************************************************************)
EXTENDS Blockifier, SequenceTheorems, WellFoundedInduction, TLAPS

-----------------------------------------------------------------------------
(* What the searches return and what the raw write makes of it, for every    *)
(* fblock, every block and every setting of the parameters.                  *)

(* A nonempty set of numbers has the least element FirstOf picks.           *)
LEMMA FirstOfInSet ==
    ASSUME NEW S, S \subseteq Nat, S # {}, NEW default
    PROVE  FirstOf(S, default) \in S /\ \A q \in S : FirstOf(S, default) <= q
<1>1. PICK x \in S : \A y \in S : ~(<<y, x>> \in OpToRel(<, Nat))
  BY WFMin, NatLessThanWellFounded, Zenon
<1>2. \A y \in S : x <= y
  <2> SUFFICES ASSUME NEW y \in S PROVE x <= y
    OBVIOUS
  <2>1. ~(<<y, x>> \in Nat \X Nat /\ <<y, x>>[1] < <<y, x>>[2])
    BY <1>1 DEF OpToRel
  <2> QED BY <2>1
<1>3. \E p \in S : \A q \in S : p <= q
  BY <1>2
<1> QED BY <1>3 DEF FirstOf

(* FirstOf returns an element or the default.                               *)
LEMMA FirstOfType ==
    ASSUME NEW S, S \subseteq Nat, NEW default
    PROVE  FirstOf(S, default) \in S \cup {default}
BY FirstOfInSet DEF FirstOf

(* Wherever AnalyzeAppend wants to put a block, the bytes the fblock has    *)
(* there already are bytes of the block: what is appended completes it.     *)
THEOREM AppendPositionMeets ==
    ASSUME NEW B, NEW h \in Seq(B), NEW d \in Seq(B), 
           NEW minimum_pos \in Nat, NEW minimum_overlap \in Int
    PROVE  LET p == AppendBaseOffset(d, minimum_pos, minimum_overlap, h)
           IN  p \in 0..Len(h) /\ Meets(h, p, d)
<1> DEFINE full == SearchInTurbo(h, minimum_pos, d)
           tail == SearchInWithAppendOnly(h, minimum_pos, d, minimum_overlap)
<1>1. Len(h) \in 0..Len(h) /\ Meets(h, Len(h), d)
  BY DEF Meets
<1>2. full \in 0..Len(h) /\ Meets(h, full, d)
  <2>1. full \in {p \in minimum_pos..Len(h) : Holds(h, p, d)} \cup {Len(h)}
    BY FirstOfType DEF SearchInTurbo
  <2> QED BY <1>1, <2>1 DEF Holds, Meets
<1>3. ASSUME minimum_pos < Len(h)
      PROVE  tail \in 0..Len(h) /\ Meets(h, tail, d)
  <2> DEFINE base == Len(h) - Smaller(Len(h) - minimum_pos, Len(d))
             S == {p \in base..(Len(h) - 1) :
                    /\ (p - base) % OverlapGranularity = 0
                    /\ p < Len(h) - minimum_overlap
                    /\ Meets(h, p, d)}
  <2>1. base \in Nat
    BY <1>3 DEF Smaller
  <2>2. S \subseteq Nat
    BY <2>1
  <2>3. tail \in S \cup {Len(h)}
    <3>1. tail = FirstOf(S, Len(h))
      BY DEF SearchInWithAppendOnly
    <3> HIDE DEF S
    <3> QED BY <2>2, <3>1, FirstOfType
  <2> QED BY <1>1, <2>1, <2>3
<1> HIDE DEF full, tail
<1>4. AppendBaseOffset(d, minimum_pos, minimum_overlap, h) \in {full, tail, Len(h)}
  BY DEF AppendBaseOffset, full, tail
<1>5. minimum_pos >= Len(h) => AppendBaseOffset(d, minimum_pos, minimum_overlap, h) = Len(h)
  BY DEF AppendBaseOffset
<1> QED BY <1>1, <1>2, <1>3, <1>4, <1>5

(* After put_appended_raw at such a place the block is in the fblock, and   *)
(* the fblock has the size AppendInfo promised.                             *)
THEOREM AppendedBlockIsHeld ==
    ASSUME NEW B, NEW h \in Seq(B), NEW d \in Seq(B),
           NEW p \in 0..Len(h), Meets(h, p, d)
    PROVE  /\ PutAppendedRaw(h, p, d) \in Seq(B)
           /\ Len(PutAppendedRaw(h, p, d)) = Larger(Len(h), p + Len(d))
           /\ Holds(PutAppendedRaw(h, p, d), p, d)
           /\ \A i \in 1..Len(h) : PutAppendedRaw(h, p, d)[i] = h[i]
<1> DEFINE m == Len(h) - p + 1
           t == SubSeq(d, m, Len(d))
           n == PutAppendedRaw(h, p, d)
<1>1. m \in Nat \ {0} /\ Len(d) \in Nat
  OBVIOUS
<1>2. t \in Seq(B) /\ Len(t) = (IF m <= Len(d) THEN Len(d) - m + 1 ELSE 0)
       /\ \A i \in 1..Len(t) : t[i] = d[m + i - 1]
  BY <1>1
<1>3. n = h \o t
  BY DEF PutAppendedRaw
<1> HIDE DEF t, n
<1>4. n \in Seq(B) /\ Len(n) = Len(h) + Len(t)
  BY <1>2, <1>3
<1>5. \A i \in 1..Len(n) : n[i] = IF i <= Len(h) THEN h[i] ELSE t[i - Len(h)]
  BY <1>2, <1>3
<1>6. Len(n) = Larger(Len(h), p + Len(d))
  BY <1>2, <1>4 DEF Larger
<1>7. Holds(n, p, d)
  <2>1. p + Len(d) <= Len(n)
    BY <1>6 DEF Larger
  <2>2. ASSUME NEW i \in 1..Len(d) PROVE n[p + i] = d[i]
    <3>1. CASE p + i <= Len(h)
      BY <1>4, <1>5, <2>1, <3>1 DEF Meets
    <3>2. CASE p + i > Len(h)
      <4>1. n[p + i] = t[p + i - Len(h)]
        BY <1>4, <1>5, <2>1, <3>2
      <4>2. p + i - Len(h) \in 1..Len(t)
        BY <1>2, <3>2
      <4>3. m + (p + i - Len(h)) - 1 = i
        OBVIOUS
      <4> QED BY <1>2, <4>1, <4>2, <4>3
    <3> QED BY <3>1, <3>2
  <2> QED BY <2>1, <2>2 DEF Holds
<1> QED BY <1>4, <1>5, <1>6, <1>7 DEF n

-----------------------------------------------------------------------------
(* The blockifier.                                                          *)

(* What a source delivers has the types the inputs were assumed to have.    *)
LEMMA SourceType ==
    ASSUME input \in Inputs, NEW s \in Source
    PROVE  /\ Data(s) \in Seq(Byte) /\ Len(Data(s)) \in Nat
           /\ BlockSize(s) \in Nat \ {0}
BY BlockifierParameters, OverlapParameters DEF Data, BlockSize

(* Multiplication by a positive number is monotone.                         *)
LEMMA TimesMonotone ==
    ASSUME NEW a \in Nat, NEW b \in Nat, NEW n \in Nat \ {0}
    PROVE  (a <= b => a * n <= b * n) /\ (a < b => a * n + n <= b * n)
<1>1. ASSUME a <= b PROVE a * n <= b * n
  <2>1. (b - a) * n \in Nat
    BY <1>1
  <2>2. b * n = a * n + (b - a) * n
    BY <1>1
  <2> QED BY <2>1, <2>2
<1>2. ASSUME a < b PROVE a * n + n <= b * n
  <2>1. (b - a - 1) * n \in Nat
    BY <1>2
  <2>2. b * n = a * n + n + (b - a - 1) * n
    BY <1>2
  <2> QED BY <2>1, <2>2
<1> QED BY <1>1, <1>2

(* CalcSizeInBlocks agrees with the loop condition offset < nbytes.         *)
LEMMA BlockCount ==
    ASSUME input \in Inputs, NEW s \in Source, NEW k \in Nat
    PROVE  /\ CalcSizeInBlocks(s) \in Nat
           /\ HasBlock(s, k) <=> k < CalcSizeInBlocks(s)
<1> DEFINE L == Len(Data(s))
           b == BlockSize(s)
           n == (L + b - 1) \div b
<1>1. L \in Nat /\ b \in Nat \ {0}
  BY SourceType
<1> HIDE DEF L, b
<1>2. n \in Nat /\ n * b <= L + b - 1 /\ L + b - 1 < n * b + b
  BY <1>1
<1>3. k * b \in Nat /\ n * b \in Nat
  BY <1>1, <1>2
<1> HIDE DEF n
<1>4. ASSUME k < n PROVE k * b < L
  BY <1>1, <1>2, <1>3, <1>4, TimesMonotone
<1>5. ASSUME ~(k < n) PROVE ~(k * b < L)
  BY <1>1, <1>2, <1>3, <1>5, TimesMonotone
<1> QED BY <1>2, <1>4, <1>5 DEF CalcSizeInBlocks, HasBlock, Offset, n, L, b

(* Reading n bytes at offset o of a long enough sequence.                   *)
LEMMA ReadBytes ==
    ASSUME NEW B, NEW d \in Seq(B), NEW o \in Nat, NEW n \in Nat, o + n <= Len(d)
    PROVE  /\ SubSeq(d, o + 1, o + n) \in Seq(B)
           /\ Len(SubSeq(d, o + 1, o + n)) = n
           /\ \A i \in 1..n : SubSeq(d, o + 1, o + n)[i] = d[o + i]
<1> DEFINE m == o + 1
           e == o + n
           r == SubSeq(d, m, e)
<1>1. m \in Int /\ e \in Int /\ \A i \in m..e : d[i] \in B
  OBVIOUS
<1>2. e - m + 1 = n /\ (n # 0 <=> m <= e)
  OBVIOUS
<1> HIDE DEF m, e
<1>3. /\ r \in Seq(B)
      /\ Len(r) = IF m <= e THEN e - m + 1 ELSE 0
      /\ \A i \in 1..(e - m + 1) : r[i] = d[m + i - 1]
  BY <1>1, SubSeqProperties
<1> HIDE DEF r
<1>4. Len(r) = n
  BY <1>2, <1>3
<1>5. ASSUME NEW i \in 1..n PROVE r[i] = d[o + i]
  <2>1. r[i] = d[m + i - 1]
    BY <1>2, <1>3
  <2>2. m + i - 1 = o + i
    BY DEF m
  <2> QED BY <2>1, <2>2
<1> QED BY <1>3, <1>4, <1>5, Zenon DEF r, m, e

(* A block of a source is a nonempty piece of it of at most blocksize bytes. *)
LEMMA BlockType ==
    ASSUME input \in Inputs, NEW s \in Source, NEW k \in Nat, HasBlock(s, k)
    PROVE  /\ Offset(s, k) \in Nat
           /\ Eat(s, k) \in 1..BlockSize(s)
           /\ Offset(s, k) + Eat(s, k) <= Len(Data(s))
           /\ Block(s, k) \in Seq(Byte)
           /\ Len(Block(s, k)) = Eat(s, k)
           /\ \A i \in 1..Eat(s, k) : Block(s, k)[i] = Data(s)[Offset(s, k) + i]
<1>1. Data(s) \in Seq(Byte) /\ Len(Data(s)) \in Nat /\ BlockSize(s) \in Nat \ {0}
  BY SourceType
<1>2. Offset(s, k) \in Nat /\ Offset(s, k) < Len(Data(s))
  BY <1>1 DEF Offset, HasBlock
<1>3. Eat(s, k) \in 1..BlockSize(s) /\ Offset(s, k) + Eat(s, k) <= Len(Data(s))
  BY <1>1, <1>2 DEF Eat, Smaller
<1>4. Block(s, k) = SubSeq(Data(s), Offset(s, k) + 1, Offset(s, k) + Eat(s, k))
  BY DEF Block, ReadSource
<1>5. Eat(s, k) \in Nat \ {0}
  BY <1>1, <1>3
<1>6. /\ Block(s, k) \in Seq(Byte)
      /\ Len(Block(s, k)) = Eat(s, k)
      /\ \A i \in 1..Eat(s, k) : Block(s, k)[i] = Data(s)[Offset(s, k) + i]
  <2> DEFINE o == Offset(s, k)
             n == Eat(s, k)
  <2>1. n \in Nat /\ o \in Nat /\ o + n <= Len(Data(s))
    BY <1>2, <1>3, <1>5
  <2> HIDE DEF o, n
  <2>2. /\ SubSeq(Data(s), o + 1, o + n) \in Seq(Byte)
        /\ Len(SubSeq(Data(s), o + 1, o + n)) = n
        /\ \A i \in 1..n : SubSeq(Data(s), o + 1, o + n)[i] = Data(s)[o + i]
    BY <1>1, <2>1, ReadBytes
  <2> QED BY <1>4, <2>2, Zenon DEF o, n
<1> QED BY <1>2, <1>3, <1>6

(* BlockWhereList::Find names an item that begins at or before the block.   *)
LEMMA WhereFindItem ==
    ASSUME where_list \in Seq(Nat), where_list # <<>>, where_list[1] = 0, NEW w \in Nat
    PROVE  \E i \in 1..Len(where_list) :
              /\ where_list[i] <= w
              /\ WhereFind(w) = [source |-> schedule[i], index |-> w - where_list[i]]
<1> DEFINE S == {i \in 1..Len(where_list) : where_list[i] >= w}
           lb == FirstOf(S, Len(where_list) + 1)
           i == IF lb <= Len(where_list) /\ where_list[lb] = w THEN lb ELSE lb - 1
<1>0. Len(where_list) \in Nat \ {0}
  OBVIOUS
<1>1. WhereFind(w) = [source |-> schedule[i], index |-> w - where_list[i]]
  BY DEF WhereFind
<1>2. S \subseteq Nat
  OBVIOUS
<1>3. S # {} => lb \in S /\ \A q \in S : lb <= q
  <2> HIDE DEF S
  <2> QED BY <1>2, FirstOfInSet
<1>4. S = {} => lb = Len(where_list) + 1
  BY DEF FirstOf
<1>5. i \in 1..Len(where_list) /\ where_list[i] <= w
  <2>1. CASE S = {}
    <3>1. ~(Len(where_list) \in S)
      BY <2>1
    <3>2. lb = Len(where_list) + 1
      BY <1>4, <2>1
    <3>3. i = Len(where_list)
      BY <1>0, <3>2
    <3> QED BY <1>0, <3>1, <3>3
  <2>2. CASE S # {}
    <3>1. lb \in 1..Len(where_list) /\ where_list[lb] >= w
      BY <1>3, <2>2
    <3>2. CASE where_list[lb] = w
      BY <3>1, <3>2
    <3>3. CASE where_list[lb] # w
      <4>1. lb # 1
        BY <3>1, <3>3
      <4>2. lb - 1 \in 1..Len(where_list)
        BY <3>1, <4>1
      <4>3. lb - 1 \notin S
        BY <1>3, <2>2, <3>1, SMTT(40)
      <4>4. where_list[lb - 1] < w
        BY <4>2, <4>3
      <4>5. i = lb - 1
        BY <3>3
      <4> QED BY <4>2, <4>4, <4>5
    <3> QED BY <3>2, <3>3
  <2> QED BY <2>1, <2>2
<1> HIDE DEF i
<1> QED BY <1>1, <1>5

(* Adding an item behind a block does not change where the block is found.  *)
LEMMA WhereFindStable ==
    ASSUME where_list \in Seq(Nat), where_list # <<>>, where_list[1] = 0,
           NEW v \in Nat, where_list' = Append(where_list, v), schedule' = schedule,
           NEW w \in Nat, w < v
    PROVE  WhereFind(w)' = WhereFind(w)
<1> DEFINE n == Len(where_list)
           S == {i \in 1..n : where_list[i] >= w}
           lb == FirstOf(S, n + 1)
           i == IF lb <= n /\ where_list[lb] = w THEN lb ELSE lb - 1
           n2 == Len(where_list')
           T == {j \in 1..n2 : where_list'[j] >= w}
           lb2 == FirstOf(T, n2 + 1)
           i2 == IF lb2 <= n2 /\ where_list'[lb2] = w THEN lb2 ELSE lb2 - 1
<1>1. /\ n \in Nat \ {0} /\ n2 = n + 1
      /\ where_list'[n + 1] = v
      /\ \A j \in 1..n : where_list'[j] = where_list[j] /\ where_list[j] \in Nat
  OBVIOUS
<1>2. WhereFind(w) = [source |-> schedule[i], index |-> w - where_list[i]]
  BY DEF WhereFind
<1>3. WhereFind(w)' = [source |-> schedule[i2], index |-> w - where_list'[i2]]
  BY DEF WhereFind
<1>5. T = S \cup {n + 1}
  BY <1>1
<1>4. S \subseteq Nat /\ S \subseteq 1..n /\ (1 \in S => w = 0)
  BY <1>1
<1>4a. \A j \in S : j \in 1..n
  OBVIOUS
<1> HIDE DEF n, n2, S, T
<1>6. lb2 \in T /\ \A q \in T : lb2 <= q
  <2>1. T \subseteq Nat /\ T # {}
    BY <1>1, <1>5, <1>4
  <2> QED BY <2>1, FirstOfInSet, Zenon
<1>7. S # {} => lb \in S /\ \A q \in S : lb <= q
  BY <1>4, FirstOfInSet, Zenon
<1>8. S = {} => lb = n + 1
  BY DEF FirstOf
<1> HIDE DEF lb, lb2
<1>9. lb2 = lb /\ lb \in 1..(n + 1)
  <2>1. CASE S = {}
    BY <1>1, <1>5, <1>6, <1>8, <2>1
  <2>2. CASE S # {}
    <3>1. lb \in 1..n /\ lb \in T
      BY <1>5, <1>7, <1>4a, <2>2
    <3>2. lb2 <= lb /\ lb2 # n + 1
      BY <1>1, <1>6, <3>1, <1>5, <1>4a
    <3>3. lb2 \in S
      BY <1>5, <1>6, <3>2
    <3> QED BY <1>1, <1>7, <1>4a, <2>2, <3>1, <3>2, <3>3
  <2> QED BY <2>1, <2>2
<1>10. lb = 1 => where_list[lb] = w
  <2>1. lb = 1 => 1 \in S
    BY <1>1, <1>5, <1>6, <1>9
  <2> QED BY <1>4, <2>1
<1>11. i = i2 /\ i \in 1..n
  <2>0. n \in Nat /\ n \in 1..n /\ lb \in Nat /\ n2 = n + 1
    BY <1>1, <1>9
  <2>1. ASSUME lb <= n PROVE i = i2 /\ i \in 1..n
    <3>1. lb \in 1..n
      BY <1>9, <2>0, <2>1
    <3>2. lb <= n2
      BY <2>0, <2>1
    <3>3. where_list'[lb] = where_list[lb]
      BY <1>1, <3>1
    <3>4. i = i2
      BY <1>9, <2>1, <3>2, <3>3
    <3>5. lb # 1 => lb - 1 \in 1..n
      BY <2>0, <3>1
    <3>6. i \in 1..n
      BY <1>10, <2>1, <3>1, <3>5
    <3> QED BY <3>4, <3>6
  <2>2. ASSUME lb = n + 1 PROVE i = i2 /\ i \in 1..n
    <3>1. ~(lb <= n)
      BY <2>0, <2>2
    <3>2. lb - 1 = n
      BY <2>0, <2>2
    <3>3. where_list'[lb] # w
      <4>1. v # w
        OBVIOUS
      <4>2. where_list'[lb] = v
        BY <1>1, <2>2, Zenon
      <4> QED BY <4>1, <4>2, Zenon
    <3>4. i = n
      BY <3>1, <3>2
    <3>5. i2 = n
      BY <1>9, <3>2, <3>3
    <3> QED BY <2>0, <3>4, <3>5
  <2>3. lb <= n \/ lb = n + 1
    BY <1>9, <2>0
  <2> QED BY <2>1, <2>2, <2>3
<1> HIDE DEF i, i2
<1> QED BY <1>1, <1>2, <1>3, <1>11

(* The sizes of the scheduled sources do not change while the schedule does *)
(* not, and a source has at least no blocks.                                *)
LEMMA SizesStable ==
    ASSUME input' = input, schedule' = schedule
    PROVE  /\ \A i : CalcSizeInBlocks(schedule[i])' = CalcSizeInBlocks(schedule[i])
           /\ CalcSizeInBlocks(schedule[item])' = CalcSizeInBlocks(schedule[item'])
           /\ CalcSizeInBlocks(schedule[item - 1])' = CalcSizeInBlocks(schedule[item' - 1])
BY DEF CalcSizeInBlocks, Data, BlockSize

LEMMA SizesType ==
    ASSUME input \in Inputs, schedule \in Seq(Source)
    PROVE  \A i \in 1..Len(schedule) : CalcSizeInBlocks(schedule[i]) \in Nat
<1> SUFFICES ASSUME NEW i \in 1..Len(schedule)
             PROVE  CalcSizeInBlocks(schedule[i]) \in Nat
  OBVIOUS
<1>1. schedule[i] \in Source /\ 0 \in Nat
  OBVIOUS
<1> QED BY <1>1, BlockCount

(* The tests of the identical-block search do not depend on anything but    *)
(* the inputs and the places of the two blocks.                             *)
LEMMA SameDataStable ==
    ASSUME input' = input, schedule' = schedule, NEW i, NEW x, NEW w,
           where_list'[i] = where_list[i], WhereFind(w)' = WhereFind(w)
    PROVE  SameData(schedule[i], x - where_list[i], w)'
             = SameData(schedule[i], x - where_list[i], w)
BY DEF SameData, BlockSize, Offset, Eat, Data, ReadSource, Block

(* What of the invariant only looks at the inputs.                          *)
LEMMA InputStable ==
    ASSUME input' = input, NEW s, NEW k
    PROVE  /\ CalcSizeInBlocks(s)' = CalcSizeInBlocks(s)
           /\ HasBlock(s, k)' = HasBlock(s, k)
           /\ Block(s, k)' = Block(s, k)
BY DEF CalcSizeInBlocks, HasBlock, Block, Offset, Eat, ReadSource, Data, BlockSize

(* A fblock that only grew still holds what it held.                        *)
LEMMA HoldsStable ==
    ASSUME NEW h, NEW g, NEW d, NEW p \in Nat, Len(h) \in Nat, Len(g) \in Nat,
           Len(d) \in Nat, ExtendedBy(h, g), Holds(h, p, d)
    PROVE  Holds(g, p, d)
BY DEF Holds, ExtendedBy

(* The initial state.                                                       *)
LEMMA InitIndInv == Init => IndInv
<1> SUFFICES ASSUME Init PROVE IndInv
  OBVIOUS
<1> USE DEF Init
<1>1. TypeOK
  <2>1. /\ schedule \in Seq(Source) /\ where_list \in Seq(Nat)
        /\ fblocks \in Seq(Seq(Byte)) /\ space \in Seq(Nat)
        /\ blocks \in Seq([fblocknum : Nat, startoffs : Nat])
    OBVIOUS
  <2>2. targets \in [Source -> Seq(Nat)]
    OBVIOUS
  <2>3. identical_list \subseteq Nat \X Nat
    BY Zenon
  <2>4. item \in Nat \ {0} /\ index \in Nat /\ blocks_done \in Nat
    OBVIOUS
  <2>5. pass \in {"open", "identical", "blockify"} /\ loaded \in BOOLEAN
    BY Zenon
  <2>6. flushed \subseteq Source
    OBVIOUS
  <2> QED BY <2>1, <2>2, <2>3, <2>4, <2>5, <2>6, Zenon DEF TypeOK
<1>2. Len(schedule) = 0 /\ Len(where_list) = 0
  OBVIOUS
<1>2a. ScheduleInv
  BY <1>2 DEF ScheduleInv
<1>2b. WhereInv
  BY <1>2 DEF WhereInv
<1>2c. LoopInv
  BY DEF LoopInv
<1>2d. IdenticalInv
  BY DEF IdenticalInv
<1>3. LocatorsResolve /\ FblocksFit /\ FlushComplete
  BY DEF LocatorsResolve, FblocksFit, FlushComplete
<1> QED BY <1>1, <1>2a, <1>2b, <1>2c, <1>2d, <1>3 DEF IndInv

-----------------------------------------------------------------------------
(* Writing a block.                                                         *)

(* The search only ever looks at fblocks that exist.                        *)
LEMMA CandidatesExist ==
    ASSUME fblocks \in Seq(Seq(Byte)), NEW d
    PROVE  Candidates(fblocks, space, d) \subseteq 1..Len(fblocks)
<1>1. \A n : Tightest(fblocks, space, n) \in 1..Len(fblocks) \cup {0}
  <2> SUFFICES ASSUME NEW n PROVE Tightest(fblocks, space, n) \in 1..Len(fblocks) \cup {0}
    OBVIOUS
  <2> DEFINE fit == {f \in 1..Len(fblocks) : space[f] >= n}
             S == {f \in fit : \A g \in fit : space[f] <= space[g]}
  <2>1. S \subseteq 1..Len(fblocks)
    BY Zenon
  <2>2. S \subseteq Nat
    BY <2>1
  <2>3. Tightest(fblocks, space, n) = FirstOf(S, 0)
    BY Zenon DEF Tightest
  <2> HIDE DEF S
  <2>4. FirstOf(S, 0) \in S \cup {0}
    BY <2>2, FirstOfType, Zenon
  <2> QED BY <2>1, <2>3, <2>4, Zenon
<1>2. FirstCandidates(fblocks, space, d) \subseteq 1..Len(fblocks)
  BY <1>1, Zenon DEF FirstCandidates
<1> QED BY <1>2, Zenon DEF Candidates

(* A write plan names a place where the block meets what is there; either   *)
(* the fblock does not outgrow FSIZE there, or it is a new one.             *)
LEMMA WritePlanFits ==
    ASSUME fblocks \in Seq(Seq(Byte)), NEW d \in Seq(Byte),
           NEW plan \in WritePlans(fblocks, space, d)
    PROVE  /\ plan.fblocknum \in 1..(Len(fblocks) + 1)
           /\ OldFblock(plan.fblocknum) \in Seq(Byte)
           /\ plan.offset \in 0..Len(OldFblock(plan.fblocknum))
           /\ Meets(OldFblock(plan.fblocknum), plan.offset, d)
           /\ \/ Larger(Len(OldFblock(plan.fblocknum)), plan.offset + Len(d)) <= FSIZE
              \/ OldFblock(plan.fblocknum) = <<>> /\ plan.offset = 0
<1>1. CASE \E p \in GoodFits(fblocks, space, d) : p[2] = Len(d)
  <2>1. PICK p \in GoodFits(fblocks, space, d) :
           plan = [fblocknum |-> p[1],
                   offset |-> FindOverlap(d, p[2], fblocks[p[1]]).AppendBaseOffset]
    BY <1>1 DEF WritePlans
  <2>2. /\ p \in Candidates(fblocks, space, d) \X (0..Len(d))
        /\ ThisIsGood(d, FindOverlap(d, p[2], fblocks[p[1]]))
    BY <2>1 DEF GoodFits
  <2> DEFINE f == p[1]
             h == fblocks[f]
             mo == Len(d) - MaxMayAdd(d, p[2], h)
             base == AppendBaseOffset(d, MinimumPos(d, h), mo, h)
  <2>3. f \in 1..Len(fblocks) /\ p[2] \in 0..Len(d)
    BY <2>2, CandidatesExist
  <2>4. h \in Seq(Byte) /\ Len(h) \in Nat
    BY <2>3
  <2>5. OldFblock(f) = h
    BY <2>3 DEF OldFblock
  <2>6. MinimumPos(d, h) \in Nat
    <3> HIDE DEF h
    <3> QED BY <2>4 DEF MinimumPos, Larger
  <2>7. mo \in Int
    <3> HIDE DEF h
    <3> QED BY <2>3, <2>4, OverlapParameters DEF MaxMayAdd, Larger
  <2>8. FindOverlap(d, p[2], h) =
           [OldSize |-> Len(h), AppendBaseOffset |-> base,
            AppendedSize |-> Larger(Len(h), base + Len(d))]
    BY Zenon DEF FindOverlap, AnalyzeAppend
  <2>9. plan.fblocknum = f /\ plan.offset = base
    BY <2>1, <2>8
  <2>10. base \in 0..Len(h) /\ Meets(h, base, d)
    <3> HIDE DEF h, mo
    <3> QED BY <2>4, <2>6, <2>7, AppendPositionMeets
  <2>11. Larger(Len(h), base + Len(d)) <= FSIZE
    <3>1. ThisIsGood(d, [OldSize |-> Len(h), AppendBaseOffset |-> base,
                         AppendedSize |-> Larger(Len(h), base + Len(d))])
      BY <2>2, <2>8
    <3> HIDE DEF h, base
    <3> QED BY <2>4, <2>10, <3>1, OverlapParameters DEF ThisIsGood, Larger
  <2> HIDE DEF f, h, base
  <2> QED BY <2>3, <2>4, <2>5, <2>9, <2>10, <2>11
<1>2. CASE ~\E p \in GoodFits(fblocks, space, d) : p[2] = Len(d)
  <2>1. plan = [fblocknum |-> Len(fblocks) + 1, offset |-> 0]
    BY <1>2 DEF WritePlans
  <2>2. plan.fblocknum = Len(fblocks) + 1 /\ plan.offset = 0
    BY <2>1
  <2>3. OldFblock(plan.fblocknum) = <<>>
    BY <2>2 DEF OldFblock
  <2>4. Len(OldFblock(plan.fblocknum)) = 0
    BY <2>3
  <2>5. Meets(OldFblock(plan.fblocknum), plan.offset, d)
    BY <2>2, <2>4 DEF Meets
  <2>6. OldFblock(plan.fblocknum) \in Seq(Byte)
    BY <2>3
  <2>7. plan.fblocknum \in 1..(Len(fblocks) + 1)
    BY <2>2
  <2> QED BY <2>2, <2>3, <2>4, <2>5, <2>6, <2>7
<1> QED BY <1>1, <1>2

(* The types of the block store.                                            *)
StoreType ==
    /\ fblocks \in Seq(Seq(Byte))
    /\ blocks \in Seq([fblocknum : Nat, startoffs : Nat])

(* Which blocks are larger than a fblock does not change.                   *)
LEMMA OversizedStable ==
    ASSUME input' = input, NEW f, NEW d, fblocks'[f] = d
    PROVE  OversizedBlock(fblocks[f])' <=> OversizedBlock(d)
<1>1. \A s : BlockSize(s)' = BlockSize(s) /\ CalcSizeInBlocks(s)' = CalcSizeInBlocks(s)
  BY DEF BlockSize, CalcSizeInBlocks, Data
<1>2. \A s, k : Block(s, k)' = Block(s, k)
  BY DEF Block, ReadSource, Offset, Eat, BlockSize, Data
<1> QED BY <1>1, <1>2 DEF OversizedBlock

(* Execute(WritePlan) puts the block at the new locator and changes nothing *)
(* that older locators point to.                                            *)
LEMMA WriteKeepsStore ==
    ASSUME StoreType, FblocksFit, NEW d \in Seq(Byte),
           Len(d) <= FSIZE \/ OversizedBlock(d), UNCHANGED input,
           NEW plan \in WritePlans(fblocks, space, d), WriteAppended(plan, d)
    PROVE  /\ StoreType' /\ FblocksFit' /\ StoreGrows
           /\ Len(blocks') = Len(blocks) + 1
           /\ blocks'[Len(blocks) + 1].fblocknum \in 1..Len(fblocks')
           /\ HoldsAt(fblocks', blocks'[Len(blocks) + 1], d)
<1> DEFINE f == plan.fblocknum
           p == plan.offset
           old == OldFblock(f)
           new == PutAppendedRaw(old, p, d)
           loc == [fblocknum |-> f, startoffs |-> p]
<1>1. /\ f \in 1..(Len(fblocks) + 1) /\ old \in Seq(Byte) /\ p \in 0..Len(old)
      /\ Meets(old, p, d)
      /\ Larger(Len(old), p + Len(d)) <= FSIZE \/ (old = <<>> /\ p = 0)
  BY WritePlanFits DEF StoreType
<1>2. /\ fblocks' = StoreRaw(f, new)
      /\ blocks' = Append(blocks, loc)
  BY DEF WriteAppended
<1>3. fblocks \in Seq(Seq(Byte)) /\ Len(fblocks) \in Nat
      /\ blocks \in Seq([fblocknum : Nat, startoffs : Nat]) /\ Len(blocks) \in Nat
  BY DEF StoreType
<1>4. old = IF f > Len(fblocks) THEN <<>> ELSE fblocks[f]
  BY DEF OldFblock
<1> HIDE DEF f, p, old
<1>5. /\ new \in Seq(Byte) /\ Len(old) <= Len(new)
      /\ Len(new) <= FSIZE \/ OversizedBlock(new)
      /\ Holds(new, p, d) /\ \A i \in 1..Len(old) : new[i] = old[i]
  <2>1. /\ new \in Seq(Byte) /\ Len(new) = Larger(Len(old), p + Len(d))
        /\ Holds(new, p, d) /\ \A i \in 1..Len(old) : new[i] = old[i]
    BY <1>1, AppendedBlockIsHeld
  <2>2. ASSUME old = <<>>, p = 0 PROVE new = d
    <3> HIDE DEF new
    <3>1. Len(new) = Len(d) /\ \A i \in 1..Len(d) : new[i] = d[i]
      BY <2>1, <2>2 DEF Larger, Holds
    <3> QED BY <2>1, <3>1
  <2> HIDE DEF new
  <2>3. Len(old) <= Len(new)
    BY <1>1, <2>1 DEF Larger
  <2>4. Len(new) <= FSIZE \/ OversizedBlock(new)
    BY <1>1, <2>1, <2>2
  <2> QED BY <2>1, <2>3, <2>4
<1> HIDE DEF new
<1>6. loc \in [fblocknum : Nat, startoffs : Nat]
  BY <1>1
<1>7. /\ blocks' \in Seq([fblocknum : Nat, startoffs : Nat])
      /\ Len(blocks') = Len(blocks) + 1
      /\ blocks'[Len(blocks) + 1] = loc
      /\ \A i \in 1..Len(blocks) : blocks'[i] = blocks[i]
  <2> HIDE DEF loc
  <2> QED BY <1>2, <1>3, <1>6
<1>8. /\ fblocks' \in Seq(Seq(Byte)) /\ f \in 1..Len(fblocks') /\ fblocks'[f] = new
      /\ Len(fblocks) <= Len(fblocks') /\ Len(fblocks') <= Len(fblocks) + 1
      /\ (f <= Len(fblocks) => Len(fblocks') = Len(fblocks))
      /\ \A g \in 1..Len(fblocks) : g # f => fblocks'[g] = fblocks[g]
  <2>1. CASE f > Len(fblocks)
    BY <1>1, <1>2, <1>3, <1>5, <2>1 DEF StoreRaw
  <2>2. CASE ~(f > Len(fblocks))
    BY <1>1, <1>2, <1>3, <1>5, <2>2 DEF StoreRaw
  <2> QED BY <2>1, <2>2
<1>9. \A g \in 1..Len(fblocks) : ExtendedBy(fblocks[g], fblocks'[g])
  <2> SUFFICES ASSUME NEW g \in 1..Len(fblocks) PROVE ExtendedBy(fblocks[g], fblocks'[g])
    OBVIOUS
  <2>0. fblocks[g] \in Seq(Byte)
    BY <1>3
  <2>1. CASE g = f
    <3>1. fblocks[g] = old /\ fblocks'[g] = new
      BY <1>3, <1>4, <1>8, <2>1
    <3> QED BY <1>5, <3>1 DEF ExtendedBy
  <2>2. CASE g # f
    <3>1. fblocks'[g] = fblocks[g]
      BY <1>8, <2>2
    <3> QED BY <2>0, <3>1 DEF ExtendedBy
  <2> QED BY <2>1, <2>2
<1>10. StoreGrows
  <2>1. ExtendedBy(blocks, blocks')
    BY <1>3, <1>7, SMTT(40) DEF ExtendedBy
  <2> QED BY <1>8, <1>9, <2>1 DEF StoreGrows
<1>11. FblocksFit'
  <2> SUFFICES ASSUME NEW g \in 1..Len(fblocks')
               PROVE  Len(fblocks'[g]) <= FSIZE \/ OversizedBlock(fblocks[g])'
    BY DEF FblocksFit
  <2>1. CASE g = f
    <3>1. OversizedBlock(fblocks[g])' <=> OversizedBlock(new)
      BY <1>8, <2>1, OversizedStable
    <3> QED BY <1>5, <1>8, <2>1, <3>1
  <2>2. CASE g # f
    <3>0. g \in 1..Len(fblocks)
      <4>1. /\ f \in 1..(Len(fblocks) + 1) /\ Len(fblocks) \in Nat
            /\ Len(fblocks') \in Nat /\ Len(fblocks') <= Len(fblocks) + 1
            /\ f <= Len(fblocks) => Len(fblocks') = Len(fblocks)
        BY <1>1, <1>3, <1>8
      <4> QED BY <4>1, <2>2
    <3>1. g \in 1..Len(fblocks) /\ fblocks'[g] = fblocks[g]
      BY <3>0, <1>8, <2>2
    <3>2. OversizedBlock(fblocks[g])' <=> OversizedBlock(fblocks[g])
      BY <3>1, OversizedStable
    <3> QED BY <3>1, <3>2 DEF FblocksFit
  <2> QED BY <2>1, <2>2
<1>12. HoldsAt(fblocks', loc, d)
  BY <1>5, <1>8 DEF HoldsAt
<1> QED BY <1>7, <1>8, <1>10, <1>11, <1>12 DEF StoreType

-----------------------------------------------------------------------------
(* The steps.  Each lemma: the action keeps IndInv and only appends.        *)

(* Nothing about the image changes.                                         *)
LEMMA ImageKept ==
    ASSUME IndInv, UNCHANGED <<input, targets, blocks, fblocks>>
    PROVE  LocatorsResolve' /\ FblocksFit' /\ StoreGrows
<1>1. LocatorsResolve'
  <2> SUFFICES ASSUME NEW s \in Source, NEW i \in 1..Len(targets[s])
               PROVE  /\ targets[s][i] \in 1..Len(blocks)
                      /\ blocks[targets[s][i]].fblocknum \in 1..Len(fblocks)
                      /\ HoldsAt(fblocks, blocks[targets[s][i]], Block(s, i - 1)')
    BY DEF LocatorsResolve, HoldsAt
  <2>1. Block(s, i - 1)' = Block(s, i - 1)
    BY InputStable
  <2> QED BY <2>1 DEF IndInv, LocatorsResolve
<1>2. FblocksFit'
  <2> SUFFICES ASSUME NEW f \in 1..Len(fblocks)
               PROVE  Len(fblocks[f]) <= FSIZE \/ OversizedBlock(fblocks[f])'
    BY DEF FblocksFit
  <2>1. OversizedBlock(fblocks[f])' <=> OversizedBlock(fblocks[f])
    <3>1. input' = input /\ fblocks'[f] = fblocks[f]
      OBVIOUS
    <3> QED BY <3>1, OversizedStable
  <2> QED BY <2>1 DEF FblocksFit, IndInv
<1>3. StoreGrows
  <2>1. fblocks \in Seq(Seq(Byte)) /\ blocks \in Seq([fblocknum : Nat, startoffs : Nat])
    BY DEF IndInv, TypeOK
  <2>2. \A f \in 1..Len(fblocks) : ExtendedBy(fblocks[f], fblocks'[f])
    BY <2>1 DEF ExtendedBy
  <2>3. ExtendedBy(blocks, blocks')
    BY <2>1 DEF ExtendedBy
  <2> QED BY <2>1, <2>2, <2>3 DEF StoreGrows
<1> QED BY <1>1, <1>2, <1>3

(* The block lists of the flushed sources stay as long as they are.         *)
LEMMA FlushedKept ==
    ASSUME IndInv, UNCHANGED <<input, targets, flushed>>
    PROVE  FlushComplete'
<1> SUFFICES ASSUME NEW s \in flushed
             PROVE  Len(targets[s]) = CalcSizeInBlocks(s)'
  BY DEF FlushComplete
<1>1. CalcSizeInBlocks(s)' = CalcSizeInBlocks(s)
  BY InputStable
<1> QED BY <1>1 DEF IndInv, FlushComplete

LEMMA ScheduleBlockifyStep ==
    ASSUME IndInv, NEW s \in Source, ScheduleBlockify(s)
    PROVE  IndInv' /\ StoreGrows
<1> USE DEF loopVars, hashVars, storeVars
<1>1. /\ pass = "open" /\ s \notin flushed /\ schedule' = Append(schedule, s)
      /\ \A i \in 1..Len(schedule) : schedule[i] # s
      /\ UNCHANGED <<input, method, pass, flushed, loaded, item, index, blocks_done,
                     where_list, hash_duplicate, full_hash_list, blockhashlist,
                     identical_list, targets, blocks, fblocks, space, autoindex,
                     last_autoindex_length>>
  BY DEF ScheduleBlockify
<1>2. schedule \in Seq(Source) /\ where_list = <<>> /\ blockhashlist = {}
      /\ identical_list = {} /\ full_hash_list = <<>>
  BY <1>1 DEF IndInv, TypeOK, LoopInv, IdenticalInv
<1>3. /\ schedule' \in Seq(Source) /\ Len(schedule') = Len(schedule) + 1
      /\ \A i \in 1..Len(schedule) : schedule'[i] = schedule[i]
      /\ schedule'[Len(schedule) + 1] = s
  BY <1>1, <1>2
<1>4. LocatorsResolve' /\ FblocksFit' /\ StoreGrows
  BY <1>1, ImageKept
<1>5. TypeOK'
  BY <1>1, <1>3 DEF IndInv, TypeOK
<1>6. ScheduleInv'
  <2>1. ASSUME NEW i \in 1..Len(schedule'), NEW j \in 1..Len(schedule'),
               schedule'[i] = schedule'[j]
        PROVE  i = j
    BY <1>1, <1>2, <1>3, <2>1 DEF IndInv, ScheduleInv
  <2>2. ASSUME NEW i \in 1..Len(schedule') PROVE schedule'[i] \notin flushed'
    BY <1>1, <1>2, <1>3, <2>2 DEF IndInv, ScheduleInv
  <2>3. ASSUME NEW r \in Source \ flushed' PROVE targets'[r] = <<>>
    BY <1>1 DEF IndInv, ScheduleInv
  <2> QED BY <2>1, <2>2, <2>3 DEF ScheduleInv
<1>7. WhereInv'
  <2>1. where_list' = <<>> /\ Len(where_list') = 0
    BY <1>1, <1>2
  <2> QED BY <2>1, <1>3 DEF WhereInv
<1>8. LoopInv'
  BY <1>1 DEF IndInv, LoopInv
<1>9. IdenticalInv'
  BY <1>1, <1>2 DEF IdenticalInv
<1>f. FlushComplete'
  BY <1>1, FlushedKept
<1> QED BY <1>4, <1>5, <1>6, <1>7, <1>8, <1>9, <1>f DEF IndInv

LEMMA BeginFlushStep ==
    ASSUME IndInv, BeginFlush
    PROVE  IndInv' /\ StoreGrows
<1> USE DEF loopVars, hashVars, storeVars
<1> DEFINE n == Len(schedule)
<1>1. /\ pass = "open" /\ pass' = "identical" /\ loaded' \in {FALSE, Resume}
      /\ UNCHANGED <<input, method, flushed, item, index, blocks_done,
                     where_list, full_hash_list, blockhashlist,
                     identical_list, targets, blocks, fblocks, space, autoindex,
                     last_autoindex_length>>
  BY DEF BeginFlush
<1>2. PICK perm \in [1..n -> 1..n] :
         Sorts(perm) /\ schedule' = [i \in 1..n |-> schedule[perm[i]]]
  BY DEF BeginFlush
<1>3. /\ schedule \in Seq(Source) /\ n \in Nat /\ where_list = <<>> /\ blockhashlist = {}
      /\ identical_list = {} /\ full_hash_list = <<>>
      /\ item = 1 /\ index = 0 /\ blocks_done = 0
  BY <1>1 DEF IndInv, TypeOK, LoopInv, IdenticalInv
<1>4. /\ schedule' \in Seq(Source) /\ Len(schedule') = n
      /\ \A i \in 1..n : schedule'[i] = schedule[perm[i]] /\ perm[i] \in 1..n
  <2>1. \A i \in 1..n : perm[i] \in 1..n
    BY <1>2
  <2>2. \A i \in 1..n : schedule[i] \in Source
    BY <1>3
  <2>3. schedule' \in [1..n -> Source]
    BY <1>2, <2>1, <2>2, Zenon
  <2>4. schedule' \in Seq(Source) /\ Len(schedule') = n
    <3> HIDE DEF n
    <3> QED BY <1>3, <2>3
  <2> QED BY <1>2, <2>1, <2>4, Zenon
<1>5. LocatorsResolve' /\ FblocksFit' /\ StoreGrows
  BY <1>1, ImageKept
<1>6. TypeOK'
  <2>1. loaded' \in BOOLEAN
    BY <1>1, BlockifierParameters
  <2> QED BY <1>1, <1>4, <2>1 DEF IndInv, TypeOK
<1>7. ScheduleInv'
  <2>1. ASSUME NEW i \in 1..n, NEW j \in 1..n, i < j
        PROVE  schedule'[i] # schedule'[j]
    <3>1. SUFFICES ASSUME schedule[perm[i]] = schedule[perm[j]] PROVE FALSE
      BY <1>4
    <3>2. perm[i] = perm[j]
      BY <1>4, <3>1 DEF IndInv, ScheduleInv
    <3>3. SortKey[schedule[perm[i]]] \in Nat
      <4>1. schedule[perm[i]] \in Source
        BY <1>3, <1>4
      <4> QED BY <4>1, BlockifierParameters
    <3> QED BY <1>2, <1>4, <2>1, <3>2, <3>3 DEF Sorts
  <2>2. ASSUME NEW i \in 1..n PROVE schedule'[i] \notin flushed'
    BY <1>1, <1>4 DEF IndInv, ScheduleInv
  <2>3. ASSUME NEW r \in Source \ flushed' PROVE targets'[r] = <<>>
    BY <1>1 DEF IndInv, ScheduleInv
  <2>4. \A i, j \in 1..n : i < j \/ j < i \/ i = j
    BY <1>3
  <2>5. \A i, j \in 1..Len(schedule') : schedule'[i] = schedule'[j] => i = j
    BY <1>4, <2>1, <2>4
  <2> QED BY <1>4, <2>2, <2>3, <2>5 DEF ScheduleInv
<1>8. WhereInv'
  <2>1. where_list' = <<>> /\ Len(where_list') = 0
    BY <1>1, <1>3
  <2> QED BY <2>1, <1>3, <1>4 DEF WhereInv
<1>9. LoopInv'
  <2>1. Len(where_list') = 0 /\ Len(schedule') \in Nat
    BY <1>1, <1>3, <1>4
  <2> QED BY <1>1, <1>3, <2>1 DEF LoopInv
<1>10. IdenticalInv'
  BY <1>1, <1>3 DEF IdenticalInv
<1>f. FlushComplete'
  BY <1>1, FlushedKept
<1> QED BY <1>5, <1>6, <1>7, <1>8, <1>9, <1>10, <1>f DEF IndInv

LEMMA EndFlushStep ==
    ASSUME IndInv, EndFlush
    PROVE  IndInv' /\ StoreGrows
<1> USE DEF loopVars, hashVars, storeVars
<1>1. /\ pass' = "open" /\ loaded' = FALSE
      /\ flushed' = flushed \cup {schedule[i] : i \in 1..Len(schedule)}
      /\ schedule' = <<>> /\ item' = 1 /\ index' = 0 /\ blocks_done' = 0
      /\ where_list' = <<>> /\ hash_duplicate' = {} /\ full_hash_list' = <<>>
      /\ blockhashlist' = {} /\ identical_list' = {}
      /\ UNCHANGED <<input, method, targets, blocks, fblocks, space, autoindex,
                     last_autoindex_length>>
  BY DEF EndFlush
<1>2. schedule \in Seq(Source) /\ flushed \subseteq Source
  BY DEF IndInv, TypeOK
<1>3. flushed' \subseteq Source
  BY <1>1, <1>2
<1>4. LocatorsResolve' /\ FblocksFit' /\ StoreGrows
  BY <1>1, ImageKept
<1>5. TypeOK'
  <2>1. /\ schedule' \in Seq(Source) /\ where_list' \in Seq(Nat)
        /\ item' \in Nat \ {0} /\ index' \in Nat /\ blocks_done' \in Nat
    BY <1>1
  <2>2. loaded' \in BOOLEAN /\ pass' \in {"open", "identical", "blockify"}
        /\ identical_list' \subseteq Nat \X Nat
    BY <1>1, Zenon
  <2> QED BY <1>1, <1>3, <2>1, <2>2 DEF IndInv, TypeOK
<1>6. ScheduleInv'
  <2>1. Len(schedule') = 0
    BY <1>1
  <2>2. ASSUME NEW r \in Source \ flushed' PROVE targets'[r] = <<>>
    BY <1>1 DEF IndInv, ScheduleInv
  <2> QED BY <2>1, <2>2 DEF ScheduleInv
<1>7. WhereInv'
  BY <1>1 DEF WhereInv
<1>8. LoopInv'
  BY <1>1 DEF LoopInv
<1>9. IdenticalInv'
  BY <1>1 DEF IdenticalInv
<1>10. FlushComplete'
  <2> SUFFICES ASSUME NEW s \in flushed'
               PROVE  Len(targets[s]) = CalcSizeInBlocks(s)'
    BY <1>1 DEF FlushComplete
  <2>1. CalcSizeInBlocks(s)' = CalcSizeInBlocks(s)
    BY <1>1, InputStable
  <2>2. CASE s \in flushed
    BY <2>1, <2>2 DEF IndInv, FlushComplete
  <2>3. CASE s \notin flushed
    <3>1. PICK i \in 1..Len(schedule) : s = schedule[i]
      BY <1>1, <2>3
    <3>2. i < item
      <4>1. item > Len(schedule) /\ item \in Nat /\ Len(schedule) \in Nat
        BY <1>2 DEF EndFlush, IndInv, TypeOK
      <4> QED BY <4>1
    <3>3. pass = "blockify"
      BY DEF EndFlush
    <3> QED BY <2>1, <3>1, <3>2, <3>3 DEF IndInv, LoopInv
  <2> QED BY <2>2, <2>3
<1> QED BY <1>4, <1>5, <1>6, <1>7, <1>8, <1>9, <1>10 DEF IndInv

(* A pass position inside the schedule.                                     *)
LEMMA CurrentType ==
    ASSUME IndInv, item <= Len(schedule)
    PROVE  /\ item \in 1..Len(schedule) /\ current \in Source
           /\ CalcSizeInBlocks(current) \in Nat
           /\ HasBlock(current, index) <=> index < CalcSizeInBlocks(current)
<1>1. /\ input \in Inputs /\ schedule \in Seq(Source) /\ item \in Nat \ {0}
      /\ index \in Nat
  BY DEF IndInv, TypeOK
<1>2. item \in 1..Len(schedule) /\ current \in Source
  BY <1>1 DEF current
<1> QED BY <1>1, <1>2, BlockCount

LEMMA MapItemStep ==
    ASSUME IndInv, MapItem
    PROVE  IndInv' /\ StoreGrows
<1> USE DEF loopVars, hashVars, storeVars
<1> DEFINE size == CalcSizeInBlocks(current)
<1>1. /\ pass = "identical" /\ item <= Len(schedule) /\ Len(where_list) = item - 1
      /\ where_list' = Append(where_list, blocks_done)
      /\ UNCHANGED <<input, method, pass, schedule, flushed, loaded, index,
                     hash_duplicate, full_hash_list, blockhashlist,
                     identical_list, targets, blocks, fblocks, space, autoindex,
                     last_autoindex_length>>
  BY DEF MapItem, InLoop
<1>2. /\ input \in Inputs /\ schedule \in Seq(Source) /\ item \in Nat \ {0}
      /\ blocks_done \in Nat /\ where_list \in Seq(Nat) /\ index = 0
  BY <1>1 DEF IndInv, TypeOK, LoopInv
<1>3. item \in 1..Len(schedule) /\ current \in Source /\ size \in Nat
  BY <1>1, CurrentType
<1>4. \/ blocks_done' = blocks_done + size /\ item' = item + 1
      \/ blocks_done' = blocks_done /\ item' = item
  BY DEF MapItem
<1> HIDE DEF size
<1>5. /\ where_list' \in Seq(Nat) /\ Len(where_list') = item
      /\ where_list'[item] = blocks_done
      /\ \A i \in 1..(item - 1) : where_list'[i] = where_list[i] /\ where_list[i] \in Nat
  BY <1>1, <1>2
<1>6. LocatorsResolve' /\ FblocksFit' /\ StoreGrows
  BY <1>1, ImageKept
<1>7. TypeOK'
  <2>1. item' \in Nat \ {0} /\ blocks_done' \in Nat
    BY <1>2, <1>3, <1>4
  <2> QED BY <1>1, <1>5, <2>1 DEF IndInv, TypeOK
<1>8. ScheduleInv'
  BY <1>1 DEF IndInv, ScheduleInv
<1>9. /\ \A i : CalcSizeInBlocks(schedule[i])' = CalcSizeInBlocks(schedule[i])
      /\ CalcSizeInBlocks(schedule[item])' = CalcSizeInBlocks(schedule[item'])
      /\ CalcSizeInBlocks(schedule[item - 1])' = CalcSizeInBlocks(schedule[item' - 1])
      /\ \A i \in 1..Len(schedule) : CalcSizeInBlocks(schedule[i]) \in Nat
  BY <1>1, <1>2, SizesStable, SizesType
<1>10. item > 1 => /\ blocks_done = where_list[item - 1] + CalcSizeInBlocks(schedule[item - 1])
                   /\ item - 1 \in 1..Len(where_list)
  BY <1>1, <1>2 DEF IndInv, LoopInv
<1>11. item = 1 => blocks_done = 0
  BY <1>1 DEF IndInv, LoopInv
<1>12. \A i \in 1..(item - 1) :
          where_list[i] + CalcSizeInBlocks(schedule[i]) <= blocks_done
  <2> SUFFICES ASSUME NEW i \in 1..(item - 1)
               PROVE  where_list[i] + CalcSizeInBlocks(schedule[i]) <= blocks_done
    OBVIOUS
  <2>1. CASE i = item - 1
    BY <1>2, <1>9, <1>10, <2>1
  <2>2. CASE i < item - 1
    <3>1. where_list[i] + CalcSizeInBlocks(schedule[i]) <= where_list[item - 1]
      BY <1>1, <1>2, <2>2 DEF IndInv, WhereInv
    <3>2. /\ CalcSizeInBlocks(schedule[i]) \in Nat
          /\ CalcSizeInBlocks(schedule[item - 1]) \in Nat
          /\ where_list[i] \in Nat /\ where_list[item - 1] \in Nat
      <4>1. item - 1 \in 1..(item - 1) /\ item - 1 \in 1..Len(schedule)
            /\ i \in 1..Len(schedule)
        BY <1>2, <1>3, <2>2
      <4> QED BY <1>5, <1>9, <4>1
    <3>3. blocks_done = where_list[item - 1] + CalcSizeInBlocks(schedule[item - 1])
      BY <1>2, <1>10, <2>2
    <3> QED BY <3>1, <3>2, <3>3
  <2> QED BY <1>2, <2>1, <2>2
<1>13. WhereInv'
  <2>1. Len(where_list') <= Len(schedule')
    BY <1>1, <1>5
  <2>2. where_list'[1] = 0
    <3>1. CASE item = 1
      BY <1>5, <1>11, <3>1
    <3>2. CASE item # 1
      <4>1. where_list # <<>> /\ 1 \in 1..(item - 1)
        BY <1>1, <1>2, <3>2
      <4> QED BY <1>5, <4>1 DEF IndInv, WhereInv
    <3> QED BY <3>1, <3>2
  <2>3. ASSUME NEW i \in 1..Len(where_list'), NEW j \in 1..Len(where_list'), i < j
        PROVE  where_list'[i] + CalcSizeInBlocks(schedule[i])' <= where_list'[j]
    <3>1. CalcSizeInBlocks(schedule[i])' = CalcSizeInBlocks(schedule[i])
      BY <1>9
    <3>2. i \in 1..(item - 1)
      BY <1>2, <1>5, <2>3
    <3>3. CASE j = item
      BY <1>5, <1>12, <3>1, <3>2, <3>3
    <3>4. CASE j # item
      <4>1. j \in 1..(item - 1)
        BY <1>2, <1>5, <3>4
      <4> QED BY <1>1, <1>5, <2>3, <3>1, <3>2, <4>1 DEF IndInv, WhereInv
    <3> QED BY <3>3, <3>4
  <2>4. ASSUME NEW i \in 1..Len(where_list'), i + 1 <= Len(where_list')
        PROVE  where_list'[i + 1] = where_list'[i] + CalcSizeInBlocks(schedule[i])'
    <3>1. CalcSizeInBlocks(schedule[i])' = CalcSizeInBlocks(schedule[i])
      BY <1>9
    <3>2. i \in 1..(item - 1)
      BY <1>2, <1>5, <2>4
    <3>3. CASE i + 1 = item
      <4>1. i = item - 1 /\ item > 1
        BY <1>2, <3>2, <3>3
      <4> QED BY <1>5, <1>10, <3>1, <3>2, <3>3, <4>1
    <3>4. CASE i + 1 # item
      <4>1. i + 1 \in 1..(item - 1)
        BY <1>2, <3>2, <3>4
      <4> QED BY <1>1, <1>5, <3>1, <3>2, <4>1 DEF IndInv, WhereInv
    <3> QED BY <3>3, <3>4
  <2> QED BY <2>1, <2>2, <2>3, <2>4 DEF WhereInv
<1>14. LoopInv'
  <2>1. pass' = "identical" /\ schedule' = schedule /\ index' = 0
    BY <1>1, <1>2
  <2>2. CalcSizeInBlocks(schedule[item]) = size
    BY DEF size, current
  <2>3. CASE blocks_done' = blocks_done + size /\ item' = item + 1
    <3>1. item' <= Len(schedule') + 1
      BY <1>1, <1>2, <2>1, <2>3
    <3>2. Len(where_list') = item' - 1 /\ item' # item /\ Len(where_list') # item' /\ item' > 1
      BY <1>2, <1>5, <2>3
    <3>3. item' - 1 = item
      BY <1>2, <2>3
    <3>4. blocks_done' = where_list'[item' - 1] + CalcSizeInBlocks(schedule[item - 1])'
      BY <1>5, <1>9, <2>2, <2>3, <3>3
    <3> QED BY <2>1, <3>1, <3>2, <3>4 DEF LoopInv
  <2>4. CASE blocks_done' = blocks_done /\ item' = item
    <3>1. item' <= Len(schedule') + 1
      BY <1>1, <1>2, <2>1, <2>4
    <3>2. Len(where_list') = item' /\ Len(where_list') # item' - 1
      BY <1>2, <1>5, <2>4
    <3>3. blocks_done' = where_list'[item'] + index'
      BY <1>2, <1>5, <2>1, <2>4
    <3>4. index' <= CalcSizeInBlocks(schedule[item])'
      BY <1>3, <1>9, <2>1, <2>2, <2>4
    <3> QED BY <2>1, <3>1, <3>2, <3>3, <3>4 DEF LoopInv
  <2> QED BY <1>4, <2>3, <2>4
<1>15. IdenticalInv'
  <2>0. blocks_done <= blocks_done' /\ blocks_done' \in Nat
    BY <1>2, <1>3, <1>4
  <2>1. ASSUME NEW e \in blockhashlist' PROVE e[2] \in Nat /\ e[2] < blocks_done'
    <3>1. e[2] \in Nat /\ e[2] < blocks_done
      BY <1>1 DEF IndInv, IdenticalInv
    <3> QED BY <1>2, <2>0, <3>1
  <2>2. ASSUME NEW e \in identical_list'
        PROVE  /\ e[2] < e[1] /\ e[1] < blocks_done'
               /\ \A i \in 1..Len(where_list') :
                     e[1] - where_list'[i] \in 0..(CalcSizeInBlocks(schedule[i])' - 1)
                       => SameData(schedule[i], e[1] - where_list[i], e[2])'
    <3>1. /\ e[1] \in Nat /\ e[2] \in Nat
      <4>1. e \in Nat \X Nat
        BY <1>1 DEF IndInv, TypeOK
      <4> QED BY <4>1
    <3>2. e[2] < e[1] /\ e[1] < blocks_done
      BY <1>1 DEF IndInv, IdenticalInv
    <3>3. e[1] < blocks_done'
      BY <1>2, <2>0, <3>1, <3>2
    <3>4. item # 1
      BY <1>11, <3>1, <3>2
    <3>5. where_list # <<>> /\ where_list[1] = 0
      <4>1. where_list # <<>>
        BY <1>1, <1>2, <3>4
      <4> QED BY <4>1 DEF IndInv, WhereInv
    <3>6. e[2] < blocks_done
      BY <1>2, <3>1, <3>2
    <3>7. WhereFind(e[2])' = WhereFind(e[2])
      BY <1>1, <1>2, <3>1, <3>5, <3>6, WhereFindStable
    <3>8. ASSUME NEW i \in 1..Len(where_list'),
                 e[1] - where_list'[i] \in 0..(CalcSizeInBlocks(schedule[i])' - 1)
          PROVE  SameData(schedule[i], e[1] - where_list[i], e[2])'
      <4>1. i # item
        BY <1>2, <1>3, <1>5, <3>1, <3>2, <3>8
      <4>2. i \in 1..(item - 1)
        BY <1>2, <1>5, <4>1
      <4>3. where_list'[i] = where_list[i] /\ schedule'[i] = schedule[i] /\ i \in 1..Len(where_list)
        BY <1>1, <1>2, <1>5, <4>2
      <4>4. e[1] - where_list[i] \in 0..(CalcSizeInBlocks(schedule[i]) - 1)
        BY <1>9, <3>8, <4>3
      <4>5. SameData(schedule[i], e[1] - where_list[i], e[2])
        BY <1>1, <4>3, <4>4 DEF IndInv, IdenticalInv
      <4> DEFINE x == e[1]
                 w == e[2]
      <4>6. SameData(schedule[i], x - where_list[i], w)'
              = SameData(schedule[i], x - where_list[i], w)
        <5>1. WhereFind(w)' = WhereFind(w)
          BY <3>7
        <5> HIDE DEF x, w
        <5> QED BY <1>1, <4>3, <5>1, SameDataStable
      <4> QED BY <4>5, <4>6
    <3> QED BY <3>2, <3>3, <3>8
  <2>3. /\ full_hash_list' \in Seq({full_hash_list'[w] : w \in DOMAIN full_hash_list'})
        /\ Len(full_hash_list') <= blocks_done'
    <3>1. /\ full_hash_list \in Seq({full_hash_list[w] : w \in DOMAIN full_hash_list})
          /\ Len(full_hash_list) <= blocks_done
      BY <1>1 DEF IndInv, IdenticalInv
    <3>2. Len(full_hash_list) \in Nat
      BY <3>1
    <3> QED BY <1>1, <1>2, <2>0, <3>1, <3>2
  <2>4. pass' = "identical"
    BY <1>1
  <2> QED BY <2>1, <2>2, <2>3, <2>4 DEF IdenticalInv
<1>f. FlushComplete'
  BY <1>1, FlushedKept
<1> QED BY <1>6, <1>7, <1>8, <1>13, <1>14, <1>15, <1>f DEF IndInv

(* Block numbers of the loop belong to one schedule item only.              *)
LEMMA OneItemPerBlock ==
    ASSUME IndInv, NEW w \in Nat,
           NEW i \in 1..Len(where_list), NEW j \in 1..Len(where_list),
           w - where_list[i] \in 0..(CalcSizeInBlocks(schedule[i]) - 1),
           w - where_list[j] \in 0..(CalcSizeInBlocks(schedule[j]) - 1)
    PROVE  i = j
<1>1. where_list \in Seq(Nat) /\ input \in Inputs /\ schedule \in Seq(Source)
      /\ Len(where_list) <= Len(schedule)
  BY DEF IndInv, TypeOK, WhereInv
<1>2. /\ where_list[i] \in Nat /\ where_list[j] \in Nat
      /\ i \in 1..Len(schedule) /\ j \in 1..Len(schedule)
  <2>1. Len(where_list) \in Nat /\ Len(schedule) \in Nat
    BY <1>1
  <2>2. i \in 1..Len(schedule) /\ j \in 1..Len(schedule)
    BY <1>1, <2>1
  <2>3. where_list[i] \in Nat /\ where_list[j] \in Nat
    BY <1>1, SMTT(40)
  <2> QED BY <2>2, <2>3
<1>3. CalcSizeInBlocks(schedule[i]) \in Nat /\ CalcSizeInBlocks(schedule[j]) \in Nat
  BY <1>1, <1>2, SizesType
<1>4. /\ i < j => where_list[i] + CalcSizeInBlocks(schedule[i]) <= where_list[j]
      /\ j < i => where_list[j] + CalcSizeInBlocks(schedule[j]) <= where_list[i]
  BY DEF IndInv, WhereInv
<1>5. ~(i < j) /\ ~(j < i)
  <2> DEFINE a == where_list[i]
             b == where_list[j]
             m == CalcSizeInBlocks(schedule[i])
             n == CalcSizeInBlocks(schedule[j])
  <2>1. /\ a \in Nat /\ b \in Nat /\ m \in Nat /\ n \in Nat
        /\ i < j => a + m <= b
        /\ j < i => b + n <= a
        /\ w - a \in 0..(m - 1) /\ w - b \in 0..(n - 1)
    BY <1>2, <1>3, <1>4
  <2> HIDE DEF a, b, m, n
  <2> QED BY <2>1
<1> QED BY <1>2, <1>5

(* The search compares with earlier blocks only.                            *)
LEMMA OthersAreEarlier ==
    ASSUME IndInv, pass = "identical", NEW d
    PROVE  /\ \A w \in Others(d) : w \in Nat /\ w < blocks_done
           /\ UseIndex(d) => \A e \in HashListFor(Hash(d)) : e[2] \in Nat /\ e[2] < blocks_done
<1> DEFINE h == Hash(d)
           n == Len(full_hash_list)
           S == {w \in 0..(n - 1) : full_hash_list[w + 1] = h}
<1>1. /\ blocks_done \in Nat /\ n \in Nat /\ n <= blocks_done
      /\ \A e \in blockhashlist : e[2] \in Nat /\ e[2] < blocks_done
  <2>1. full_hash_list \in Seq({full_hash_list[w] : w \in DOMAIN full_hash_list})
    BY DEF IndInv, IdenticalInv
  <2>2. n \in Nat
    BY <2>1
  <2> QED BY <2>2 DEF IndInv, IdenticalInv, TypeOK
<1>2. ASSUME UseIndex(d)
      PROVE  \A e \in HashListFor(h) : e[2] \in Nat /\ e[2] < blocks_done
  <2>1. CASE ~(method = "All_Speedup" /\ \A e \in blockhashlist : e[1] # h)
    BY <1>1, <2>1 DEF HashListFor
  <2>2. CASE method = "All_Speedup" /\ \A e \in blockhashlist : e[1] # h
    <3>1. SeenHash(h)
      BY <1>2, <2>2 DEF UseIndex
    <3>2. PICK w \in 1..n : full_hash_list[w] = h
      BY <3>1 DEF SeenHash
    <3>3. w - 1 \in S
      <4>1. w - 1 \in 0..(n - 1) /\ (w - 1) + 1 = w
        BY <1>1
      <4> QED BY <3>2, <4>1
    <3>4. S \subseteq Nat /\ \A x \in S : x \in Nat /\ x < blocks_done
      BY <1>1
    <3>5. HashListFor(h) = blockhashlist \cup {<<h, FirstOf(S, 0)>>}
      BY <2>2, Zenon DEF HashListFor
    <3> HIDE DEF S
    <3>6. FirstOf(S, 0) \in S
      BY <3>3, <3>4, FirstOfInSet, Zenon
    <3>7. FirstOf(S, 0) \in Nat /\ FirstOf(S, 0) < blocks_done
      BY <3>4, <3>6
    <3> QED BY <1>1, <3>5, <3>7
  <2> QED BY <2>1, <2>2
<1>3. ASSUME NEW w \in Others(d) PROVE w \in Nat /\ w < blocks_done
  <2>1. CASE UseIndex(d)
    <3>1. PICK e \in HashListFor(h) : w = e[2]
      BY <2>1 DEF Others
    <3> QED BY <1>2, <2>1, <3>1
  <2>2. CASE ~UseIndex(d) /\ UseList(d)
    <3>1. w \in 0..(blocks_done - 1)
      BY <2>2 DEF Others
    <3> QED BY <1>1, <3>1
  <2>3. CASE ~UseIndex(d) /\ ~UseList(d)
    BY <2>3 DEF Others
  <2> QED BY <2>1, <2>2, <2>3
<1> QED BY <1>2, <1>3

LEMMA FindIdenticalStep ==
    ASSUME IndInv, FindIdentical
    PROVE  IndInv' /\ StoreGrows
<1> USE DEF loopVars, hashVars, storeVars
<1> DEFINE d == Block(current, index)
           same == {w \in Others(d) : SameData(current, index, w)}
<1>1. /\ pass = "identical" /\ item <= Len(schedule) /\ Len(where_list) = item
      /\ HasBlock(current, index)
      /\ index' = index + 1 /\ blocks_done' = blocks_done + 1
      /\ full_hash_list' = Append(full_hash_list, Hash(d))
      /\ UNCHANGED <<input, method, pass, schedule, flushed, loaded, item, where_list,
                     hash_duplicate, targets, blocks, fblocks, space, autoindex,
                     last_autoindex_length>>
  BY DEF FindIdentical, InLoop
<1>2. \/ identical_list' = identical_list
      \/ \E other \in same : identical_list' = identical_list \cup {<<blocks_done, other>>}
  BY DEF FindIdentical
<1>3. blockhashlist' \subseteq blockhashlist \cup {<<Hash(d), blocks_done>>}
                                 \cup (IF UseIndex(d) THEN HashListFor(Hash(d)) ELSE {})
  <2> HIDE DEF d, same
  <2>1. \/ blockhashlist' = IF UseIndex(d) THEN HashListFor(Hash(d)) ELSE blockhashlist
        \/ blockhashlist' = IF UseIndex(d)
                            THEN HashListFor(Hash(d)) \cup {<<Hash(d), blocks_done>>}
                            ELSE blockhashlist
    BY DEF FindIdentical, d, same
  <2> QED BY <2>1, Zenon
<1>4. /\ input \in Inputs /\ schedule \in Seq(Source) /\ item \in Nat \ {0} /\ index \in Nat
      /\ blocks_done \in Nat /\ where_list \in Seq(Nat) /\ identical_list \subseteq Nat \X Nat
  BY DEF IndInv, TypeOK
<1>5. /\ item \in 1..Len(schedule) /\ current \in Source
      /\ CalcSizeInBlocks(current) \in Nat /\ index < CalcSizeInBlocks(current)
  BY <1>1, CurrentType
<1>6. blocks_done = where_list[item] + index
  BY <1>1 DEF IndInv, LoopInv
<1>7. \A w \in same : w \in Nat /\ w < blocks_done /\ SameData(current, index, w)
  BY <1>1, OthersAreEarlier
<1>8. UseIndex(d) => \A e \in HashListFor(Hash(d)) : e[2] \in Nat /\ e[2] < blocks_done
  BY <1>1, OthersAreEarlier
<1> HIDE DEF d, same
<1>9. LocatorsResolve' /\ FblocksFit' /\ StoreGrows
  BY <1>1, ImageKept
<1>10. identical_list' \subseteq Nat \X Nat
  BY <1>2, <1>4, <1>7
<1>11. TypeOK'
  <2>1. index' \in Nat /\ blocks_done' \in Nat
    BY <1>1, <1>4
  <2> QED BY <1>1, <1>10, <2>1 DEF IndInv, TypeOK
<1>12. ScheduleInv'
  BY <1>1 DEF IndInv, ScheduleInv
<1>13. /\ \A i : CalcSizeInBlocks(schedule[i])' = CalcSizeInBlocks(schedule[i])
       /\ CalcSizeInBlocks(schedule[item])' = CalcSizeInBlocks(schedule[item'])
  BY <1>1, SizesStable
<1>14. WhereInv'
  BY <1>1, <1>13 DEF IndInv, WhereInv
<1>15. LoopInv'
  <2>1. pass' = "identical" /\ item' <= Len(schedule') + 1 /\ Len(where_list') = item'
        /\ Len(where_list') # item' - 1
    BY <1>1, <1>4, <1>5
  <2>2. blocks_done' = where_list'[item'] + index'
    <3>1. where_list[item] \in Nat
      BY <1>1, <1>4
    <3> QED BY <1>1, <1>4, <1>6, <3>1
  <2>3. index' <= CalcSizeInBlocks(schedule[item])'
    <3>1. CalcSizeInBlocks(schedule[item])' = CalcSizeInBlocks(current)
      BY <1>1, <1>13 DEF current
    <3> QED BY <1>1, <1>4, <1>5, <3>1
  <2> QED BY <2>1, <2>2, <2>3 DEF LoopInv
<1>16. IdenticalInv'
  <2>1. ASSUME NEW e \in blockhashlist' PROVE e[2] \in Nat /\ e[2] < blocks_done'
    <3>1. \/ e \in blockhashlist \/ e = <<Hash(d), blocks_done>>
          \/ UseIndex(d) /\ e \in HashListFor(Hash(d))
      BY <1>3
    <3>2. e \in blockhashlist => e[2] \in Nat /\ e[2] < blocks_done
      BY <1>1 DEF IndInv, IdenticalInv
    <3>3. e[2] \in Nat /\ e[2] <= blocks_done
      BY <1>4, <1>8, <3>1, <3>2
    <3> QED BY <1>1, <1>4, <3>3
  <2>2. \A w : WhereFind(w)' = WhereFind(w)
    BY <1>1 DEF WhereFind
  <2>3. ASSUME NEW i \in 1..Len(where_list), NEW x, NEW w
        PROVE  SameData(schedule[i], x - where_list[i], w)'
                 = SameData(schedule[i], x - where_list[i], w)
    BY <1>1, <2>2, SameDataStable
  <2>4. ASSUME NEW e \in identical_list'
        PROVE  /\ e[2] < e[1] /\ e[1] < blocks_done'
               /\ \A i \in 1..Len(where_list) :
                     e[1] - where_list[i] \in 0..(CalcSizeInBlocks(schedule[i]) - 1)
                       => SameData(schedule[i], e[1] - where_list[i], e[2])
    <3>1. CASE e \in identical_list
      <4>1. /\ e[2] < e[1] /\ e[1] < blocks_done
            /\ \A i \in 1..Len(where_list) :
                  e[1] - where_list[i] \in 0..(CalcSizeInBlocks(schedule[i]) - 1)
                    => SameData(schedule[i], e[1] - where_list[i], e[2])
        BY <1>1, <3>1 DEF IndInv, IdenticalInv
      <4>2. e[1] \in Nat
        BY <1>4, <3>1
      <4> QED BY <1>1, <1>4, <4>1, <4>2
    <3>2. CASE e \notin identical_list
      <4>1. PICK other \in same : e = <<blocks_done, other>>
        BY <1>2, <3>2
      <4>2. e[1] = blocks_done /\ e[2] = other
        BY <4>1
      <4>3. ASSUME NEW i \in 1..Len(where_list),
                   blocks_done - where_list[i] \in 0..(CalcSizeInBlocks(schedule[i]) - 1)
            PROVE  SameData(schedule[i], blocks_done - where_list[i], other)
        <5>1. item \in 1..Len(where_list) /\ where_list[item] \in Nat
          BY <1>1, <1>4
        <5>2. blocks_done - where_list[item] = index
          BY <1>4, <1>6, <5>1
        <5>3. blocks_done - where_list[item] \in 0..(CalcSizeInBlocks(schedule[item]) - 1)
          BY <1>4, <1>5, <5>2 DEF current
        <5>4. i = item
          BY <1>4, <4>3, <5>1, <5>3, OneItemPerBlock
        <5> QED BY <1>7, <5>2, <5>4 DEF current
      <4>4. other < blocks_done /\ blocks_done < blocks_done'
        BY <1>1, <1>4, <1>7
      <4> QED BY <4>2, <4>3, <4>4
    <3> QED BY <3>1, <3>2
  <2>5. /\ full_hash_list' \in Seq({full_hash_list'[w] : w \in DOMAIN full_hash_list'})
        /\ Len(full_hash_list') <= blocks_done'
    <3> DEFINE R == {full_hash_list[w] : w \in DOMAIN full_hash_list} \cup {Hash(d)}
    <3>1. full_hash_list \in Seq({full_hash_list[w] : w \in DOMAIN full_hash_list})
          /\ Len(full_hash_list) <= blocks_done
      BY <1>1 DEF IndInv, IdenticalInv
    <3>2. full_hash_list \in Seq(R) /\ Hash(d) \in R
      BY <3>1
    <3> HIDE DEF R
    <3>3. full_hash_list' \in Seq(R) /\ Len(full_hash_list') = Len(full_hash_list) + 1
      BY <1>1, <3>2
    <3>4. full_hash_list' \in Seq({full_hash_list'[w] : w \in DOMAIN full_hash_list'})
      BY <3>3
    <3>5. Len(full_hash_list) \in Nat
      BY <3>2
    <3>6. Len(full_hash_list) + 1 <= blocks_done + 1
      BY <1>4, <3>1, <3>5
    <3> QED BY <1>1, <3>3, <3>4, <3>6, Zenon
  <2>6. pass' = "identical" /\ where_list' = where_list
    BY <1>1
  <2> QED BY <1>13, <2>1, <2>3, <2>4, <2>5, <2>6 DEF IdenticalInv
<1>f. FlushComplete'
  BY <1>1, FlushedKept
<1> QED BY <1>9, <1>11, <1>12, <1>14, <1>15, <1>16, <1>f DEF IndInv

(* A source behind the current one has no block numbers yet.                *)
LEMMA NoTargetsYet ==
    ASSUME IndInv, NEW i \in 1..Len(schedule), pass = "blockify" => item < i
    PROVE  Len(targets[schedule[i]]) = 0
<1>1. schedule \in Seq(Source) /\ item \in Nat \ {0}
  BY DEF IndInv, TypeOK
<1>2. schedule[i] \in Source \ flushed
  BY <1>1 DEF IndInv, ScheduleInv
<1>3. SUFFICES ASSUME targets[schedule[i]] # <<>> PROVE FALSE
  OBVIOUS
<1>4. pass = "blockify" /\ \E j \in 1..Len(schedule) : j <= item /\ schedule[j] = schedule[i]
  BY <1>2, <1>3 DEF IndInv, ScheduleInv
<1>5. i <= item
  BY <1>4 DEF IndInv, ScheduleInv
<1> QED BY <1>1, <1>4, <1>5

(* Where neither the lists nor the schedule change, what is recorded in     *)
(* them stays right.                                                        *)
LEMMA IdenticalKept ==
    ASSUME IndInv, UNCHANGED <<input, pass, schedule, where_list, full_hash_list,
                               blockhashlist, identical_list>>,
           pass = "identical" => blocks_done' = blocks_done
    PROVE  IdenticalInv'
<1>1. \A w : WhereFind(w)' = WhereFind(w)
  BY DEF WhereFind
<1>2. ASSUME NEW i \in 1..Len(where_list), NEW x, NEW w
      PROVE  SameData(schedule[i], x - where_list[i], w)
               => SameData(schedule[i], x - where_list[i], w)'
  BY <1>1, SameDataStable
<1>3. \A i : CalcSizeInBlocks(schedule[i])' = CalcSizeInBlocks(schedule[i])
  BY SizesStable
<1>4. ASSUME NEW e \in identical_list'
      PROVE  /\ e[2] < e[1]
             /\ pass' = "identical" => e[1] < blocks_done'
             /\ \A i \in 1..Len(where_list') :
                   e[1] - where_list'[i] \in 0..(CalcSizeInBlocks(schedule[i])' - 1)
                     => SameData(schedule[i], e[1] - where_list[i], e[2])'
  <2> DEFINE x == e[1]
             w == e[2]
  <2>1. /\ w < x /\ (pass' = "identical" => x < blocks_done')
        /\ where_list' = where_list
        /\ \A i \in 1..Len(where_list) :
              x - where_list[i] \in 0..(CalcSizeInBlocks(schedule[i]) - 1)
                => SameData(schedule[i], x - where_list[i], w)
    BY DEF IndInv, IdenticalInv
  <2> HIDE DEF x, w
  <2>2. ASSUME NEW i \in 1..Len(where_list'),
               x - where_list'[i] \in 0..(CalcSizeInBlocks(schedule[i])' - 1)
        PROVE  SameData(schedule[i], x - where_list[i], w)'
    <3>1. i \in 1..Len(where_list) /\ SameData(schedule[i], x - where_list[i], w)
      BY <1>3, <2>1, <2>2
    <3> QED BY <1>2, <3>1
  <2> QED BY <2>1, <2>2 DEF x, w
<1>5. /\ full_hash_list' \in Seq({full_hash_list'[w] : w \in DOMAIN full_hash_list'})
      /\ pass' = "identical" => Len(full_hash_list') <= blocks_done'
      /\ \A e \in blockhashlist' : e[2] \in Nat /\ (pass' = "identical" => e[2] < blocks_done')
      /\ pass' = "open" => blockhashlist' = {} /\ identical_list' = {} /\ full_hash_list' = <<>>
  BY DEF IndInv, IdenticalInv
<1> QED BY <1>4, <1>5, Zenon DEF IdenticalInv

LEMMA NextItemStep ==
    ASSUME IndInv, NextItem
    PROVE  IndInv' /\ StoreGrows
<1> USE DEF loopVars, hashVars, storeVars
<1>1. /\ (pass = "identical" /\ Len(where_list) = item) \/ pass = "blockify"
      /\ item <= Len(schedule)
      /\ ~HasBlock(current, index) /\ item' = item + 1 /\ index' = 0
      /\ UNCHANGED <<input, method, pass, schedule, flushed, loaded, blocks_done,
                     where_list, hash_duplicate, full_hash_list, blockhashlist,
                     identical_list, targets, blocks, fblocks, space, autoindex,
                     last_autoindex_length>>
  BY DEF NextItem, InLoop
<1>2. /\ input \in Inputs /\ schedule \in Seq(Source) /\ item \in Nat \ {0} /\ index \in Nat
      /\ blocks_done \in Nat /\ where_list \in Seq(Nat) /\ Len(schedule) \in Nat
  BY DEF IndInv, TypeOK
<1>3. /\ item \in 1..Len(schedule) /\ current \in Source
      /\ CalcSizeInBlocks(current) \in Nat /\ ~(index < CalcSizeInBlocks(current))
  BY <1>1, CurrentType
<1>4. blocks_done = where_list[item] + index /\ index <= CalcSizeInBlocks(schedule[item])
  BY <1>1 DEF IndInv, LoopInv
<1>5. index = CalcSizeInBlocks(schedule[item])
  BY <1>2, <1>3, <1>4 DEF current
<1>6. LocatorsResolve' /\ FblocksFit' /\ StoreGrows
  BY <1>1, ImageKept
<1>7. TypeOK'
  <2>1. item' \in Nat \ {0} /\ index' \in Nat
    BY <1>1, <1>2
  <2> QED BY <1>1, <2>1 DEF IndInv, TypeOK
<1>8. ScheduleInv'
  <2>1. ASSUME NEW s \in Source \ flushed, targets[s] # <<>>
        PROVE  pass = "blockify" /\ \E i \in 1..Len(schedule) : i <= item' /\ schedule[i] = s
    <3>1. pass = "blockify" /\ \E i \in 1..Len(schedule) : i <= item /\ schedule[i] = s
      BY <2>1 DEF IndInv, ScheduleInv
    <3> QED BY <1>1, <1>2, <3>1
  <2> QED BY <1>1, <2>1 DEF IndInv, ScheduleInv
<1>9. /\ \A i : CalcSizeInBlocks(schedule[i])' = CalcSizeInBlocks(schedule[i])
      /\ CalcSizeInBlocks(schedule[item])' = CalcSizeInBlocks(schedule[item'])
      /\ CalcSizeInBlocks(schedule[item - 1])' = CalcSizeInBlocks(schedule[item' - 1])
      /\ \A i \in 1..Len(schedule) : CalcSizeInBlocks(schedule[i]) \in Nat
  BY <1>1, <1>2, SizesStable, SizesType
<1>10. WhereInv'
  BY <1>1, <1>9 DEF IndInv, WhereInv
<1>11. item' - 1 = item /\ item' <= Len(schedule) + 1 /\ item' > 1
  BY <1>1, <1>2
<1>12. LoopInv'
  <2>1. CASE pass = "identical"
    <3>1. Len(where_list') = item' - 1 /\ Len(where_list') # item'
      BY <1>1, <1>2, <1>11, <2>1
    <3>2. blocks_done' = where_list'[item' - 1] + CalcSizeInBlocks(schedule[item - 1])'
      BY <1>1, <1>4, <1>5, <1>9, <1>11
    <3> QED BY <1>1, <1>11, <2>1, <3>1, <3>2 DEF LoopInv
  <2>2. CASE pass = "blockify"
    <3>1. /\ Len(where_list) = Len(schedule) /\ Len(targets[schedule[item]]) = index
          /\ \A i \in 1..Len(schedule) : i < item =>
                Len(targets[schedule[i]]) = CalcSizeInBlocks(schedule[i])
      BY <1>1, <2>2 DEF IndInv, LoopInv
    <3>2. ASSUME NEW i \in 1..Len(schedule), i < item'
          PROVE  Len(targets[schedule[i]]) = CalcSizeInBlocks(schedule[i])
      <4>1. i < item \/ i = item
        BY <1>1, <1>2, <3>2
      <4> QED BY <1>5, <3>1, <4>1
    <3>3. ASSUME item' <= Len(schedule)
          PROVE  /\ blocks_done = where_list[item'] + 0
                 /\ 0 <= CalcSizeInBlocks(schedule[item'])
                 /\ Len(targets[schedule[item']]) = 0
      <4>1. item' \in 1..Len(schedule) /\ item < item' /\ item + 1 <= Len(where_list)
        BY <1>1, <1>2, <3>1, <3>3
      <4>2. where_list[item + 1] = where_list[item] + CalcSizeInBlocks(schedule[item])
        BY <1>3, <3>1, <4>1 DEF IndInv, WhereInv
      <4>3. where_list[item'] \in Nat
        BY <1>2, <3>1, <4>1
      <4>4. blocks_done = where_list[item'] + 0
        BY <1>1, <1>4, <1>5, <4>2, <4>3
      <4>5. Len(targets[schedule[item']]) = 0
        BY <4>1, NoTargetsYet
      <4> QED BY <1>9, <4>1, <4>4, <4>5
    <3> QED BY <1>1, <1>9, <1>11, <2>2, <3>1, <3>2, <3>3 DEF LoopInv
  <2> QED BY <1>1, <2>1, <2>2
<1>13. IdenticalInv'
  BY <1>1, IdenticalKept
<1>f. FlushComplete'
  BY <1>1, FlushedKept
<1> QED BY <1>6, <1>7, <1>8, <1>10, <1>12, <1>13, <1>f DEF IndInv

LEMMA EndIdenticalStep ==
    ASSUME IndInv, EndIdentical
    PROVE  IndInv' /\ StoreGrows
<1> USE DEF loopVars, hashVars, storeVars
<1>1. /\ pass = "identical" /\ item > Len(schedule) /\ pass' = "blockify"
      /\ identical_list' \in (IF loaded THEN SavedLists ELSE {identical_list})
      /\ item' = 1 /\ index' = 0 /\ blocks_done' = 0
      /\ UNCHANGED <<input, method, schedule, flushed, loaded,
                     where_list, hash_duplicate, full_hash_list, blockhashlist,
                     targets, blocks, fblocks, space, autoindex, last_autoindex_length>>
  BY DEF EndIdentical
<1>2. /\ input \in Inputs /\ schedule \in Seq(Source) /\ item \in Nat \ {0}
      /\ where_list \in Seq(Nat) /\ Len(schedule) \in Nat
      /\ identical_list \subseteq Nat \X Nat
  BY DEF IndInv, TypeOK
<1>3. Len(where_list) = Len(schedule)
  <2>1. Len(where_list) \in {item - 1, item} /\ item <= Len(schedule) + 1
    BY <1>1 DEF IndInv, LoopInv
  <2>2. Len(where_list) <= Len(schedule)
    BY DEF IndInv, WhereInv
  <2> QED BY <1>1, <1>2, <2>1, <2>2
<1>4. /\ \A i : CalcSizeInBlocks(schedule[i])' = CalcSizeInBlocks(schedule[i])
      /\ CalcSizeInBlocks(schedule[item])' = CalcSizeInBlocks(schedule[item'])
      /\ \A i \in 1..Len(schedule) : CalcSizeInBlocks(schedule[i]) \in Nat
  BY <1>1, <1>2, SizesStable, SizesType
<1>5. ASSUME NEW e \in identical_list'
      PROVE  /\ e \in Nat \X Nat /\ e[2] < e[1]
             /\ \A i \in 1..Len(where_list) :
                   e[1] - where_list[i] \in 0..(CalcSizeInBlocks(schedule[i]) - 1)
                     => SameData(schedule[i], e[1] - where_list[i], e[2])
  <2>1. CASE ~loaded
    <3>1. e \in identical_list
      BY <1>1, <2>1
    <3> QED BY <1>2, <3>1 DEF IndInv, IdenticalInv
  <2>2. CASE loaded
    <3>1. PICK b \in ScheduledBlocks :
             \E o \in 0..((where_list[b[1]] + b[2]) - 1) :
                SameData(schedule[b[1]], b[2], o) /\ e = <<where_list[b[1]] + b[2], o>>
      BY <1>1, <2>2 DEF SavedLists
    <3>2. PICK o \in 0..((where_list[b[1]] + b[2]) - 1) :
                SameData(schedule[b[1]], b[2], o) /\ e = <<where_list[b[1]] + b[2], o>>
      BY <3>1
    <3>2a. PICK j \in 1..Len(schedule) :
              \E k \in 0..(CalcSizeInBlocks(schedule[j]) - 1) : b = <<j, k>>
      BY DEF ScheduledBlocks
    <3>3. PICK k \in 0..(CalcSizeInBlocks(schedule[j]) - 1) : b = <<j, k>>
      BY <3>2a
    <3>4. /\ k \in Nat /\ where_list[j] \in Nat /\ j \in 1..Len(where_list)
      BY <1>2, <1>3, <1>4
    <3> DEFINE w == where_list[j] + k
    <3>5. /\ w \in Nat /\ w - where_list[j] = k /\ o \in 0..(w - 1)
          /\ SameData(schedule[j], k, o) /\ e = <<w, o>>
      BY <3>2, <3>3, <3>4
    <3> HIDE DEF w
    <3>6. ASSUME NEW i \in 1..Len(where_list),
                 w - where_list[i] \in 0..(CalcSizeInBlocks(schedule[i]) - 1)
          PROVE  SameData(schedule[i], w - where_list[i], o)
      <4>1. w - where_list[j] \in 0..(CalcSizeInBlocks(schedule[j]) - 1)
        BY <3>3, <3>5
      <4>2. i = j
        BY <3>4, <3>5, <3>6, <4>1, OneItemPerBlock
      <4> QED BY <3>5, <4>2
    <3>7. o \in Nat /\ o < w
      BY <3>5
    <3>8. e[1] = w /\ e[2] = o /\ e \in Nat \X Nat
      BY <3>5, <3>7
    <3> QED BY <3>6, <3>7, <3>8
  <2> QED BY <2>1, <2>2
<1>6. LocatorsResolve' /\ FblocksFit' /\ StoreGrows
  BY <1>1, ImageKept
<1>7. TypeOK'
  <2>1. item' \in Nat \ {0} /\ index' \in Nat /\ blocks_done' \in Nat
    BY <1>1
  <2>2. pass' \in {"open", "identical", "blockify"}
    BY <1>1
  <2>3. identical_list' \subseteq Nat \X Nat
    BY <1>5, Zenon
  <2> QED BY <1>1, <2>1, <2>2, <2>3 DEF IndInv, TypeOK
<1>8. ScheduleInv'
  <2>1. \A s \in Source \ flushed : targets[s] = <<>>
    BY <1>1 DEF IndInv, ScheduleInv
  <2> QED BY <1>1, <2>1 DEF IndInv, ScheduleInv
<1>9. WhereInv'
  BY <1>1, <1>4 DEF IndInv, WhereInv
<1>10. LoopInv'
  <2>1. ASSUME 1 <= Len(schedule)
        PROVE  /\ where_list[1] = 0 /\ 0 <= CalcSizeInBlocks(schedule[1])
               /\ Len(targets[schedule[1]]) = 0
    <3>1. 1 \in 1..Len(schedule) /\ where_list # <<>>
      BY <1>2, <1>3, <2>1
    <3>2. Len(targets[schedule[1]]) = 0
      BY <1>1, <3>1, NoTargetsYet
    <3>3. where_list[1] = 0
      BY <3>1 DEF IndInv, WhereInv
    <3> QED BY <1>4, <3>1, <3>2, <3>3
  <2>2. 1 <= Len(schedule) + 1
    BY <1>2
  <2>3. \A i \in 1..Len(schedule) : ~(i < 1)
    BY <1>2
  <2> QED BY <1>1, <1>3, <1>4, <2>1, <2>2, <2>3 DEF LoopInv
<1>11. IdenticalInv'
  <2>1. \A w : WhereFind(w)' = WhereFind(w)
    BY <1>1 DEF WhereFind
  <2>2. ASSUME NEW i \in 1..Len(where_list), NEW x, NEW w
        PROVE  SameData(schedule[i], x - where_list[i], w)
                 => SameData(schedule[i], x - where_list[i], w)'
    BY <1>1, <2>1, SameDataStable
  <2>3. full_hash_list \in Seq({full_hash_list[w] : w \in DOMAIN full_hash_list})
    BY DEF IndInv, IdenticalInv
  <2>4. \A e \in blockhashlist : e[2] \in Nat
    BY DEF IndInv, IdenticalInv
  <2>5. pass' = "blockify" /\ where_list' = where_list
        /\ full_hash_list' = full_hash_list /\ blockhashlist' = blockhashlist
    BY <1>1
  <2>6. ASSUME NEW e \in identical_list'
        PROVE  /\ e[2] < e[1]
               /\ pass' = "identical" => e[1] < blocks_done'
               /\ \A i \in 1..Len(where_list') :
                     e[1] - where_list'[i] \in 0..(CalcSizeInBlocks(schedule[i])' - 1)
                       => SameData(schedule[i], e[1] - where_list[i], e[2])'
    <3> DEFINE x == e[1]
               w == e[2]
    <3>1. /\ w < x /\ (pass' = "identical" => x < blocks_done')
          /\ where_list' = where_list
          /\ \A i \in 1..Len(where_list) :
                x - where_list[i] \in 0..(CalcSizeInBlocks(schedule[i]) - 1)
                  => SameData(schedule[i], x - where_list[i], w)
      BY <1>1, <1>5, <2>5
    <3> HIDE DEF x, w
    <3>2. ASSUME NEW i \in 1..Len(where_list'),
                 x - where_list'[i] \in 0..(CalcSizeInBlocks(schedule[i])' - 1)
          PROVE  SameData(schedule[i], x - where_list[i], w)'
      <4>1. i \in 1..Len(where_list) /\ SameData(schedule[i], x - where_list[i], w)
        BY <1>4, <3>1, <3>2
      <4> QED BY <2>2, <4>1
    <3> QED BY <3>1, <3>2 DEF x, w
  <2>7. /\ full_hash_list' \in Seq({full_hash_list'[w] : w \in DOMAIN full_hash_list'})
        /\ pass' = "identical" => Len(full_hash_list') <= blocks_done'
        /\ \A e \in blockhashlist' : e[2] \in Nat /\ (pass' = "identical" => e[2] < blocks_done')
    BY <2>3, <2>4, <2>5
  <2> QED BY <2>5, <2>6, <2>7, Zenon DEF IdenticalInv
<1>f. FlushComplete'
  BY <1>1, FlushedKept
<1> QED BY <1>6, <1>7, <1>8, <1>9, <1>10, <1>11, <1>f DEF IndInv

(* Also where a source has no block the piece read there has a length.      *)
LEMMA BlockLen ==
    ASSUME input \in Inputs, NEW s \in Source, NEW k \in Nat
    PROVE  Len(Block(s, k)) \in Nat
<1>1. CASE HasBlock(s, k)
  <2>1. Len(Block(s, k)) = Eat(s, k) /\ Eat(s, k) \in 1..BlockSize(s)
    BY <1>1, BlockType
  <2> QED BY <2>1, SourceType
<1>2. CASE ~HasBlock(s, k)
  <2> DEFINE m == Offset(s, k) + 1
             e == Offset(s, k) + Eat(s, k)
             D == Data(s)
  <2>1. Data(s) \in Seq(Byte) /\ Len(Data(s)) \in Nat /\ BlockSize(s) \in Nat \ {0}
    BY SourceType
  <2>2. Offset(s, k) \in Nat
    BY <2>1 DEF Offset
  <2>3. m \in Int /\ e \in Int /\ e < m
    BY <1>2, <2>1, <2>2 DEF HasBlock, Eat, Smaller
  <2>4. Block(s, k) = SubSeq(D, m, e)
    BY DEF Block, ReadSource
  <2>5. D \in Seq(Byte)
    BY <2>1
  <2> HIDE DEF m, e, D
  <2>6. SubSeq(D, m, e) \in Seq(Byte)
    BY <2>3, <2>5, SubSeqProperties
  <2> QED BY <2>4, <2>6
<1> QED BY <1>1, <1>2

(* Giving the current block a number under which it can be found keeps the  *)
(* invariant.                                                               *)
LEMMA PutBlockNumberStep ==
    ASSUME IndInv, InLoop("blockify"), HasBlock(current, index),
           NEW num \in Nat, PutBlockNumber(num),
           num \in 1..Len(blocks'), blocks'[num].fblocknum \in 1..Len(fblocks'),
           HoldsAt(fblocks', blocks'[num], Block(current, index)),
           StoreType', FblocksFit', StoreGrows, space' \in Seq(Nat)
    PROVE  IndInv'
<1> USE DEF hashVars
<1>1. /\ pass = "blockify" /\ item <= Len(schedule)
      /\ targets' = [targets EXCEPT ![current] = Append(@, num)]
      /\ index' = index + 1 /\ blocks_done' = blocks_done + 1
      /\ UNCHANGED <<input, method, pass, schedule, flushed, loaded, item, where_list,
                     hash_duplicate, full_hash_list, blockhashlist, identical_list>>
  BY DEF PutBlockNumber, InLoop
<1>2. /\ input \in Inputs /\ schedule \in Seq(Source) /\ item \in Nat \ {0} /\ index \in Nat
      /\ blocks_done \in Nat /\ where_list \in Seq(Nat) /\ Len(schedule) \in Nat
      /\ targets \in [Source -> Seq(Nat)]
  BY DEF IndInv, TypeOK
<1>3. /\ item \in 1..Len(schedule) /\ current \in Source
      /\ CalcSizeInBlocks(current) \in Nat /\ index < CalcSizeInBlocks(current)
  BY <1>1, CurrentType
<1>4. /\ Len(where_list) = Len(schedule) /\ blocks_done = where_list[item] + index
      /\ Len(targets[current]) = index
      /\ \A i \in 1..Len(schedule) : i < item =>
            Len(targets[schedule[i]]) = CalcSizeInBlocks(schedule[i])
  BY <1>1 DEF IndInv, LoopInv, current
<1>5. /\ targets' \in [Source -> Seq(Nat)]
      /\ targets'[current] = Append(targets[current], num)
      /\ \A s \in Source : s # current => targets'[s] = targets[s]
  <2>1. targets[current] \in Seq(Nat)
    BY <1>2, <1>3
  <2>2. Append(targets[current], num) \in Seq(Nat)
    BY <2>1
  <2> QED BY <1>1, <1>2, <1>3, <2>2
<1>6. /\ Len(targets'[current]) = index + 1 /\ targets'[current][index + 1] = num
      /\ \A i \in 1..index : targets'[current][i] = targets[current][i]
      /\ targets'[current] # <<>>
  <2>1. targets[current] \in Seq(Nat)
    BY <1>2, <1>3
  <2> DEFINE tc == targets[current]
             tn == targets'[current]
  <2>2. tc \in Seq(Nat) /\ Len(tc) = index /\ tn = Append(tc, num)
    BY <1>4, <1>5, <2>1
  <2> HIDE DEF tc, tn
  <2>3. /\ Len(tn) = index + 1 /\ tn[index + 1] = num
        /\ \A i \in 1..index : tn[i] = tc[i]
    BY <2>2
  <2>4. tn # <<>>
    BY <1>2, <2>3
  <2> QED BY <2>3, <2>4 DEF tc, tn
<1>7. TypeOK'
  <2>1. index' \in Nat /\ blocks_done' \in Nat
    BY <1>1, <1>2
  <2>2. fblocks' \in Seq(Seq(Byte)) /\ blocks' \in Seq([fblocknum : Nat, startoffs : Nat])
    BY DEF StoreType
  <2> QED BY <1>1, <1>5, <2>1, <2>2 DEF IndInv, TypeOK
<1>8. ScheduleInv'
  <2>1. ASSUME NEW s \in Source \ flushed, targets'[s] # <<>>
        PROVE  \E i \in 1..Len(schedule) : i <= item /\ schedule[i] = s
    <3>1. CASE s = current
      BY <1>2, <1>3, <3>1 DEF current
    <3>2. CASE s # current
      BY <1>5, <2>1, <3>2 DEF IndInv, ScheduleInv
    <3> QED BY <3>1, <3>2
  <2> QED BY <1>1, <2>1 DEF IndInv, ScheduleInv
<1>9. /\ \A i : CalcSizeInBlocks(schedule[i])' = CalcSizeInBlocks(schedule[i])
      /\ CalcSizeInBlocks(schedule[item])' = CalcSizeInBlocks(schedule[item'])
  BY <1>1, SizesStable
<1>10. WhereInv'
  BY <1>1, <1>9 DEF IndInv, WhereInv
<1>11. LoopInv'
  <2>1. item' <= Len(schedule') + 1 /\ Len(where_list') = Len(schedule') /\ pass' = "blockify"
    BY <1>1, <1>2, <1>4
  <2>2. blocks_done' = where_list'[item'] + index'
    <3>1. where_list[item] \in Nat
      <4>1. where_list \in Seq(Nat) /\ item \in 1..Len(where_list)
        BY <1>2, <1>3, <1>4
      <4> QED BY <4>1, ElementOfSeq, Zenon
    <3> DEFINE a == where_list[item]
    <3>2. a \in Nat /\ blocks_done = a + index /\ where_list'[item'] = a
      BY <1>1, <1>4, <3>1
    <3> HIDE DEF a
    <3> QED BY <1>1, <1>2, <3>2
  <2>3. index' <= CalcSizeInBlocks(schedule[item])'
    <3>1. CalcSizeInBlocks(schedule[item])' = CalcSizeInBlocks(current)
      BY <1>1, <1>9 DEF current
    <3> QED BY <1>1, <1>2, <1>3, <3>1
  <2>4. Len(targets'[schedule'[item']]) = index'
    BY <1>1, <1>6 DEF current
  <2>5. ASSUME NEW i \in 1..Len(schedule), i < item
        PROVE  Len(targets'[schedule[i]]) = CalcSizeInBlocks(schedule[i])
    <3>1. schedule[i] # current /\ schedule[i] \in Source
      <4>1. i # item
        BY <1>2, <2>5
      <4>2. ScheduleInv
        BY DEF IndInv
      <4>3. schedule[i] # schedule[item]
        BY <1>3, <4>1, <4>2 DEF ScheduleInv
      <4>4. schedule[i] \in Source
        BY <1>2
      <4> QED BY <4>3, <4>4 DEF current
    <3> QED BY <1>4, <1>5, <2>5, <3>1
  <2> QED BY <1>1, <1>9, <2>1, <2>2, <2>3, <2>4, <2>5 DEF LoopInv
<1>12. IdenticalInv'
  BY <1>1, IdenticalKept
<1>13. LocatorsResolve'
  <2> SUFFICES ASSUME NEW s \in Source, NEW i \in 1..Len(targets'[s])
               PROVE  /\ targets'[s][i] \in 1..Len(blocks')
                      /\ blocks'[targets'[s][i]].fblocknum \in 1..Len(fblocks')
                      /\ HoldsAt(fblocks', blocks'[targets'[s][i]], Block(s, i - 1)')
    BY DEF LocatorsResolve, HoldsAt
  <2>1. Block(s, i - 1)' = Block(s, i - 1)
    BY <1>1, InputStable
  <2>2. targets[s] \in Seq(Nat) /\ i \in Nat \ {0} /\ Len(targets[s]) \in Nat
    <3>1. targets'[s] \in Seq(Nat)
      BY <1>5
    <3> QED BY <1>2, <3>1
  <2>3. CASE s = current /\ i = index + 1
    <3>1. targets'[s][i] = num /\ i - 1 = index
      BY <1>2, <1>6, <2>3
    <3> QED BY <2>1, <2>3, <3>1
  <2>4. CASE ~(s = current /\ i = index + 1)
    <3>1. i \in 1..Len(targets[s]) /\ targets'[s][i] = targets[s][i]
      <4>1. CASE s = current
        <5>1. i \in 1..(index + 1) /\ i # index + 1
          BY <1>6, <2>4, <4>1
        <5>2. i \in 1..index
          BY <1>2, <5>1
        <5> QED BY <1>4, <1>6, <4>1, <5>2
      <4>2. CASE s # current
        BY <1>5, <4>2
      <4> QED BY <4>1, <4>2
    <3> DEFINE t == targets[s][i]
               loc == blocks[t]
               f == loc.fblocknum
               p == loc.startoffs
               d == Block(s, i - 1)
    <3>2. t \in 1..Len(blocks) /\ f \in 1..Len(fblocks) /\ Holds(fblocks[f], p, d)
      BY <3>1 DEF IndInv, LocatorsResolve, HoldsAt
    <3>3. loc \in [fblocknum : Nat, startoffs : Nat] /\ fblocks[f] \in Seq(Byte)
          /\ Len(blocks) \in Nat /\ Len(fblocks) \in Nat
      <4>1. fblocks \in Seq(Seq(Byte)) /\ blocks \in Seq([fblocknum : Nat, startoffs : Nat])
        BY DEF IndInv, TypeOK
      <4>2. Len(blocks) \in Nat /\ Len(fblocks) \in Nat
        BY <4>1
      <4>3. loc \in [fblocknum : Nat, startoffs : Nat]
        <5>1. t \in 1..Len(blocks)
          BY <3>2
        <5> HIDE DEF t
        <5> QED BY <4>1, <5>1, ElementOfSeq, Zenon
      <4>4. fblocks[f] \in Seq(Byte)
        <5> HIDE DEF f
        <5> QED BY <3>2, <4>1
      <4> QED BY <4>2, <4>3, <4>4
    <3>4. /\ Len(blocks) <= Len(blocks') /\ blocks'[t] = loc
          /\ Len(fblocks) <= Len(fblocks') /\ ExtendedBy(fblocks[f], fblocks'[f])
      <4>1. /\ ExtendedBy(blocks, blocks') /\ Len(fblocks) <= Len(fblocks')
            /\ ExtendedBy(fblocks[f], fblocks'[f])
        BY <3>2 DEF StoreGrows
      <4>2. Len(blocks) <= Len(blocks') /\ blocks'[t] = loc
        BY <3>2, <4>1 DEF ExtendedBy
      <4> QED BY <4>1, <4>2
    <3>5. /\ fblocks' \in Seq(Seq(Byte)) /\ Len(fblocks') \in Nat /\ Len(blocks') \in Nat
      BY DEF StoreType
    <3>6. f \in 1..Len(fblocks') /\ t \in 1..Len(blocks')
      <4>1. t \in 1..Len(blocks) /\ f \in 1..Len(fblocks)
        BY <3>2
      <4>2. Len(blocks) \in Nat /\ Len(fblocks) \in Nat
        BY <3>3
      <4>3. Len(blocks) <= Len(blocks') /\ Len(fblocks) <= Len(fblocks')
        BY <3>4
      <4> HIDE DEF t, f
      <4>4. t \in 1..Len(blocks')
        BY <3>5, <4>1, <4>2, <4>3
      <4> QED BY <3>5, <4>1, <4>2, <4>3, <4>4
    <3>7. fblocks'[f] \in Seq(Byte)
      BY <3>5, <3>6, SMTT(40)
    <3>8. Len(d) \in Nat
      BY <1>2, <2>2, BlockLen
    <3>9. Len(fblocks[f]) \in Nat /\ Len(fblocks'[f]) \in Nat /\ p \in Nat
      <4>1. p \in Nat
        <5> HIDE DEF loc
        <5> QED BY <3>3
      <4> HIDE DEF f
      <4> QED BY <3>3, <3>7, <4>1, SMTT(40)
    <3>10. Holds(fblocks'[f], p, d)
      <4> HIDE DEF f, p, d
      <4> QED BY <3>2, <3>4, <3>8, <3>9, HoldsStable
    <3>11. targets'[s][i] = t
      BY <3>1
    <3> HIDE DEF t
    <3> QED BY <2>1, <3>4, <3>6, <3>10, <3>11 DEF HoldsAt
  <2> QED BY <2>3, <2>4
<1>14. FlushComplete'
  <2> SUFFICES ASSUME NEW s \in flushed
               PROVE  Len(targets'[s]) = CalcSizeInBlocks(s)'
    BY <1>1 DEF FlushComplete
  <2>1. CalcSizeInBlocks(s)' = CalcSizeInBlocks(s)
    BY <1>1, InputStable
  <2>2. s # current /\ s \in Source
    BY <1>3 DEF IndInv, TypeOK, ScheduleInv, current
  <2> QED BY <1>5, <2>1, <2>2 DEF IndInv, FlushComplete
<1> QED BY <1>7, <1>8, <1>10, <1>11, <1>12, <1>13, <1>14 DEF IndInv

(* The block of the current source, when there is one.                      *)
LEMMA CurrentBlock ==
    ASSUME IndInv, InLoop("blockify"), HasBlock(current, index)
    PROVE  /\ current \in Source /\ index \in Nat /\ index < CalcSizeInBlocks(current)
           /\ Block(current, index) \in Seq(Byte)
           /\ \/ Len(Block(current, index)) <= FSIZE
              \/ OversizedBlock(Block(current, index))
           /\ StoreType /\ FblocksFit /\ space \in Seq(Nat)
<1>1. input \in Inputs /\ index \in Nat /\ StoreType /\ FblocksFit /\ space \in Seq(Nat)
  BY DEF IndInv, TypeOK, StoreType
<1>2. item <= Len(schedule)
  BY DEF InLoop
<1>3. current \in Source /\ index < CalcSizeInBlocks(current)
  BY <1>2, CurrentType
<1>4. /\ Block(current, index) \in Seq(Byte)
      /\ Len(Block(current, index)) = Eat(current, index)
      /\ Eat(current, index) \in 1..BlockSize(current)
  BY <1>1, <1>3, BlockType
<1>5. /\ BlockSize(current) \in Nat /\ FSIZE \in Nat
      /\ CalcSizeInBlocks(current) \in Nat
  BY <1>1, <1>3, SourceType, BlockCount, OverlapParameters
<1>6. Len(Block(current, index)) <= FSIZE \/ OversizedBlock(Block(current, index))
  <2>1. CASE BlockSize(current) <= FSIZE
    BY <1>4, <1>5, <2>1
  <2>2. CASE BlockSize(current) > FSIZE
    <3>1. index \in 0..(CalcSizeInBlocks(current) - 1)
      BY <1>1, <1>3, <1>5
    <3> QED BY <1>3, <2>2, <3>1 DEF OversizedBlock
  <2> QED BY <1>5, <2>1, <2>2
<1> QED BY <1>1, <1>3, <1>4, <1>6

LEMMA WriteBlockStep ==
    ASSUME IndInv, WriteBlock
    PROVE  IndInv' /\ StoreGrows
<1> DEFINE d == Block(current, index)
<1>1. /\ InLoop("blockify") /\ HasBlock(current, index)
      /\ PutBlockNumber(Len(blocks) + 1)
  BY DEF WriteBlock, MustPlace
<1>2. PICK plan \in WritePlans(fblocks, space, d) : WriteAppended(plan, d)
  BY DEF WriteBlock
<1>3. /\ d \in Seq(Byte) /\ (Len(d) <= FSIZE \/ OversizedBlock(d)) /\ UNCHANGED input
      /\ StoreType /\ FblocksFit /\ space \in Seq(Nat)
  BY <1>1, CurrentBlock DEF PutBlockNumber
<1>4. plan.fblocknum \in Nat \ {0}
  <2>1. plan.fblocknum \in 1..(Len(fblocks) + 1)
    BY <1>2, <1>3, WritePlanFits DEF StoreType
  <2>2. Len(fblocks) \in Nat
    BY <1>3 DEF StoreType
  <2> QED BY <2>1, <2>2
<1>5. space' \in Seq(Nat)
  <2> DEFINE n == Len(PutAppendedRaw(OldFblock(plan.fblocknum), plan.offset, d))
             f == plan.fblocknum
  <2>1. space' = SetAt(space, f, RoomLeft(n))
    BY <1>2 DEF WriteAppended
  <2>2. n \in Nat
    <3>1. PutAppendedRaw(OldFblock(plan.fblocknum), plan.offset, d) \in Seq(Byte)
      <4> HIDE DEF d
      <4>1. /\ OldFblock(plan.fblocknum) \in Seq(Byte)
            /\ plan.offset \in 0..Len(OldFblock(plan.fblocknum))
            /\ Meets(OldFblock(plan.fblocknum), plan.offset, d)
        BY <1>2, <1>3, WritePlanFits DEF StoreType
      <4> QED BY <1>3, <4>1, AppendedBlockIsHeld
    <3> QED BY <3>1
  <2> HIDE DEF n
  <2>3. RoomLeft(n) \in Nat
    BY <2>2, OverlapParameters DEF RoomLeft
  <2> DEFINE r == RoomLeft(n)
  <2>4. r \in Nat /\ f \in Nat \ {0} /\ space' = SetAt(space, f, r)
    BY <1>4, <2>1, <2>3
  <2> HIDE DEF r, f
  <2>5. CASE f > Len(space)
    BY <1>3, <2>4, <2>5 DEF SetAt
  <2>6. CASE ~(f > Len(space))
    BY <1>3, <2>4, <2>6 DEF SetAt
  <2> QED BY <2>5, <2>6
<1>6. /\ StoreType' /\ FblocksFit' /\ StoreGrows
      /\ Len(blocks') = Len(blocks) + 1
      /\ blocks'[Len(blocks) + 1].fblocknum \in 1..Len(fblocks')
      /\ HoldsAt(fblocks', blocks'[Len(blocks) + 1], d)
  <2> HIDE DEF d
  <2> QED BY <1>2, <1>3, WriteKeepsStore
<1> DEFINE num == Len(blocks) + 1
<1>7. num \in Nat /\ num \in 1..Len(blocks')
  <2>1. Len(blocks) \in Nat
    BY <1>3 DEF StoreType
  <2> QED BY <1>6, <2>1
<1>8. IndInv'
  <2>1. /\ PutBlockNumber(num) /\ HoldsAt(fblocks', blocks'[num], Block(current, index))
        /\ blocks'[num].fblocknum \in 1..Len(fblocks')
    BY <1>1, <1>6
  <2> HIDE DEF num
  <2> QED BY <1>1, <1>5, <1>6, <1>7, <2>1, PutBlockNumberStep
<1> QED BY <1>6, <1>8

LEMMA ReuseIndexedStep ==
    ASSUME IndInv, ReuseIndexed
    PROVE  IndInv' /\ StoreGrows
<1> DEFINE d == Block(current, index)
           num == Len(blocks) + 1
<1>1. /\ InLoop("blockify") /\ HasBlock(current, index)
      /\ PutBlockNumber(num) /\ fblocks' = fblocks /\ space' = space
  BY DEF ReuseIndexed, MustPlace
<1>2. PICK loc \in ReusingPlans(d) : blocks' = Append(blocks, loc)
  BY DEF ReuseIndexed
<1>3. StoreType /\ FblocksFit /\ space \in Seq(Nat)
  BY <1>1, CurrentBlock
<1>4. fblocks \in Seq(Seq(Byte)) /\ blocks \in Seq([fblocknum : Nat, startoffs : Nat])
      /\ Len(blocks) \in Nat
  BY <1>3 DEF StoreType
<1>5. loc \in [fblocknum : 1..Len(fblocks), startoffs : Nat] /\ HoldsAt(fblocks, loc, d)
  BY <1>2 DEF ReusingPlans, Indexed, Locators
<1>6. loc \in [fblocknum : Nat, startoffs : Nat] /\ loc.fblocknum \in 1..Len(fblocks)
  <2>1. 1..Len(fblocks) \subseteq Nat
    BY <1>4
  <2> QED BY <1>5, <2>1
<1>7. /\ blocks' \in Seq([fblocknum : Nat, startoffs : Nat]) /\ Len(blocks') = num
      /\ blocks'[num] = loc /\ \A i \in 1..Len(blocks) : blocks'[i] = blocks[i]
  BY <1>2, <1>4, <1>6
<1>8. StoreType' /\ FblocksFit' /\ StoreGrows
  <2>1. \A f \in 1..Len(fblocks) : ExtendedBy(fblocks[f], fblocks'[f])
    BY <1>1, <1>4 DEF ExtendedBy
  <2>2. ExtendedBy(blocks, blocks') /\ Len(fblocks) <= Len(fblocks')
    BY <1>1, <1>4, <1>7, SMTT(40) DEF ExtendedBy
  <2>3. FblocksFit'
    <3> SUFFICES ASSUME NEW f \in 1..Len(fblocks)
                 PROVE  Len(fblocks[f]) <= FSIZE \/ OversizedBlock(fblocks[f])'
      BY <1>1 DEF FblocksFit
    <3>1. input' = input /\ fblocks'[f] = fblocks[f]
      BY <1>1 DEF PutBlockNumber
    <3>2. OversizedBlock(fblocks[f])' <=> OversizedBlock(fblocks[f])
      BY <3>1, OversizedStable
    <3> QED BY <1>3, <3>2 DEF FblocksFit
  <2> QED BY <1>1, <1>3, <1>4, <1>7, <2>1, <2>2, <2>3 DEF StoreType, StoreGrows
<1>9. num \in Nat /\ num \in 1..Len(blocks')
  BY <1>4, <1>7
<1>10. IndInv'
  <2>1. HoldsAt(fblocks', blocks'[num], Block(current, index))
        /\ blocks'[num].fblocknum \in 1..Len(fblocks') /\ space' \in Seq(Nat)
    BY <1>1, <1>3, <1>5, <1>6, <1>7
  <2> HIDE DEF num
  <2> QED BY <1>1, <1>8, <1>9, <2>1, PutBlockNumberStep
<1> QED BY <1>8, <1>10

(* A recorded reuse names a block that has its number already, and what is  *)
(* found under that number begins with the current block.                   *)
LEMMA ReuseIsSafe ==
    ASSUME IndInv, InLoop("blockify"), HasBlock(current, index),
           NEW e \in identical_list, e[1] = blocks_done
    PROVE  LET o == WhereFind(e[2])
               num == targets[o.source][o.index + 1]
           IN  /\ num \in 1..Len(blocks) /\ blocks[num].fblocknum \in 1..Len(fblocks)
               /\ HoldsAt(fblocks, blocks[num], Block(current, index))
<1> DEFINE other == e[2]
<1>1. /\ input \in Inputs /\ schedule \in Seq(Source) /\ item \in Nat \ {0} /\ index \in Nat
      /\ blocks_done \in Nat /\ where_list \in Seq(Nat) /\ Len(schedule) \in Nat
      /\ e \in Nat \X Nat /\ targets \in [Source -> Seq(Nat)]
  BY DEF IndInv, TypeOK
<1>2. /\ pass = "blockify" /\ item <= Len(schedule)
  BY DEF InLoop
<1>3. /\ item \in 1..Len(schedule) /\ current \in Source
      /\ CalcSizeInBlocks(current) \in Nat /\ index < CalcSizeInBlocks(current)
  BY <1>2, CurrentType
<1>4. /\ Len(where_list) = Len(schedule) /\ blocks_done = where_list[item] + index
      /\ Len(targets[current]) = index
      /\ \A i \in 1..Len(schedule) : i < item =>
            Len(targets[schedule[i]]) = CalcSizeInBlocks(schedule[i])
  BY <1>2 DEF IndInv, LoopInv, current
<1>5. other \in Nat /\ other < blocks_done
  BY <1>1 DEF IndInv, IdenticalInv
<1>6. SameData(current, index, other)
  <2>1. item \in 1..Len(where_list) /\ where_list[item] \in Nat
    BY <1>1, <1>3, <1>4, SMTT(40)
  <2>2. e[1] - where_list[item] = index
    <3> DEFINE a == where_list[item]
    <3>1. a \in Nat /\ index \in Nat /\ blocks_done = a + index /\ e[1] = blocks_done
      BY <1>1, <1>4, <2>1
    <3> HIDE DEF a
    <3>2. blocks_done - a = index
      BY <3>1
    <3> QED BY <3>1, <3>2 DEF a
  <2>3. e[1] - where_list[item] \in 0..(CalcSizeInBlocks(schedule[item]) - 1)
    <3>1. index \in 0..(CalcSizeInBlocks(current) - 1)
      BY <1>1, <1>3
    <3> QED BY <2>2, <3>1, Zenon DEF current
  <2>4. SameData(schedule[item], e[1] - where_list[item], e[2])
    BY <2>1, <2>3 DEF IndInv, IdenticalInv
  <2> QED BY <2>2, <2>4 DEF current
<1> HIDE DEF other
<1>7. PICK j \in 1..Len(where_list) :
         /\ where_list[j] <= other
         /\ WhereFind(other) = [source |-> schedule[j], index |-> other - where_list[j]]
  <2>1. where_list # <<>>
    BY <1>1, <1>2, <1>4
  <2>2. where_list[1] = 0
    BY <2>1 DEF IndInv, WhereInv
  <2> QED BY <1>1, <1>5, <2>1, <2>2, WhereFindItem
<1> DEFINE s == schedule[j]
           k == other - where_list[j]
           n == Eat(current, index)
<1>8. /\ s \in Source /\ k \in Nat /\ where_list[j] \in Nat /\ j \in 1..Len(schedule)
      /\ WhereFind(other).source = s /\ WhereFind(other).index = k
  <2>1. where_list[j] \in Nat /\ j \in 1..Len(schedule)
    BY <1>1, <1>4, SMTT(40)
  <2>2. s \in Source
    BY <1>1, <2>1, ElementOfSeq, Zenon
  <2>3. k \in Nat
    <3> DEFINE w == where_list[j]
    <3>1. w \in Nat /\ other \in Nat /\ w <= other /\ k = other - w
      BY <1>5, <1>7, <2>1
    <3> HIDE DEF w, k
    <3> QED BY <3>1
  <2> QED BY <1>7, <2>1, <2>2, <2>3
<1>9. /\ BlockSize(current) <= BlockSize(s)
      /\ Offset(s, k) + n <= Len(Data(s))
      /\ ReadSource(s, Offset(s, k), n) = Block(current, index)
  BY <1>6, <1>8 DEF SameData
<1>10. /\ Block(current, index) \in Seq(Byte) /\ Len(Block(current, index)) = n
       /\ n \in 1..BlockSize(current)
       /\ BlockSize(current) \in Nat \ {0} /\ BlockSize(s) \in Nat \ {0}
       /\ Len(Data(s)) \in Nat /\ Data(s) \in Seq(Byte)
       /\ CalcSizeInBlocks(s) \in Nat /\ (HasBlock(s, k) <=> k < CalcSizeInBlocks(s))
  <2>1. /\ Block(current, index) \in Seq(Byte) /\ Len(Block(current, index)) = n
        /\ n \in 1..BlockSize(current)
    BY <1>1, <1>3, BlockType
  <2> HIDE DEF s, k, n
  <2> QED BY <1>1, <1>3, <1>8, <2>1, SourceType, BlockCount
<1> HIDE DEF s, k, n
<1>11. Offset(s, k) \in Nat /\ n \in Nat \ {0}
  BY <1>8, <1>10 DEF Offset
<1>12. HasBlock(s, k)
  BY <1>9, <1>10, <1>11 DEF HasBlock
<1>13. /\ Len(Block(s, k)) = Eat(s, k) /\ Eat(s, k) \in Nat
       /\ \A i \in 1..Eat(s, k) : Block(s, k)[i] = Data(s)[Offset(s, k) + i]
  <2>1. /\ Len(Block(s, k)) = Eat(s, k) /\ Eat(s, k) \in 1..BlockSize(s)
        /\ \A i \in 1..Eat(s, k) : Block(s, k)[i] = Data(s)[Offset(s, k) + i]
    BY <1>1, <1>8, <1>12, BlockType
  <2> QED BY <1>10, <2>1
<1>14. n <= Eat(s, k)
  <2>1. Eat(s, k) = BlockSize(s) \/ Eat(s, k) = Len(Data(s)) - Offset(s, k)
    BY DEF Eat, Smaller
  <2> QED BY <1>9, <1>10, <1>11, <2>1
<1>15. \A i \in 1..n : Block(current, index)[i] = Block(s, k)[i]
  <2> SUFFICES ASSUME NEW i \in 1..n PROVE Block(current, index)[i] = Block(s, k)[i]
    OBVIOUS
  <2> DEFINE q == Offset(s, k)
             D == Data(s)
  <2>1. q \in Nat /\ D \in Seq(Byte) /\ q + n <= Len(D) /\ n \in Nat
    BY <1>9, <1>10, <1>11
  <2>2. Block(current, index) = SubSeq(D, q + 1, q + n)
    BY <1>9 DEF ReadSource
  <2> HIDE DEF q, D
  <2>3. Block(current, index)[i] = D[q + i]
    BY <2>1, <2>2, ReadBytes
  <2>4. Block(s, k)[i] = D[q + i]
    <3>1. i \in 1..Eat(s, k)
      BY <1>11, <1>13, <1>14
    <3> QED BY <1>13, <3>1 DEF q, D
  <2> QED BY <2>3, <2>4
<1>16. k + 1 \in 1..Len(targets[s])
  <2>1. j <= item
    <3>1. SUFFICES ASSUME item < j PROVE FALSE
      BY <1>1, <1>8
    <3>2. where_list[item] + CalcSizeInBlocks(current) <= where_list[j]
      BY <1>3, <1>4, <1>7, <3>1 DEF IndInv, WhereInv, current
    <3>3. where_list[item] \in Nat
      <4>1. where_list \in Seq(Nat) /\ item \in 1..Len(where_list)
        BY <1>1, <1>3, <1>4
      <4> QED BY <4>1
    <3> DEFINE a == where_list[item]
               b == where_list[j]
               m == CalcSizeInBlocks(current)
    <3>4. /\ a \in Nat /\ b \in Nat /\ m \in Nat /\ index < m /\ a + m <= b
          /\ blocks_done = a + index /\ b <= other
      BY <1>3, <1>4, <1>7, <1>8, <3>2, <3>3
    <3> HIDE DEF a, b, m
    <3> QED BY <1>1, <1>5, <3>4
  <2>2. k < CalcSizeInBlocks(s)
    BY <1>10, <1>12
  <2>3. CASE j = item
    <3>1. s = current /\ k = other - where_list[item] /\ where_list[item] \in Nat
      BY <1>8, <2>3 DEF s, k, current
    <3>2. k < index
      <4> DEFINE a == where_list[item]
      <4>1. /\ a \in Nat /\ index \in Nat /\ other \in Nat /\ k = other - a
            /\ other < blocks_done /\ blocks_done = a + index
        BY <1>1, <1>4, <1>5, <3>1
      <4> HIDE DEF a
      <4> QED BY <4>1
    <3>3. Len(targets[s]) = index
      BY <1>4, <3>1
    <3> QED BY <1>1, <1>8, <3>2, <3>3
  <2>4. CASE j # item
    <3>1. j < item
      BY <1>1, <1>8, <2>1, <2>4
    <3>2. Len(targets[s]) = CalcSizeInBlocks(s)
      BY <1>4, <1>8, <3>1 DEF s
    <3> QED BY <1>8, <1>10, <2>2, <3>2
  <2> QED BY <2>3, <2>4
<1> DEFINE num == targets[s][k + 1]
<1>17. /\ num \in 1..Len(blocks) /\ blocks[num].fblocknum \in 1..Len(fblocks)
       /\ HoldsAt(fblocks, blocks[num], Block(s, k))
  <2>1. (k + 1) - 1 = k
    BY <1>8
  <2>2. /\ num \in 1..Len(blocks) /\ blocks[num].fblocknum \in 1..Len(fblocks)
        /\ HoldsAt(fblocks, blocks[num], Block(s, (k + 1) - 1))
    BY <1>8, <1>16 DEF IndInv, LocatorsResolve
  <2> QED BY <2>1, <2>2
<1>18. HoldsAt(fblocks, blocks[num], Block(current, index))
  <2> DEFINE h == fblocks[blocks[num].fblocknum]
             p == blocks[num].startoffs
  <2>1. Holds(h, p, Block(s, k))
    BY <1>17 DEF HoldsAt
  <2>2. p \in Nat /\ Len(h) \in Nat
    <3>1. /\ fblocks \in Seq(Seq(Byte)) /\ blocks \in Seq([fblocknum : Nat, startoffs : Nat])
      BY DEF IndInv, TypeOK
    <3>2. blocks[num] \in [fblocknum : Nat, startoffs : Nat]
      BY <1>17, <3>1, ElementOfSeq, Zenon
    <3>3. h \in Seq(Byte)
      BY <1>17, <3>1, ElementOfSeq, Zenon
    <3>4. p \in Nat
      <4> HIDE DEF num
      <4> QED BY <3>2
    <3> HIDE DEF h, p
    <3> QED BY <3>3, <3>4
  <2> HIDE DEF h, p, num
  <2>3. Holds(h, p, Block(current, index))
    <3> DEFINE B == Block(s, k)
               C == Block(current, index)
               m == Eat(s, k)
    <3>1. /\ Len(B) = m /\ Len(C) = n /\ n \in Nat /\ m \in Nat /\ n <= m
          /\ \A i \in 1..n : C[i] = B[i]
      BY <1>10, <1>11, <1>13, <1>14, <1>15
    <3>2. p + m <= Len(h) /\ \A i \in 1..m : h[p + i] = B[i]
      BY <2>1, <3>1 DEF Holds
    <3> HIDE DEF B, C, m
    <3>3. p + n <= Len(h) /\ \A i \in 1..n : h[p + i] = C[i]
      BY <2>2, <3>1, <3>2
    <3> QED BY <3>1, <3>3 DEF Holds, C
  <2> QED BY <2>3 DEF HoldsAt, h, p
<1>19. /\ WhereFind(e[2]).source = s /\ WhereFind(e[2]).index = k
  BY <1>8 DEF other
<1> HIDE DEF num
<1> QED BY <1>17, <1>18, <1>19 DEF num

LEMMA ReuseIdenticalStep ==
    ASSUME IndInv, ReuseIdentical
    PROVE  IndInv' /\ StoreGrows
<1>1. InLoop("blockify") /\ HasBlock(current, index) /\ UNCHANGED storeVars
  BY DEF ReuseIdentical
<1>2. PICK e \in identical_list :
         /\ e[1] = blocks_done
         /\ PutBlockNumber(targets[WhereFind(e[2]).source][WhereFind(e[2]).index + 1])
  BY DEF ReuseIdentical
<1> DEFINE num == targets[WhereFind(e[2]).source][WhereFind(e[2]).index + 1]
<1>3. /\ num \in 1..Len(blocks) /\ blocks[num].fblocknum \in 1..Len(fblocks)
      /\ HoldsAt(fblocks, blocks[num], Block(current, index))
  BY <1>1, <1>2, ReuseIsSafe
<1>4. StoreType /\ FblocksFit /\ space \in Seq(Nat)
  BY <1>1, CurrentBlock
<1>5. /\ UNCHANGED <<blocks, fblocks, space>> /\ PutBlockNumber(num)
  BY <1>1, <1>2 DEF storeVars
<1> HIDE DEF num
<1>6. fblocks \in Seq(Seq(Byte)) /\ blocks \in Seq([fblocknum : Nat, startoffs : Nat])
      /\ Len(blocks) \in Nat
  BY <1>4 DEF StoreType
<1>7. StoreType' /\ FblocksFit' /\ StoreGrows
  <2>1. \A f \in 1..Len(fblocks) : ExtendedBy(fblocks[f], fblocks'[f])
    BY <1>5, <1>6 DEF ExtendedBy
  <2>2. ExtendedBy(blocks, blocks') /\ Len(fblocks) <= Len(fblocks')
    BY <1>5, <1>6 DEF ExtendedBy
  <2>3. FblocksFit'
    <3> SUFFICES ASSUME NEW f \in 1..Len(fblocks)
                 PROVE  Len(fblocks[f]) <= FSIZE \/ OversizedBlock(fblocks[f])'
      BY <1>5 DEF FblocksFit
    <3>1. input' = input /\ fblocks'[f] = fblocks[f]
      BY <1>5 DEF PutBlockNumber
    <3>2. OversizedBlock(fblocks[f])' <=> OversizedBlock(fblocks[f])
      BY <3>1, OversizedStable
    <3> QED BY <1>4, <3>2 DEF FblocksFit
  <2> QED BY <1>4, <1>5, <2>1, <2>2, <2>3 DEF StoreType, StoreGrows
<1>8. num \in Nat
  BY <1>3, <1>6
<1>9. IndInv'
  <2>1. /\ num \in 1..Len(blocks') /\ blocks'[num].fblocknum \in 1..Len(fblocks')
        /\ HoldsAt(fblocks', blocks'[num], Block(current, index)) /\ space' \in Seq(Nat)
    BY <1>3, <1>4, <1>5
  <2> QED BY <1>1, <1>5, <1>7, <1>8, <2>1, PutBlockNumberStep
<1> QED BY <1>7, <1>9

-----------------------------------------------------------------------------
(* The theorems.                                                            *)

(* Every step of the blockifier keeps IndInv and only appends.              *)
LEMMA NextIndInv ==
    ASSUME IndInv, [Next]_vars
    PROVE  IndInv' /\ StoreGrows
<1>1. CASE \E s \in Source : ScheduleBlockify(s)
  BY <1>1, ScheduleBlockifyStep
<1>2. CASE BeginFlush
  BY <1>2, BeginFlushStep
<1>3. CASE MapItem
  BY <1>3, MapItemStep
<1>4. CASE FindIdentical
  BY <1>4, FindIdenticalStep
<1>5. CASE NextItem
  BY <1>5, NextItemStep
<1>6. CASE EndIdentical
  BY <1>6, EndIdenticalStep
<1>7. CASE ReuseIdentical
  BY <1>7, ReuseIdenticalStep
<1>8. CASE ReuseIndexed
  BY <1>8, ReuseIndexedStep
<1>9. CASE WriteBlock
  BY <1>9, WriteBlockStep
<1>10. CASE EndFlush
  BY <1>10, EndFlushStep
<1>11. CASE UNCHANGED vars
  <2>1. /\ UNCHANGED <<input, method, pass, schedule, flushed, loaded, item, index,
                       blocks_done, where_list, hash_duplicate, full_hash_list,
                       blockhashlist, identical_list, targets, blocks, fblocks, space>>
    BY <1>11 DEF vars, loopVars, hashVars, storeVars
  <2>2. LocatorsResolve' /\ FblocksFit' /\ StoreGrows
    BY <2>1, ImageKept
  <2>3. TypeOK'
    BY <2>1 DEF IndInv, TypeOK
  <2>4. ScheduleInv'
    BY <2>1 DEF IndInv, ScheduleInv
  <2>5. WhereInv' /\ LoopInv'
    BY <2>1 DEF IndInv, WhereInv, LoopInv, CalcSizeInBlocks, Data, BlockSize
  <2>6. IdenticalInv'
    BY <2>1, IdenticalKept
  <2>7. FlushComplete'
    BY <2>1, FlushedKept
  <2> QED BY <2>2, <2>3, <2>4, <2>5, <2>6, <2>7 DEF IndInv
<1> QED BY <1>1, <1>2, <1>3, <1>4, <1>5, <1>6, <1>7, <1>8, <1>9, <1>10, <1>11 DEF Next

(* The inductive invariant holds throughout.                                *)
THEOREM Invariance == Spec => []IndInv
<1>1. IndInv /\ [Next]_vars => IndInv'
  BY NextIndInv
<1> QED BY <1>1, InitIndInv, PTL DEF Spec

(* Type correctness.                                                        *)
THEOREM TypeCorrect == Spec => []TypeOK
<1>1. IndInv => TypeOK
  BY DEF IndInv
<1> QED BY <1>1, Invariance, PTL

(* The image is right: whatever the sources contain and however they share  *)
(* data, every block number the blockifier wrote into a target leads to a   *)
(* place in a fblock that holds the bytes of that block, and keeps doing so.*)
THEOREM ImageCorrect == Spec => []LocatorsResolve
<1>1. IndInv => LocatorsResolve
  BY DEF IndInv
<1> QED BY <1>1, Invariance, PTL

(* A finished flush has filled the block list of each of its sources.       *)
THEOREM FlushesComplete == Spec => []FlushComplete
<1>1. IndInv => FlushComplete
  BY DEF IndInv
<1> QED BY <1>1, Invariance, PTL

(* A fblock larger than FSIZE is one block, larger itself: no append makes  *)
(* a fblock outgrow FSIZE, for block sizes of any relation to FSIZE.        *)
THEOREM FblocksBounded == Spec => []FblocksFit
<1>1. IndInv => FblocksFit
  BY DEF IndInv
<1> QED BY <1>1, Invariance, PTL

(* With block sizes that fit in a fblock, which main checks of --bsize but   *)
(* not of --bsize_for, no fblock is larger than --fsize.                    *)
THEOREM FsizeKept ==
    ASSUME \A i \in Inputs : \A s \in Source : i[s].blocksize <= FSIZE
    PROVE  Spec => []FsizeMandated
<1>1. IndInv => FsizeMandated
  <2> SUFFICES ASSUME IndInv, NEW f \in 1..Len(fblocks) PROVE Len(fblocks[f]) <= FSIZE
    BY DEF FsizeMandated
  <2>1. Len(fblocks[f]) <= FSIZE \/ OversizedBlock(fblocks[f])
    BY DEF IndInv, FblocksFit
  <2>2. ASSUME NEW s \in Source PROVE ~(BlockSize(s) > FSIZE)
    <3>1. input \in Inputs
      BY DEF IndInv, TypeOK
    <3>2. BlockSize(s) <= FSIZE /\ BlockSize(s) \in Nat
      BY <3>1, SourceType DEF BlockSize
    <3> QED BY <3>2, OverlapParameters
  <2> QED BY <2>1, <2>2 DEF OversizedBlock
<1> QED BY <1>1, Invariance, PTL

(* Locators and the bytes of fblocks are never changed, only added to.      *)
THEOREM StoreOnlyGrows == Spec => OnlyAppends
<1>1. IndInv /\ [Next]_vars => [StoreGrows]_vars
  BY NextIndInv
<1> QED BY <1>1, Invariance, PTL DEF Spec, OnlyAppends

-----------------------------------------------------------------------------
(* The autoindex.                                                           *)

(* An entry of the autoindex is the hash of bytes of a fblock, and where    *)
(* they are.                                                                *)
EntryTrue(fbs, e) ==
    \E f \in 1..Len(fbs) : \E o \in 0..Len(fbs[f]) : \E n \in 1..(Len(fbs[f]) - o) :
        e = <<Hash(BytesAt(fbs, f, o, n)), [fblocknum |-> f, startoffs |-> o]>>

AllTrue(fbs, ai) == \A e \in ai : EntryTrue(fbs, e)

(* g is defined by recursion over 0..n: it begins with a, and s makes each  *)
(* value from the one before.                                               *)
IsRun(g, n, a, s) == \A i \in 0..n : g[i] = IF i = 0 THEN a ELSE s[i][g[i - 1]]

(* There is such a function when the steps stay in a set.                   *)
LEMMA RunExists ==
    ASSUME NEW S, NEW a \in S, NEW n \in Nat, NEW s \in [1..n -> [S -> S]]
    PROVE  \E g \in [0..n -> S] : IsRun(g, n, a, s)
<1> DEFINE Run(g, m) ==
              /\ g \in [0..m -> S]
              /\ \A i \in 0..m : g[i] = IF i = 0 THEN a ELSE s[i][g[i - 1]]
           Bad == {m \in 0..n : ~ \E g : Run(g, m)}
           k == FirstOf(Bad, 0)
<1>1. ASSUME Bad # {} PROVE FALSE
  <2>1. k \in Bad /\ \A m \in Bad : k <= m
    <3>1. Bad \subseteq Nat
      OBVIOUS
    <3> HIDE DEF Bad
    <3> QED BY <1>1, <3>1, FirstOfInSet, Zenon
  <2>1a. k \in 0..n /\ ~ \E g : Run(g, k)
    BY <2>1
  <2> HIDE DEF k
  <2>2. CASE k = 0
    <3> DEFINE g == [i \in 0..0 |-> a]
    <3>1. Run(g, 0)
      OBVIOUS
    <3> HIDE DEF Run, g
    <3> QED BY <2>1a, <2>2, <3>1
  <2>3. CASE k # 0
    <3>1. k - 1 \in 0..n /\ k - 1 \notin Bad
      <4>1. k - 1 \in 0..n /\ ~(k <= k - 1)
        BY <2>1a, <2>3
      <4> HIDE DEF Bad
      <4> QED BY <2>1, <4>1
    <3>2. PICK g : Run(g, k - 1)
      BY <3>1
    <3> DEFINE v == s[k][g[k - 1]]
               h == [i \in 0..k |-> IF i = k THEN v ELSE g[i]]
    <3>3. v \in S
      <4>1. k \in 1..n /\ k - 1 \in 0..(k - 1)
        BY <2>1a, <2>3
      <4>2. g[k - 1] \in S
        BY <3>2, <4>1
      <4> QED BY <4>1, <4>2
    <3>4. ASSUME NEW i \in 0..k
          PROVE  /\ h[i] \in S
                 /\ h[i] = IF i = 0 THEN a ELSE s[i][h[i - 1]]
      <4>1. CASE i = k
        <5>1. k - 1 \in 0..k /\ k - 1 # k
          BY <2>1a, <2>3
        <5>2. h[k - 1] = g[k - 1] /\ h[k] = v
          BY <5>1, <2>1a
        <5> HIDE DEF h
        <5> QED BY <2>3, <3>3, <4>1, <5>2
      <4>2. CASE i # k
        <5>1. i \in 0..(k - 1)
          BY <2>1a, <4>2
        <5>2. h[i] = g[i] /\ (i # 0 => h[i - 1] = g[i - 1])
          BY <2>1a, <4>2, <5>1
        <5>3. g[i] \in S /\ g[i] = IF i = 0 THEN a ELSE s[i][g[i - 1]]
          BY <3>2, <5>1
        <5> HIDE DEF h
        <5> QED BY <5>2, <5>3
      <4> QED BY <4>1, <4>2
    <3>5. h \in [0..k -> S]
      <4>1. \A i \in 0..k : (IF i = k THEN v ELSE g[i]) \in S
        BY <3>4
      <4> HIDE DEF v
      <4> QED BY <4>1
    <3>6. Run(h, k)
      <4> HIDE DEF h
      <4> QED BY <3>4, <3>5
    <3> HIDE DEF Run, h
    <3> QED BY <2>1a, <3>6
  <2> QED BY <2>2, <2>3
<1>2. n \in 0..n /\ n \notin Bad
  BY <1>1
<1> QED BY <1>2 DEF IsRun

(* The places PredictiveAutoIndex looks at.                                 *)
LEMMA LookAtEquation ==
    ASSUME NEW fbs \in Seq(Seq(Byte)), NEW f \in 1..Len(fbs), NEW offs \in Nat, NEW bsize \in Nat
    PROVE  \A k \in 0..(Len(fbs) - f) :
              LookAt(fbs, f, offs, bsize)[k] =
                IF k = 0 THEN offs
                ELSE LookAt(fbs, f, offs, bsize)[k - 1] + bsize - Len(fbs[f + k - 1])
<1> DEFINE n == Len(fbs) - f
           pos == LookAt(fbs, f, offs, bsize)
           s == [k \in 1..n |-> [x \in Int |-> x + bsize - Len(fbs[f + k - 1])]]
<1>1. n \in Nat /\ Len(fbs) \in Nat
  OBVIOUS
<1>2. s \in [1..n -> [Int -> Int]]
  <2>1. ASSUME NEW k \in 1..n, NEW x \in Int PROVE x + bsize - Len(fbs[f + k - 1]) \in Int
    <3>1. f + k - 1 \in 1..Len(fbs)
      BY <1>1
    <3>2. fbs[f + k - 1] \in Seq(Byte)
      BY <3>1, ElementOfSeq
    <3>3. Len(fbs[f + k - 1]) \in Int
      BY <3>2
    <3> QED BY <3>3
  <2> HIDE DEF n
  <2> QED BY <2>1
<1>3. PICK g \in [0..n -> Int] :
         \A i \in 0..n : g[i] = IF i = 0 THEN offs ELSE s[i][g[i - 1]]
  <2> HIDE DEF n, s
  <2>0. PICK S : S = Int
    OBVIOUS
  <2>1. offs \in S /\ s \in [1..n -> [S -> S]]
    BY <1>2, <2>0
  <2>2. \E g \in [0..n -> S] : IsRun(g, n, offs, s)
    BY <1>1, <2>1, RunExists
  <2> QED BY <2>0, <2>2 DEF IsRun
<1>4. g = [k \in 0..n |-> IF k = 0 THEN offs ELSE g[k - 1] + bsize - Len(fbs[f + k - 1])]
  <2>1. ASSUME NEW k \in 0..n
        PROVE  g[k] = IF k = 0 THEN offs ELSE g[k - 1] + bsize - Len(fbs[f + k - 1])
    <3>1. CASE k = 0
      BY <1>3, <3>1
    <3>2. CASE k # 0
      <4>1. k \in 1..n /\ k - 1 \in 0..n
        BY <1>1, <3>2
      <4>2. g[k - 1] \in Int
        BY <4>1
      <4>3. s[k][g[k - 1]] = g[k - 1] + bsize - Len(fbs[f + k - 1])
        BY <4>1, <4>2
      <4> QED BY <1>3, <3>2, <4>3
    <3> QED BY <3>1, <3>2
  <2> HIDE DEF n
  <2> QED BY <2>1
<1>5. pos = CHOOSE p : p = [k \in 0..n |-> IF k = 0 THEN offs
                                           ELSE p[k - 1] + bsize - Len(fbs[f + k - 1])]
  BY DEF LookAt
<1>6. pos = [k \in 0..n |-> IF k = 0 THEN offs ELSE pos[k - 1] + bsize - Len(fbs[f + k - 1])]
  <2> HIDE DEF n, pos
  <2> QED BY <1>4, <1>5
<1> HIDE DEF pos
<1> QED BY <1>6 DEF pos

(* One more true entry.                                                     *)
LEMMA EntryAdded ==
    ASSUME NEW fbs \in Seq(Seq(Byte)), NEW f \in 1..Len(fbs), NEW o \in Nat,
           NEW n \in Nat \ {0}, o + n <= Len(fbs[f])
    PROVE  EntryTrue(fbs, <<Hash(BytesAt(fbs, f, o, n)), [fblocknum |-> f, startoffs |-> o]>>)
<1>1. fbs[f] \in Seq(Byte)
  BY ElementOfSeq
<1>2. Len(fbs[f]) \in Nat
  BY <1>1
<1>3. o \in 0..Len(fbs[f]) /\ n \in 1..(Len(fbs[f]) - o)
  BY <1>2
<1> QED BY <1>3 DEF EntryTrue

(* TryAutoIndex adds the hash of bytes that are there.                      *)
LEMMA TryAutoIndexTrue ==
    ASSUME NEW fbs \in Seq(Seq(Byte)), NEW ai, AllTrue(fbs, ai), NEW f \in 1..Len(fbs),
           NEW o \in Nat, NEW n \in Nat \ {0}, o + n <= Len(fbs[f])
    PROVE  AllTrue(fbs, TryAutoIndex(ai, fbs, f, o, n))
<1> DEFINE e == <<Hash(BytesAt(fbs, f, o, n)), [fblocknum |-> f, startoffs |-> o]>>
<1>1. EntryTrue(fbs, e)
  BY EntryAdded
<1>2. TryAutoIndex(ai, fbs, f, o, n) \in {ai, ai \cup {e}}
  BY Zenon DEF TryAutoIndex
<1> HIDE DEF e
<1> QED BY <1>1, <1>2 DEF AllTrue

(* PredictiveAutoIndex only looks where a whole block is left.              *)
LEMMA PredictiveAutoIndexTrue ==
    ASSUME NEW fbs \in Seq(Seq(Byte)), NEW ai, AllTrue(fbs, ai), NEW f \in 1..Len(fbs),
           NEW o \in Nat, NEW n \in Nat \ {0}
    PROVE  AllTrue(fbs, PredictiveAutoIndex(ai, fbs, f, o, n))
<1> DEFINE pos  == LookAt(fbs, f, o, n)
           m    == Len(fbs) - f
           fits == {k \in 0..m : pos[k] + n <= Len(fbs[f + k])}
           k    == FirstOf(fits, 0)
<1>1. PredictiveAutoIndex(ai, fbs, f, o, n)
        = IF fits = {} THEN ai ELSE TryAutoIndex(ai, fbs, f + k, pos[k], n)
  BY DEF PredictiveAutoIndex
<1>2. CASE fits = {}
  BY <1>1, <1>2
<1>3. CASE fits # {}
  <2>1. k \in fits /\ \A i \in fits : k <= i
    <3>1. fits \subseteq Nat
      OBVIOUS
    <3> HIDE DEF fits
    <3> QED BY <1>3, <3>1, FirstOfInSet, Zenon
  <2>2. k \in 0..m /\ pos[k] + n <= Len(fbs[f + k])
    BY <2>1
  <2>3. \A i \in 0..m : i < k => ~(pos[i] + n <= Len(fbs[f + i]))
    <3> HIDE DEF k
    <3> QED BY <2>1, <2>2
  <2>4. \A i \in 0..m : pos[i] = IF i = 0 THEN o ELSE pos[i - 1] + n - Len(fbs[f + i - 1])
    BY LookAtEquation
  <2>5. m \in Nat /\ Len(fbs) \in Nat
    OBVIOUS
  <2>6. \A i \in 0..m : Len(fbs[f + i]) \in Nat
    <3> SUFFICES ASSUME NEW i \in 0..m PROVE Len(fbs[f + i]) \in Nat
      OBVIOUS
    <3>1. f + i \in 1..Len(fbs)
      BY <2>5
    <3>2. fbs[f + i] \in Seq(Byte)
      BY <3>1, ElementOfSeq
    <3> QED BY <3>2
  <2>6a. f + k \in 1..Len(fbs)
    <3> HIDE DEF k
    <3> QED BY <2>2, <2>5
  <2> HIDE DEF pos, k
  <2> DEFINE Bad == {i \in 0..k : pos[i] \notin Nat}
             b == FirstOf(Bad, 0)
  <2>7. Bad = {}
    <3> SUFFICES ASSUME Bad # {} PROVE FALSE
      OBVIOUS
    <3>1. b \in Bad /\ \A i \in Bad : b <= i
      <4>1. Bad \subseteq Nat
        OBVIOUS
      <4> HIDE DEF Bad
      <4> QED BY <4>1, FirstOfInSet, Zenon
    <3>2. b \in 0..k /\ pos[b] \notin Nat
      BY <3>1
    <3> HIDE DEF b
    <3>3. b # 0
      BY <2>2, <2>4, <3>2
    <3>4. b - 1 \in 0..k /\ b - 1 \in 0..m /\ b - 1 < k /\ b \in 0..m /\ ~(b <= b - 1)
      BY <2>2, <2>5, <3>2, <3>3
    <3>5. pos[b - 1] \in Nat
      BY <3>1, <3>4
    <3>6. pos[b] = pos[b - 1] + n - Len(fbs[f + b - 1])
      BY <2>4, <3>3, <3>4
    <3>7. f + (b - 1) = f + b - 1
      BY <2>5, <3>4
    <3>8. Len(fbs[f + b - 1]) \in Nat /\ ~(pos[b - 1] + n <= Len(fbs[f + b - 1]))
      BY <2>3, <2>6, <3>4, <3>7
    <3> QED BY <3>2, <3>5, <3>6, <3>8, SMTT(40)
  <2>8. pos[k] \in Nat
    <3>1. k \in 0..k
      BY <2>2
    <3> QED BY <2>7, <3>1
  <2>9. AllTrue(fbs, TryAutoIndex(ai, fbs, f + k, pos[k], n))
    BY <2>2, <2>6a, <2>8, TryAutoIndexTrue
  <2> QED BY <1>1, <1>3, <2>9
<1> QED BY <1>2, <1>3

(* So does AutoIndex: CalcAutoIndexCount keeps the last offset inside.      *)
LEMMA AutoIndexTrue ==
    ASSUME NEW fbs \in Seq(Seq(Byte)), NEW ai, AllTrue(fbs, ai), NEW f \in 1..Len(fbs),
           NEW old \in Int, NEW n \in Nat \ {0}
    PROVE  AllTrue(fbs, AutoIndex(ai, fbs, f, old, n))
<1> DEFINE size == Len(fbs[f])
           a == CalcAutoIndexCount(old, n)
           c == CalcAutoIndexCount(size, n)
           offsets == {AutoIndexPeriod * i : i \in a..(c - 1)}
<1>1. CASE AutoIndexPeriod = 0
  BY <1>1 DEF AutoIndex
<1>2. CASE AutoIndexPeriod # 0
  <2>1. AutoIndexPeriod \in Nat \ {0}
    BY <1>2, OverlapParameters
  <2>2. size \in Nat
    <3>1. fbs[f] \in Seq(Byte)
      BY ElementOfSeq
    <3> QED BY <3>1
  <2> HIDE DEF size
  <2>3. a \in Nat /\ c \in Nat
    BY <2>1, <2>2 DEF CalcAutoIndexCount
  <2>4. c # 0 => AutoIndexPeriod * (c - 1) + n <= size
    <3> SUFFICES ASSUME c # 0 PROVE AutoIndexPeriod * (c - 1) + n <= size
      OBVIOUS
    <3> DEFINE P == AutoIndexPeriod
               r == size - n + P
    <3>1. r \in Nat /\ c = r \div P
      BY <2>1, <2>2 DEF CalcAutoIndexCount
    <3>2. P * c <= r
      <4>1. P \in Nat \ {0} /\ r \in Nat /\ c = r \div P
        BY <2>1, <3>1
      <4> HIDE DEF P, r, c
      <4>2. c * P <= r
        BY <4>1
      <4>3. P * c = c * P
        BY <2>3, <4>1
      <4> QED BY <4>2, <4>3
    <3>3. P * (c - 1) = P * c - P
      BY <2>1, <2>3
    <3>4. P * c \in Nat
      BY <2>1, <2>3
    <3> QED BY <2>1, <2>2, <3>2, <3>3, <3>4
  <2> HIDE DEF a, c
  <2>5. ASSUME NEW o \in offsets PROVE o \in Nat /\ o + n <= size
    <3>1. PICK i \in a..(c - 1) : o = AutoIndexPeriod * i
      OBVIOUS
    <3>2. i \in Nat /\ i <= c - 1 /\ c # 0 /\ c - 1 \in Nat
      BY <2>3
    <3>3. AutoIndexPeriod * i <= AutoIndexPeriod * (c - 1) /\ AutoIndexPeriod * i \in Nat
      <4>1. i * AutoIndexPeriod <= (c - 1) * AutoIndexPeriod
        BY <2>1, <3>2, TimesMonotone
      <4> QED BY <2>1, <3>2, <4>1
    <3>4. AutoIndexPeriod * (c - 1) \in Nat
      BY <2>1, <3>2
    <3> QED BY <2>2, <2>4, <3>1, <3>2, <3>3, <3>4
  <2>6. ASSUME NEW e \in AutoIndex(ai, fbs, f, old, n) PROVE EntryTrue(fbs, e)
    <3>1. CASE e \in ai
      BY <3>1 DEF AllTrue
    <3>2. CASE e \notin ai
      <4>1. PICK o \in offsets :
               e = <<Hash(BytesAt(fbs, f, o, n)), [fblocknum |-> f, startoffs |-> o]>>
        BY <1>2, <3>2 DEF AutoIndex, a, c, size
      <4> HIDE DEF offsets
      <4>2. o \in Nat /\ o + n <= Len(fbs[f])
        BY <2>5 DEF size
      <4> QED BY <4>1, <4>2, EntryAdded
    <3> QED BY <3>1, <3>2
  <2> QED BY <2>6 DEF AllTrue
<1> QED BY <1>1, <1>2

(* The pass over the block sizes is a run of AutoIndex.                     *)
LEMMA AutoIndexAllTrue ==
    ASSUME NEW fbs \in Seq(Seq(Byte)), NEW ai, AllTrue(fbs, ai), NEW f \in 1..Len(fbs),
           NEW last \in [BSizeSet -> Nat]
    PROVE  AllTrue(fbs, AutoIndexAll(ai, fbs, f, last))
<1> DEFINE n == Len(BSizes)
           Step(a, x) == IF MustAutoIndex(last[BSizes[a]], Len(fbs[f]), BSizes[a])
                         THEN AutoIndex(x, fbs, f, last[BSizes[a]], BSizes[a])
                         ELSE x
           E(g, o, m) == <<Hash(BytesAt(fbs, g, o, m)), [fblocknum |-> g, startoffs |-> o]>>
           U == {E(g, o, m) : g \in 1..Len(fbs), o \in Nat, m \in Nat}
           S == {x \in SUBSET U : AllTrue(fbs, x)}
           upto == AutoIndexUpTo(ai, fbs, f, last)
<1>1. n \in Nat /\ BSizes \in Seq(Nat \ {0})
  BY BlockifierParameters
<1>2. ASSUME NEW x, AllTrue(fbs, x) PROVE x \in S
  <2>1. ASSUME NEW e \in x PROVE e \in U
    <3>1. PICK g \in 1..Len(fbs) :
             \E o \in 0..Len(fbs[g]) : \E m \in 1..(Len(fbs[g]) - o) :
               e = <<Hash(BytesAt(fbs, g, o, m)), [fblocknum |-> g, startoffs |-> o]>>
      BY <1>2, <2>1 DEF AllTrue, EntryTrue
    <3>1a. PICK o \in 0..Len(fbs[g]) : \E m \in 1..(Len(fbs[g]) - o) :
               e = <<Hash(BytesAt(fbs, g, o, m)), [fblocknum |-> g, startoffs |-> o]>>
      BY <3>1
    <3>2. PICK m \in 1..(Len(fbs[g]) - o) :
               e = <<Hash(BytesAt(fbs, g, o, m)), [fblocknum |-> g, startoffs |-> o]>>
      BY <3>1a
    <3>3. fbs[g] \in Seq(Byte)
      BY ElementOfSeq
    <3>4. o \in Nat /\ m \in Nat
      BY <3>3
    <3>5. e = E(g, o, m)
      BY <3>2
    <3> HIDE DEF E
    <3> QED BY <3>4, <3>5
  <2> HIDE DEF U
  <2> QED BY <1>2, <2>1
<1>3. ASSUME NEW a \in 1..n, NEW x, AllTrue(fbs, x) PROVE AllTrue(fbs, Step(a, x))
  <2>1. BSizes[a] \in Nat \ {0} /\ BSizes[a] \in BSizeSet
    BY <1>1 DEF BSizeSet
  <2>2. BSizes[a] \in Nat \ {0} /\ last[BSizes[a]] \in Int
    BY <1>1, <2>1
  <2> DEFINE b == BSizes[a]
             l == last[b]
  <2>3. AllTrue(fbs, AutoIndex(x, fbs, f, l, b))
    <3>1. b \in Nat \ {0} /\ l \in Int
      BY <2>2
    <3> HIDE DEF b, l
    <3> QED BY <1>3, <3>1, AutoIndexTrue
  <2> QED BY <1>3, <2>3
<1> HIDE DEF Step, U
<1> DEFINE s == [a \in 1..n |-> [x \in S |-> Step(a, x)]]
<1>4. s \in [1..n -> [S -> S]]
  <2>1. ASSUME NEW a \in 1..n, NEW x \in S PROVE Step(a, x) \in S
    BY <1>2, <1>3
  <2> HIDE DEF S, n
  <2> QED BY <2>1
<1>5. PICK g \in [0..n -> S] : IsRun(g, n, ai, s)
  <2>1. ai \in S
    BY <1>2
  <2> HIDE DEF S, s, n
  <2> QED BY <1>1, <1>4, <2>1, RunExists
<1>6. g = [a \in 0..n |-> IF a = 0 THEN ai ELSE Step(a, g[a - 1])]
  <2>1. ASSUME NEW a \in 0..n PROVE g[a] = IF a = 0 THEN ai ELSE Step(a, g[a - 1])
    <3>1. CASE a = 0
      BY <1>5, <3>1 DEF IsRun
    <3>2. CASE a # 0
      <4>1. a \in 1..n /\ a - 1 \in 0..n
        BY <1>1, <3>2
      <4>2. g[a - 1] \in S
        BY <4>1
      <4> HIDE DEF S
      <4>3. s[a][g[a - 1]] = Step(a, g[a - 1])
        BY <4>1, <4>2
      <4> HIDE DEF s
      <4> QED BY <1>5, <3>2, <4>3 DEF IsRun
    <3> QED BY <3>1, <3>2
  <2> HIDE DEF n, S
  <2> QED BY <2>1
<1>7. upto = CHOOSE p : p = [a \in 0..n |-> IF a = 0 THEN ai ELSE Step(a, p[a - 1])]
  BY DEF AutoIndexUpTo, Step
<1>8. upto = [a \in 0..n |-> IF a = 0 THEN ai ELSE Step(a, upto[a - 1])]
  <2> HIDE DEF n, upto
  <2> QED BY <1>6, <1>7
<1> HIDE DEF upto, S, s
<1>9. \A a \in 0..n : upto[a] = IF a = 0 THEN ai ELSE Step(a, upto[a - 1])
  BY <1>8
<1> DEFINE Bad == {a \in 0..n : ~AllTrue(fbs, upto[a])}
           b == FirstOf(Bad, 0)
<1>10. Bad = {}
  <2> SUFFICES ASSUME Bad # {} PROVE FALSE
    OBVIOUS
  <2>1. b \in Bad /\ \A i \in Bad : b <= i
    <3>1. Bad \subseteq Nat
      OBVIOUS
    <3> HIDE DEF Bad
    <3> QED BY <3>1, FirstOfInSet, Zenon
  <2>2. b \in 0..n /\ ~AllTrue(fbs, upto[b])
    BY <2>1
  <2>2a. \A i \in 0..n : ~AllTrue(fbs, upto[i]) => b <= i
    <3> HIDE DEF b
    <3> QED BY <2>1
  <2> HIDE DEF b
  <2>3. b # 0
    BY <1>9, <2>2
  <2>4. b \in 1..n /\ b - 1 \in 0..n /\ ~(b <= b - 1)
    BY <1>1, <2>2, <2>3
  <2>5. AllTrue(fbs, upto[b - 1])
    BY <2>2a, <2>4
  <2>6. AllTrue(fbs, Step(b, upto[b - 1]))
    BY <1>3, <2>4, <2>5
  <2> QED BY <1>9, <2>2, <2>3, <2>6
<1>11. n \in 0..n
  BY <1>1
<1>12. AllTrue(fbs, upto[n])
  BY <1>10, <1>11
<1> QED BY <1>12 DEF AutoIndexAll, upto

(* A fblock that only grew has the same bytes at the same places.           *)
LEMMA EntriesStay ==
    ASSUME NEW fbs \in Seq(Seq(Byte)), NEW grown \in Seq(Seq(Byte)), NEW ai,
           AllTrue(fbs, ai), Len(fbs) <= Len(grown),
           \A f \in 1..Len(fbs) : ExtendedBy(fbs[f], grown[f])
    PROVE  AllTrue(grown, ai)
<1> SUFFICES ASSUME NEW e \in ai PROVE EntryTrue(grown, e)
  BY DEF AllTrue
<1>1. PICK f \in 1..Len(fbs) :
         \E o \in 0..Len(fbs[f]) : \E n \in 1..(Len(fbs[f]) - o) :
           e = <<Hash(BytesAt(fbs, f, o, n)), [fblocknum |-> f, startoffs |-> o]>>
  BY DEF AllTrue, EntryTrue
<1>1a. PICK o \in 0..Len(fbs[f]) : \E n \in 1..(Len(fbs[f]) - o) :
         e = <<Hash(BytesAt(fbs, f, o, n)), [fblocknum |-> f, startoffs |-> o]>>
  BY <1>1
<1>2. PICK n \in 1..(Len(fbs[f]) - o) :
         e = <<Hash(BytesAt(fbs, f, o, n)), [fblocknum |-> f, startoffs |-> o]>>
  BY <1>1a
<1>3. f \in 1..Len(grown) /\ fbs[f] \in Seq(Byte)
  <2>1. Len(fbs) \in Nat /\ Len(grown) \in Nat
    OBVIOUS
  <2> QED BY <2>1, ElementOfSeq
<1>3a. grown[f] \in Seq(Byte)
  BY <1>3, ElementOfSeq
<1> DEFINE h == fbs[f]
           g == grown[f]
<1>4. h \in Seq(Byte) /\ g \in Seq(Byte) /\ Len(h) \in Nat /\ Len(g) \in Nat
      /\ Len(h) <= Len(g) /\ \A i \in 1..Len(h) : g[i] = h[i]
  BY <1>3, <1>3a DEF ExtendedBy
<1>5. o \in Nat /\ n \in Nat \ {0} /\ o + n <= Len(h)
  BY <1>4
<1> HIDE DEF h, g
<1>6. o + n <= Len(g)
  BY <1>4, <1>5
<1>7. SubSeq(g, o + 1, o + n) = SubSeq(h, o + 1, o + n)
  <2> DEFINE u == SubSeq(g, o + 1, o + n)
             v == SubSeq(h, o + 1, o + n)
  <2>1. /\ u \in Seq(Byte) /\ Len(u) = n /\ \A i \in 1..n : u[i] = g[o + i]
    <3>1. g \in Seq(Byte) /\ o \in Nat /\ n \in Nat /\ o + n <= Len(g)
      BY <1>4, <1>5, <1>6
    <3> QED BY <3>1, ReadBytes, ZenonT(40)
  <2>2. /\ v \in Seq(Byte) /\ Len(v) = n /\ \A i \in 1..n : v[i] = h[o + i]
    <3>1. h \in Seq(Byte) /\ o \in Nat /\ n \in Nat /\ o + n <= Len(h)
      BY <1>4, <1>5
    <3> QED BY <3>1, ReadBytes, ZenonT(40)
  <2> HIDE DEF u, v
  <2>3. ASSUME NEW i \in 1..n PROVE u[i] = v[i]
    <3>1. o + i \in 1..Len(h)
      BY <1>4, <1>5
    <3> QED BY <1>4, <2>1, <2>2, <3>1
  <2>4. u = v
    BY <2>1, <2>2, <2>3, SeqEqual
  <2> QED BY <2>4 DEF u, v
<1>8. BytesAt(grown, f, o, n) = BytesAt(fbs, f, o, n)
  BY <1>7 DEF BytesAt, g, h
<1>9. o + n <= Len(grown[f])
  BY <1>6 DEF g
<1>10. EntryTrue(grown, <<Hash(BytesAt(grown, f, o, n)), [fblocknum |-> f, startoffs |-> o]>>)
  BY <1>3, <1>5, <1>9, EntryAdded
<1> QED BY <1>2, <1>8, <1>10
(* The autoindex and how far each fblock is indexed.                        *)
IndexInv ==
    /\ last_autoindex_length \in Seq([BSizeSet -> Nat])
    /\ AllTrue(fblocks, autoindex)

(* Execute(ReusingPlan) keeps the index true.                               *)
LEMMA ReuseIndexedIndex ==
    ASSUME IndInv, IndexInv, ReuseIndexed
    PROVE  IndexInv'
<1> DEFINE d == Block(current, index)
<1>1. /\ InLoop("blockify") /\ HasBlock(current, index)
      /\ fblocks' = fblocks /\ last_autoindex_length' = last_autoindex_length
  BY DEF ReuseIndexed, MustPlace
<1>2. PICK loc \in ReusingPlans(d) :
         autoindex' = PredictiveAutoIndex(autoindex \ {<<Hash(d), loc>>}, fblocks,
                          loc.fblocknum, loc.startoffs + Len(d), Len(d))
  BY DEF ReuseIndexed
<1>3. fblocks \in Seq(Seq(Byte)) /\ Len(d) \in Nat \ {0}
  <2>1. d \in Seq(Byte) /\ Len(d) = Eat(current, index)
        /\ Eat(current, index) \in 1..BlockSize(current)
    <3>1. current \in Source /\ index \in Nat /\ input \in Inputs
      BY <1>1, CurrentBlock DEF IndInv, TypeOK
    <3> QED BY <1>1, <3>1, BlockType
  <2>2. fblocks \in Seq(Seq(Byte))
    BY DEF IndInv, TypeOK
  <2> HIDE DEF d
  <2> QED BY <2>1, <2>2, OverlapParameters
<1>4. loc.fblocknum \in 1..Len(fblocks) /\ loc.startoffs \in Nat
  BY <1>2 DEF ReusingPlans, Indexed, Locators
<1> DEFINE f == loc.fblocknum
           n == Len(d)
           o == loc.startoffs + n
           ai == autoindex \ {<<Hash(d), loc>>}
<1>5. f \in 1..Len(fblocks) /\ n \in Nat \ {0} /\ o \in Nat
  BY <1>3, <1>4
<1>6. AllTrue(fblocks, ai)
  BY DEF IndexInv, AllTrue
<1>7. autoindex' = PredictiveAutoIndex(ai, fblocks, f, o, n)
  BY <1>2
<1> HIDE DEF f, n, o, ai
<1>8. AllTrue(fblocks, autoindex')
  BY <1>3, <1>5, <1>6, <1>7, PredictiveAutoIndexTrue
<1> QED BY <1>1, <1>8 DEF IndexInv

(* Execute(WritePlan) keeps the index true, though the fblock grows.        *)
LEMMA WriteBlockIndex ==
    ASSUME IndInv, IndexInv, WriteBlock
    PROVE  IndexInv'
<1> DEFINE d == Block(current, index)
<1>1. InLoop("blockify") /\ HasBlock(current, index)
  BY DEF WriteBlock, MustPlace
<1>2. PICK plan \in WritePlans(fblocks, space, d) : WriteAppended(plan, d)
  BY DEF WriteBlock
<1>3. /\ fblocks \in Seq(Seq(Byte)) /\ fblocks' \in Seq(Seq(Byte)) /\ StoreGrows
  BY WriteBlockStep DEF IndInv, TypeOK
<1>4. d \in Seq(Byte) /\ Len(d) \in Nat \ {0}
  <2>1. d \in Seq(Byte) /\ Len(d) = Eat(current, index)
        /\ Eat(current, index) \in 1..BlockSize(current)
    <3>1. current \in Source /\ index \in Nat /\ input \in Inputs
      BY <1>1, CurrentBlock DEF IndInv, TypeOK
    <3> QED BY <1>1, <3>1, BlockType
  <2>2. BlockSize(current) \in Nat
    BY <1>1, CurrentBlock, SourceType DEF IndInv, TypeOK
  <2> HIDE DEF d
  <2> QED BY <2>1, <2>2
<1> DEFINE f == plan.fblocknum
           p == plan.offset
           old == OldFblock(f)
           new == PutAppendedRaw(old, p, d)
           last == LastIndexed(f)
           after == p + Len(d)
           predicted == IF after <= Len(old)
                        THEN PredictiveAutoIndex(autoindex, fblocks, f, after, Len(d))
                        ELSE autoindex
           lasts == [b \in BSizeSet |->
                       IF MustAutoIndex(last[b], Len(new), b) THEN Len(new) ELSE last[b]]
<1> HIDE DEF d
<1>5. /\ fblocks' = StoreRaw(f, new)
      /\ autoindex' = AutoIndexAll(predicted, fblocks', f, last)
      /\ last_autoindex_length' = SetAt(last_autoindex_length, f, lasts)
  BY <1>2 DEF WriteAppended
<1>6. /\ f \in 1..(Len(fblocks) + 1) /\ old \in Seq(Byte) /\ p \in 0..Len(old)
      /\ Meets(old, p, d)
  BY <1>2, <1>3, <1>4, WritePlanFits
<1>7. new \in Seq(Byte) /\ Len(new) \in Nat
  <2>1. new \in Seq(Byte)
    <3> HIDE DEF old, p
    <3> QED BY <1>4, <1>6, AppendedBlockIsHeld
  <2> QED BY <2>1
<1>8. last \in [BSizeSet -> Nat] /\ f \in Nat \ {0} /\ Len(fblocks) \in Nat
  <2>1. Len(fblocks) \in Nat /\ f \in Nat \ {0}
    BY <1>3, <1>6
  <2>2. CASE f > Len(last_autoindex_length)
    BY <2>1, <2>2 DEF LastIndexed, NoneIndexed
  <2>3. CASE ~(f > Len(last_autoindex_length))
    <3>1. last_autoindex_length \in Seq([BSizeSet -> Nat])
      BY DEF IndexInv
    <3>2. f \in 1..Len(last_autoindex_length)
      BY <2>1, <2>3, <3>1
    <3>3. last_autoindex_length[f] \in [BSizeSet -> Nat]
      BY <3>1, <3>2, ElementOfSeq, Zenon
    <3> QED BY <2>1, <2>3, <3>3 DEF LastIndexed
  <2> QED BY <2>1, <2>2, <2>3
<1>9. f \in 1..Len(fblocks')
  <2> HIDE DEF f, new
  <2>1. CASE f > Len(fblocks)
    BY <1>3, <1>5, <1>6, <1>7, <1>8, <2>1 DEF StoreRaw
  <2>2. CASE ~(f > Len(fblocks))
    BY <1>3, <1>5, <1>6, <1>7, <1>8, <2>2 DEF StoreRaw
  <2> QED BY <2>1, <2>2
<1>10. AllTrue(fblocks, predicted)
  <2>1. AllTrue(fblocks, autoindex)
    BY DEF IndexInv
  <2>2. CASE ~(after <= Len(old))
    BY <2>1, <2>2
  <2>3. CASE after <= Len(old)
    <3>1. Len(old) \in Nat /\ after \in Nat /\ after # 0
      BY <1>4, <1>6
    <3>2. f \in 1..Len(fblocks)
      <4> SUFFICES ASSUME f > Len(fblocks) PROVE FALSE
        BY <1>6, <1>8
      <4>1. Len(old) = 0
        BY DEF OldFblock
      <4> QED BY <2>3, <3>1, <4>1
    <3> DEFINE n == Len(d)
    <3>3. n \in Nat \ {0}
      BY <1>4
    <3> HIDE DEF f, after, n, old
    <3>4. AllTrue(fblocks, PredictiveAutoIndex(autoindex, fblocks, f, after, n))
      BY <1>3, <2>1, <3>1, <3>2, <3>3, PredictiveAutoIndexTrue
    <3> QED BY <2>3, <3>4 DEF n
  <2> QED BY <2>2, <2>3
<1> HIDE DEF predicted, last, f, new
<1>11. AllTrue(fblocks', autoindex')
  <2> DEFINE grown == fblocks'
  <2>1. grown \in Seq(Seq(Byte)) /\ Len(fblocks) <= Len(grown) /\ f \in 1..Len(grown)
        /\ \A g \in 1..Len(fblocks) : ExtendedBy(fblocks[g], grown[g])
    BY <1>3, <1>9 DEF StoreGrows
  <2>2. autoindex' = AutoIndexAll(predicted, grown, f, last)
    BY <1>5
  <2> HIDE DEF grown
  <2>3. AllTrue(grown, predicted)
    BY <1>3, <1>10, <2>1, EntriesStay
  <2>4. AllTrue(grown, AutoIndexAll(predicted, grown, f, last))
    BY <1>8, <2>1, <2>3, AutoIndexAllTrue
  <2> QED BY <2>2, <2>4 DEF grown
<1>12. last_autoindex_length' \in Seq([BSizeSet -> Nat])
  <2>1. lasts \in [BSizeSet -> Nat]
    BY <1>7, <1>8
  <2>2. last_autoindex_length \in Seq([BSizeSet -> Nat])
    BY DEF IndexInv
  <2> DEFINE R == [BSizeSet -> Nat]
             l == last_autoindex_length
  <2>3. /\ lasts \in R /\ l \in Seq(R) /\ f \in Nat \ {0}
        /\ last_autoindex_length' = SetAt(l, f, lasts)
    BY <1>5, <1>8, <2>1, <2>2
  <2> HIDE DEF R, l, lasts
  <2>4. SetAt(l, f, lasts) \in Seq(R)
    <3>1. CASE f > Len(l)
      BY <2>3, <3>1 DEF SetAt
    <3>2. CASE ~(f > Len(l))
      BY <2>3, <3>2 DEF SetAt
    <3> QED BY <3>1, <3>2
  <2> QED BY <2>3, <2>4 DEF R
<1> QED BY <1>11, <1>12 DEF IndexInv

(* Nothing else touches fblocks or the index.                               *)
LEMMA IndexStep ==
    ASSUME IndInv, IndexInv, [Next]_vars
    PROVE  IndexInv'
<1>1. CASE ReuseIndexed
  BY <1>1, ReuseIndexedIndex
<1>2. CASE WriteBlock
  BY <1>2, WriteBlockIndex
<1>3. CASE ~ReuseIndexed /\ ~WriteBlock
  <2>1. UNCHANGED storeVars
    BY <1>3 DEF Next, vars, ScheduleBlockify, BeginFlush, MapItem, FindIdentical, NextItem,
                EndIdentical, ReuseIdentical, EndFlush
  <2>2. UNCHANGED <<fblocks, autoindex, last_autoindex_length>>
    BY <2>1 DEF storeVars
  <2> QED BY <2>2 DEF IndexInv
<1> QED BY <1>1, <1>2, <1>3

(* The autoindex stays truthful: whatever was appended since, each entry is *)
(* the hash of bytes that are at the place it names.                        *)
THEOREM AutoindexRight == Spec => []AutoindexSound
<1>1. Init => IndexInv
  <2> SUFFICES ASSUME Init PROVE IndexInv
    OBVIOUS
  <2>1. last_autoindex_length = <<>> /\ autoindex = {}
    BY DEF Init
  <2> QED BY <2>1 DEF IndexInv, AllTrue
<1>2. IndInv /\ IndexInv /\ [Next]_vars => IndexInv'
  BY IndexStep
<1>3. IndInv /\ IndexInv => AutoindexSound
  <2> SUFFICES ASSUME IndexInv, NEW e \in autoindex
               PROVE  /\ e[2].fblocknum \in 1..Len(fblocks)
                      /\ \E n \in 1..(Len(fblocks[e[2].fblocknum]) - e[2].startoffs) :
                            e[1] = Hash(BytesAt(fblocks, e[2].fblocknum, e[2].startoffs, n))
    BY DEF AutoindexSound
  <2>1. PICK f \in 1..Len(fblocks) :
           \E o \in 0..Len(fblocks[f]) : \E n \in 1..(Len(fblocks[f]) - o) :
             e = <<Hash(BytesAt(fblocks, f, o, n)), [fblocknum |-> f, startoffs |-> o]>>
    BY DEF IndexInv, AllTrue, EntryTrue
  <2>2. PICK o \in 0..Len(fblocks[f]) : \E n \in 1..(Len(fblocks[f]) - o) :
             e = <<Hash(BytesAt(fblocks, f, o, n)), [fblocknum |-> f, startoffs |-> o]>>
    BY <2>1
  <2>3. PICK n \in 1..(Len(fblocks[f]) - o) :
             e = <<Hash(BytesAt(fblocks, f, o, n)), [fblocknum |-> f, startoffs |-> o]>>
    BY <2>2
  <2>4. e[1] = Hash(BytesAt(fblocks, f, o, n)) /\ e[2].fblocknum = f /\ e[2].startoffs = o
    BY <2>3
  <2> QED BY <2>4
<1> QED BY <1>1, <1>2, <1>3, Invariance, PTL DEF Spec

-----------------------------------------------------------------------------
(* The search for identical blocks: what it records and what it finds.      *)

\* Block k of schedule item i, and its number in the loops.
NumOf(i, k) == where_list[i] + k
IsBlock(i, k) == i \in 1..Len(where_list) /\ k \in 0..(CalcSizeInBlocks(schedule[i]) - 1)
HashOf(i, k) == Hash(Block(schedule[i], k))

\* BlockWhereList::Find finds it.
Visible(i, k) == ~(k = 0 /\ Shadowed(i))

(* The recorded reuses: one for a block at most, and the two blocks have    *)
(* the same number as soon as both have one.                                *)
ReuseInv ==
    /\ \A e, f \in identical_list : e[1] = f[1] => e = f
    /\ IdenticalListSound

(* The second loop ends with all blocks passed.                             *)
LoopEnd ==
    pass = "blockify" /\ item > Len(schedule) =>
        \A i \in 1..Len(schedule) : \A k \in 0..(CalcSizeInBlocks(schedule[i]) - 1) :
            NumOf(i, k) < blocks_done

FullSearch ==
    /\ ~loaded
    /\ method \in {"All", "All_Speedup", "All_Prepass", "Collect", "Collect_Speedup"}

\* The index has a block that passes the tests for block k of item i.
InIndex(i, k) ==
    \E e \in blockhashlist : e[1] = HashOf(i, k) /\ SameData(schedule[i], k, e[2])

(* A block like block k of item i will be found to be identical with it, or *)
(* with another that was recorded instead.                                  *)
Covered(i, k) ==
    /\ method = "All" => InIndex(i, k)
    /\ method = "All_Prepass" /\ HashOf(i, k) \in hash_duplicate => InIndex(i, k)
    /\ method = "All_Speedup" /\ (\E e \in blockhashlist : e[1] = HashOf(i, k)) => InIndex(i, k)
    /\ method = "All_Speedup" /\ (\A e \in blockhashlist : e[1] # HashOf(i, k)) =>
          \A w \in 0..(blocks_done - 1) : full_hash_list[w + 1] = HashOf(i, k) => w = NumOf(i, k)

(* What the first loop knows of the blocks it has passed.                   *)
HashesKnown ==
    /\ Len(full_hash_list) = blocks_done
    /\ \A i \in 1..Len(where_list) : \A k \in 0..(CalcSizeInBlocks(schedule[i]) - 1) :
          NumOf(i, k) < blocks_done => full_hash_list[NumOf(i, k) + 1] = HashOf(i, k)
    /\ method = "All_Prepass" => hash_duplicate = DuplicateHashes
    /\ method = "All_Speedup" => \A e \in blockhashlist : SeenHash(e[1])

AllCovered ==
    \A i \in 1..Len(where_list) : \A k \in 0..(CalcSizeInBlocks(schedule[i]) - 1) :
        NumOf(i, k) < blocks_done /\ Visible(i, k) => Covered(i, k)

SearchInv == pass = "identical" /\ FullSearch => HashesKnown /\ AllCovered

\* An earlier block of the flush that the search compares with this one has its bytes.
Occurred(i, k) ==
    \E j \in 1..Len(where_list) : \E l \in 0..(CalcSizeInBlocks(schedule[j]) - 1) :
        /\ NumOf(j, l) < NumOf(i, k) /\ Visible(j, l)
        /\ BlockSize(schedule[i]) <= BlockSize(schedule[j])
        /\ Block(schedule[j], l) = Block(schedule[i], k)

(* Every block that so occurred before has a recorded reuse.                *)
FoundInv ==
    pass # "open" /\ FullSearch =>
      \A i \in 1..Len(where_list) : \A k \in 0..(CalcSizeInBlocks(schedule[i]) - 1) :
          (pass = "identical" => NumOf(i, k) < blocks_done) /\ Occurred(i, k) =>
              \E e \in identical_list : e[1] = NumOf(i, k)

-----------------------------------------------------------------------------
(* The types of the loops.                                                  *)
LEMMA PlaceTypes ==
    ASSUME IndInv
    PROVE  /\ input \in Inputs /\ schedule \in Seq(Source) /\ where_list \in Seq(Nat)
           /\ Len(schedule) \in Nat /\ Len(where_list) \in Nat
           /\ Len(where_list) <= Len(schedule)
           /\ blocks_done \in Nat /\ item \in Nat \ {0} /\ index \in Nat
           /\ \A i \in 1..Len(where_list) :
                 /\ i \in 1..Len(schedule) /\ where_list[i] \in Nat /\ schedule[i] \in Source
                 /\ CalcSizeInBlocks(schedule[i]) \in Nat
<1>1. /\ input \in Inputs /\ schedule \in Seq(Source) /\ where_list \in Seq(Nat)
      /\ blocks_done \in Nat /\ item \in Nat \ {0} /\ index \in Nat
      /\ Len(where_list) <= Len(schedule)
  BY DEF IndInv, TypeOK, WhereInv
<1>2. Len(schedule) \in Nat /\ Len(where_list) \in Nat
  BY <1>1
<1>3. ASSUME NEW i \in 1..Len(where_list)
      PROVE  /\ i \in 1..Len(schedule) /\ where_list[i] \in Nat /\ schedule[i] \in Source
             /\ CalcSizeInBlocks(schedule[i]) \in Nat
  <2>1. i \in 1..Len(schedule)
    BY <1>1, <1>2
  <2>2. where_list[i] \in Nat /\ schedule[i] \in Source
    BY <1>1, <2>1, ElementOfSeq
  <2>3. CalcSizeInBlocks(schedule[i]) \in Nat
    BY <1>1, <2>1, SizesType
  <2> QED BY <2>1, <2>2, <2>3
<1> QED BY <1>1, <1>2, <1>3

(* The numbers of the loops are in the order of the items and their blocks. *)
LEMMA BlockOrder ==
    ASSUME IndInv, NEW i, NEW k, NEW j, NEW l, IsBlock(i, k), IsBlock(j, l)
    PROVE  /\ NumOf(i, k) \in Nat /\ NumOf(j, l) \in Nat
           /\ NumOf(j, l) < NumOf(i, k) <=> (j < i \/ (j = i /\ l < k))
           /\ NumOf(j, l) = NumOf(i, k) => j = i /\ l = k
<1> DEFINE a == where_list[i]
           b == where_list[j]
           m == CalcSizeInBlocks(schedule[i])
           n == CalcSizeInBlocks(schedule[j])
<1>1. /\ i \in 1..Len(where_list) /\ j \in 1..Len(where_list) /\ Len(where_list) \in Nat
      /\ a \in Nat /\ b \in Nat /\ m \in Nat /\ n \in Nat
      /\ k \in 0..(m - 1) /\ l \in 0..(n - 1)
  BY PlaceTypes DEF IsBlock
<1>2. (i < j => a + m <= b) /\ (j < i => b + n <= a)
  BY <1>1 DEF IndInv, WhereInv
<1>3. j = i => a = b /\ m = n
  OBVIOUS
<1> HIDE DEF a, b, m, n
<1>4. /\ a + k \in Nat /\ b + l \in Nat
      /\ b + l < a + k <=> (j < i \/ (j = i /\ l < k))
      /\ b + l = a + k => j = i /\ l = k
  BY <1>1, <1>2, <1>3
<1> QED BY <1>4 DEF NumOf, a, b

(* The forms in which the two loops name a block.                           *)
LEMMA BlockOfNumber ==
    ASSUME IndInv, NEW w \in Nat, NEW i \in 1..Len(where_list)
    PROVE  /\ w - where_list[i] \in 0..(CalcSizeInBlocks(schedule[i]) - 1)
                <=> IsBlock(i, w - where_list[i])
           /\ NumOf(i, w - where_list[i]) = w
<1>1. where_list[i] \in Nat
  BY PlaceTypes
<1> QED BY <1>1 DEF IsBlock, NumOf

(* What it is to be a block of the flush.                                   *)
LEMMA NumberOfBlock ==
    ASSUME IndInv, NEW i, NEW k, IsBlock(i, k)
    PROVE  /\ NumOf(i, k) \in Nat /\ i \in 1..Len(where_list) /\ k \in Nat
           /\ k \in 0..(CalcSizeInBlocks(schedule[i]) - 1)
           /\ i \in 1..Len(schedule) /\ schedule[i] \in Source
           /\ NumOf(i, k) - where_list[i] = k /\ HasBlock(schedule[i], k)
<1>1. /\ i \in 1..Len(where_list) /\ where_list[i] \in Nat
      /\ i \in 1..Len(schedule) /\ schedule[i] \in Source
      /\ CalcSizeInBlocks(schedule[i]) \in Nat
      /\ k \in 0..(CalcSizeInBlocks(schedule[i]) - 1)
  BY PlaceTypes DEF IsBlock
<1>2. k \in Nat /\ k < CalcSizeInBlocks(schedule[i])
  BY <1>1
<1>3. HasBlock(schedule[i], k)
  BY <1>1, <1>2, PlaceTypes, BlockCount
<1>4. NumOf(i, k) \in Nat /\ NumOf(i, k) - where_list[i] = k
  BY <1>1, <1>2 DEF NumOf
<1> QED BY <1>1, <1>2, <1>3, <1>4

(* The block the search compares with is a block of the flush.              *)
LEMMA OtherBlock ==
    ASSUME IndInv, where_list # <<>>, NEW s \in Source, NEW k \in Nat, HasBlock(s, k),
           NEW w \in Nat, SameData(s, k, w)
    PROVE  \E j, l : /\ IsBlock(j, l) /\ NumOf(j, l) = w
                     /\ WhereFind(w) = [source |-> schedule[j], index |-> l]
<1>1. where_list[1] = 0
  BY DEF IndInv, WhereInv
<1>2. PICK j \in 1..Len(where_list) :
         /\ where_list[j] <= w
         /\ WhereFind(w) = [source |-> schedule[j], index |-> w - where_list[j]]
  BY <1>1, PlaceTypes, WhereFindItem
<1> DEFINE l == w - where_list[j]
           t == schedule[j]
<1>3. where_list[j] \in Nat /\ t \in Source /\ CalcSizeInBlocks(t) \in Nat
  BY PlaceTypes
<1>4. l \in Nat /\ NumOf(j, l) = w
  <2> DEFINE a == where_list[j]
  <2>1. a \in Nat /\ a <= w
    BY <1>2, <1>3
  <2> HIDE DEF a
  <2> QED BY <2>1 DEF NumOf, a
<1>5. WhereFind(w).source = t /\ WhereFind(w).index = l
  BY <1>2
<1> HIDE DEF l, t
<1>6. Offset(t, l) + Eat(s, k) <= Len(Data(t))
  BY <1>5 DEF SameData
<1>7. Eat(s, k) \in 1..BlockSize(s) /\ BlockSize(s) \in Nat \ {0}
  BY PlaceTypes, BlockType, SourceType
<1>8. Offset(t, l) \in Nat /\ Len(Data(t)) \in Nat
  <2>1. BlockSize(t) \in Nat /\ Len(Data(t)) \in Nat
    BY <1>3, PlaceTypes, SourceType
  <2> QED BY <1>4, <2>1 DEF Offset
<1>9. HasBlock(t, l)
  BY <1>6, <1>7, <1>8 DEF HasBlock
<1>10. l < CalcSizeInBlocks(t)
  BY <1>3, <1>4, <1>9, PlaceTypes, BlockCount
<1>11. l \in 0..(CalcSizeInBlocks(t) - 1)
  BY <1>3, <1>4, <1>10
<1>12. IsBlock(j, l)
  BY <1>2, <1>11 DEF IsBlock, t
<1>13. WhereFind(w) = [source |-> schedule[j], index |-> l]
  BY <1>2 DEF l
<1> QED BY <1>4, <1>12, <1>13

(* In the second loop each block before blocks_done has its number.         *)
LEMMA BlockPlaced ==
    ASSUME IndInv, LoopEnd, pass = "blockify", NEW i, NEW k, IsBlock(i, k)
    PROVE  NumOf(i, k) < blocks_done <=> k + 1 \in 1..Len(targets[schedule[i]])
<1>1. /\ i \in 1..Len(schedule) /\ schedule[i] \in Source /\ k \in Nat
      /\ k \in 0..(CalcSizeInBlocks(schedule[i]) - 1) /\ NumOf(i, k) \in Nat
      /\ CalcSizeInBlocks(schedule[i]) \in Nat /\ i \in 1..Len(where_list)
      /\ blocks_done \in Nat /\ item \in Nat \ {0} /\ index \in Nat /\ Len(schedule) \in Nat
      /\ where_list[i] \in Nat
  BY NumberOfBlock, PlaceTypes
<1>2. /\ item <= Len(schedule) + 1 /\ Len(where_list) = Len(schedule)
      /\ item <= Len(schedule) => /\ blocks_done = where_list[item] + index
                                  /\ index <= CalcSizeInBlocks(schedule[item])
                                  /\ Len(targets[schedule[item]]) = index
      /\ i < item => Len(targets[schedule[i]]) = CalcSizeInBlocks(schedule[i])
  BY <1>1 DEF IndInv, LoopInv
<1>3. CASE i < item
  <2>1. k + 1 \in 1..Len(targets[schedule[i]])
    BY <1>1, <1>2, <1>3
  <2>2. CASE item <= Len(schedule)
    <3>1. where_list[i] + CalcSizeInBlocks(schedule[i]) <= where_list[item]
          /\ where_list[item] \in Nat
      <4>1. item \in 1..Len(where_list)
        BY <1>1, <1>2, <2>2
      <4> QED BY <1>1, <1>3, <4>1, PlaceTypes DEF IndInv, WhereInv
    <3> DEFINE a == where_list[i]
               b == where_list[item]
               n == CalcSizeInBlocks(schedule[i])
    <3>2. /\ a \in Nat /\ b \in Nat /\ n \in Nat /\ a + n <= b /\ k \in 0..(n - 1)
          /\ blocks_done = b + index
      BY <1>1, <1>2, <2>2, <3>1
    <3> HIDE DEF a, b, n
    <3>3. a + k < blocks_done
      BY <1>1, <3>2
    <3> QED BY <2>1, <3>3 DEF NumOf, a
  <2>3. CASE ~(item <= Len(schedule))
    <3>1. item > Len(schedule)
      BY <1>1, <2>3
    <3>2. NumOf(i, k) < blocks_done
      BY <1>1, <3>1 DEF LoopEnd
    <3> QED BY <2>1, <3>2
  <2> QED BY <2>2, <2>3
<1>4. CASE i = item
  <2>1. blocks_done = where_list[i] + index /\ Len(targets[schedule[i]]) = index
    BY <1>1, <1>2, <1>4
  <2> DEFINE a == where_list[i]
  <2>2. a \in Nat /\ blocks_done = a + index
    BY <1>1, <2>1
  <2> HIDE DEF a
  <2>3. a + k < blocks_done <=> k + 1 \in 1..index
    BY <1>1, <2>2
  <2> QED BY <2>1, <2>3 DEF NumOf, a
<1>5. CASE item < i
  <2>1. Len(targets[schedule[i]]) = 0
    BY <1>1, <1>5, NoTargetsYet
  <2>2. item \in 1..Len(where_list)
    BY <1>1, <1>2, <1>5
  <2>3. where_list[item] + CalcSizeInBlocks(schedule[item]) <= where_list[i]
        /\ where_list[item] \in Nat /\ CalcSizeInBlocks(schedule[item]) \in Nat
    BY <1>1, <1>5, <2>2, PlaceTypes DEF IndInv, WhereInv
  <2> DEFINE a == where_list[i]
             b == where_list[item]
             n == CalcSizeInBlocks(schedule[item])
  <2>4. /\ a \in Nat /\ b \in Nat /\ n \in Nat /\ b + n <= a
        /\ blocks_done = b + index /\ index <= n
    BY <1>1, <1>2, <2>2, <2>3
  <2> HIDE DEF a, b, n
  <2>5. ~(a + k < blocks_done)
    BY <1>1, <2>4
  <2>6. ~(k + 1 \in 1..0)
    BY <1>1
  <2> QED BY <2>1, <2>5, <2>6 DEF NumOf, a
<1> QED BY <1>1, <1>3, <1>4, <1>5

-----------------------------------------------------------------------------
(* The recorded reuses.                                                     *)

(* Where the current block is in the second loop.                           *)
LEMMA CurrentNumber ==
    ASSUME IndInv, InLoop("blockify"), HasBlock(current, index)
    PROVE  /\ IsBlock(item, index) /\ NumOf(item, index) = blocks_done
           /\ current = schedule[item] /\ where_list # <<>>
<1>1. pass = "blockify" /\ item <= Len(schedule)
  BY DEF InLoop
<1>2. /\ item \in 1..Len(schedule) /\ CalcSizeInBlocks(current) \in Nat
      /\ index < CalcSizeInBlocks(current)
  BY <1>1, CurrentType
<1>3. Len(where_list) = Len(schedule) /\ blocks_done = where_list[item] + index
  BY <1>1 DEF IndInv, LoopInv
<1>4. index \in Nat /\ current = schedule[item]
  BY PlaceTypes DEF current
<1>5. where_list # <<>>
  BY <1>2, <1>3, PlaceTypes
<1> QED BY <1>2, <1>3, <1>4, <1>5 DEF IsBlock, NumOf

(* put_n appends to the list of the current source.                         *)
LEMMA TargetsGrow ==
    ASSUME IndInv, InLoop("blockify"), HasBlock(current, index),
           NEW num, PutBlockNumber(num)
    PROVE  /\ targets'[current][index + 1] = num
           /\ \A s \in Source : \A p \in 1..Len(targets[s]) : targets'[s][p] = targets[s][p]
<1>1. /\ targets' = [targets EXCEPT ![current] = Append(@, num)]
      /\ targets \in [Source -> Seq(Nat)] /\ index \in Nat
  BY DEF PutBlockNumber, IndInv, TypeOK
<1>2. current \in Source /\ Len(targets[current]) = index
  BY CurrentBlock DEF InLoop, IndInv, LoopInv, current
<1>3. targets[current] \in Seq(Nat)
  BY <1>1, <1>2
<1>4. targets'[current] = Append(targets[current], num)
  BY <1>1, <1>2
<1> DEFINE l == targets[current]
<1>5. l \in Seq(Nat) /\ Len(l) = index /\ targets'[current] = Append(l, num)
  BY <1>2, <1>3, <1>4
<1>6. /\ targets'[current][index + 1] = num
      /\ \A p \in 1..Len(l) : targets'[current][p] = l[p]
  <2>1. PICK S : S = Nat \cup {num}
    OBVIOUS
  <2>2. l \in Seq(S) /\ num \in S /\ index \in Nat
    <3>1. num \in S /\ Nat \subseteq S
      BY <2>1
    <3>2. l \in Seq(Nat) /\ index \in Nat
      BY <1>1, <1>5
    <3> HIDE DEF l
    <3>3. l \in Seq(S)
      BY <3>1, <3>2
    <3> QED BY <3>1, <3>2, <3>3
  <2> HIDE DEF l
  <2> QED BY <1>5, <2>2
<1>7. \A s \in Source : s # current => targets'[s] = targets[s]
  BY <1>1
<1> QED BY <1>6, <1>7

(* A recorded reuse whose turn is over: both blocks have their numbers.     *)
LEMMA ReusePlaced ==
    ASSUME IndInv, LoopEnd, pass = "blockify", NEW e \in identical_list,
           NEW i \in 1..Len(where_list),
           e[1] - where_list[i] \in 0..(CalcSizeInBlocks(schedule[i]) - 1),
           e[1] <= blocks_done
    PROVE  \E j, l : /\ IsBlock(j, l) /\ NumOf(j, l) = e[2] /\ e[2] < e[1]
                     /\ WhereFind(e[2]) = [source |-> schedule[j], index |-> l]
                     /\ schedule[j] \in Source /\ l + 1 \in 1..Len(targets[schedule[j]])
<1> DEFINE x == e[1]
           w == e[2]
           k == x - where_list[i]
<1>1. x \in Nat /\ w \in Nat /\ w < x
  BY DEF IndInv, TypeOK, IdenticalInv
<1>2. SameData(schedule[i], k, w)
  BY DEF IndInv, IdenticalInv
<1>3. IsBlock(i, k)
  BY DEF IsBlock
<1>4. schedule[i] \in Source /\ k \in Nat /\ HasBlock(schedule[i], k)
  <2> HIDE DEF k
  <2> QED BY <1>3, NumberOfBlock
<1>5. where_list # <<>>
  BY PlaceTypes
<1>6. PICK j, l : /\ IsBlock(j, l) /\ NumOf(j, l) = w
                  /\ WhereFind(w) = [source |-> schedule[j], index |-> l]
  <2> HIDE DEF k, w
  <2> QED BY <1>1, <1>2, <1>4, <1>5, OtherBlock
<1>7. w < blocks_done
  <2>1. x <= blocks_done /\ blocks_done \in Nat
    BY PlaceTypes
  <2> HIDE DEF x, w
  <2> QED BY <1>1, <2>1
<1>8. l + 1 \in 1..Len(targets[schedule[j]]) /\ schedule[j] \in Source
  BY <1>6, <1>7, BlockPlaced, NumberOfBlock
<1> QED BY <1>1, <1>6, <1>8

(* Giving the current block the number of the block recorded for it.        *)
LEMMA ReusePut ==
    ASSUME IndInv, LoopEnd, ReuseInv, InLoop("blockify"), HasBlock(current, index),
           NEW num, PutBlockNumber(num),
           \A e \in identical_list : e[1] = blocks_done =>
               num = targets[WhereFind(e[2]).source][WhereFind(e[2]).index + 1]
    PROVE  ReuseInv'
<1>1. /\ pass = "blockify" /\ pass' = pass /\ blocks_done' = blocks_done + 1
      /\ UNCHANGED <<input, schedule, where_list, identical_list>>
  BY DEF PutBlockNumber, InLoop, hashVars
<1>2. /\ targets'[current][index + 1] = num
      /\ \A s \in Source : \A p \in 1..Len(targets[s]) : targets'[s][p] = targets[s][p]
  BY TargetsGrow
<1>3. IsBlock(item, index) /\ NumOf(item, index) = blocks_done /\ current = schedule[item]
  BY CurrentNumber
<1>4. \A w : WhereFind(w)' = WhereFind(w)
  BY <1>1 DEF WhereFind
<1>5. \A i : CalcSizeInBlocks(schedule[i])' = CalcSizeInBlocks(schedule[i])
  BY <1>1, SizesStable
<1>6. ASSUME NEW e \in identical_list, e[1] < blocks_done + 1, NEW i \in 1..Len(where_list),
             e[1] - where_list[i] \in 0..(CalcSizeInBlocks(schedule[i]) - 1)
      PROVE  targets'[schedule[i]][e[1] - where_list[i] + 1]
               = targets'[WhereFind(e[2]).source][WhereFind(e[2]).index + 1]
  <2> DEFINE x == e[1]
             w == e[2]
             k == x - where_list[i]
             old == targets[WhereFind(w).source][WhereFind(w).index + 1]
  <2>1. x \in Nat /\ blocks_done \in Nat /\ x <= blocks_done
    <3>1. x \in Nat /\ blocks_done \in Nat
      BY DEF IndInv, TypeOK
    <3>2. x < blocks_done + 1
      BY <1>6
    <3> HIDE DEF x
    <3> QED BY <3>1, <3>2
  <2>2. PICK j, l : /\ WhereFind(w) = [source |-> schedule[j], index |-> l]
                    /\ schedule[j] \in Source /\ l + 1 \in 1..Len(targets[schedule[j]])
    BY <1>1, <1>6, <2>1, ReusePlaced
  <2>3. targets'[WhereFind(w).source][WhereFind(w).index + 1] = old
    <3>1. WhereFind(w).source = schedule[j] /\ WhereFind(w).index = l
      BY <2>2
    <3> HIDE DEF w
    <3> QED BY <1>2, <2>2, <3>1
  <2>4. IsBlock(i, k) /\ NumOf(i, k) = x
    BY <1>6, <2>1, BlockOfNumber
  <2>5. CASE x = blocks_done
    <3>1. i = item /\ k = index
      <4> HIDE DEF k, x
      <4> QED BY <1>3, <2>4, <2>5, BlockOrder
    <3>2. targets'[schedule[i]][k + 1] = num
      <4> HIDE DEF k
      <4> QED BY <1>2, <1>3, <3>1
    <3>3. num = old
      BY <2>5
    <3> QED BY <2>3, <3>2, <3>3
  <2>6. CASE x # blocks_done
    <3>1. x < blocks_done
      BY <2>1, <2>6
    <3>2. targets[schedule[i]][k + 1] = old
      BY <1>1, <1>6, <3>1 DEF ReuseInv, IdenticalListSound
    <3>3. k + 1 \in 1..Len(targets[schedule[i]]) /\ schedule[i] \in Source
      <4> HIDE DEF k, x
      <4> QED BY <1>1, <2>4, <3>1, BlockPlaced, NumberOfBlock
    <3>4. targets'[schedule[i]][k + 1] = targets[schedule[i]][k + 1]
      <4> HIDE DEF k
      <4> QED BY <1>2, <3>3
    <3> QED BY <2>3, <3>2, <3>4
  <2> QED BY <2>5, <2>6
<1>7. \A e \in identical_list : e[2] < e[1]
  BY DEF IndInv, IdenticalInv
<1>8. IdenticalListSound'
  <2> SUFFICES ASSUME NEW e \in identical_list, e[1] < blocks_done + 1,
                      NEW i \in 1..Len(where_list),
                      e[1] - where_list[i] \in 0..(CalcSizeInBlocks(schedule[i])' - 1)
               PROVE  targets'[schedule[i]][e[1] - where_list[i] + 1]
                        = targets'[WhereFind(e[2])'.source][WhereFind(e[2])'.index + 1]
    BY <1>1, <1>7 DEF IdenticalListSound
  <2>1. e[1] - where_list[i] \in 0..(CalcSizeInBlocks(schedule[i]) - 1)
    BY <1>5
  <2>2. WhereFind(e[2])' = WhereFind(e[2])
    BY <1>4
  <2> QED BY <1>6, <2>1, <2>2
<1> QED BY <1>1, <1>8 DEF ReuseInv

(* The current block passes the tests for the block recorded for it, so the *)
(* comparison of the second loop succeeds.                                  *)
LEMMA RecordedIsReusable ==
    ASSUME IndInv, InLoop("blockify"), HasBlock(current, index),
           NEW e \in identical_list, e[1] = blocks_done
    PROVE  Reusable(e[2])
<1>1. IsBlock(item, index) /\ NumOf(item, index) = blocks_done /\ current = schedule[item]
  BY CurrentNumber
<1>2. e[1] - where_list[item] = index /\ item \in 1..Len(where_list)
      /\ index \in 0..(CalcSizeInBlocks(schedule[item]) - 1)
  BY <1>1, NumberOfBlock
<1>3. SameData(schedule[item], e[1] - where_list[item], e[2])
  BY <1>2 DEF IndInv, IdenticalInv
<1>4. SameData(current, index, e[2])
  BY <1>1, <1>2, <1>3
<1> QED BY <1>4 DEF SameData, Reusable

(* Only the end of the last source ends the second loop.                    *)
LEMMA LoopEndStep ==
    ASSUME IndInv, LoopEnd, [Next]_vars
    PROVE  LoopEnd'
<1> USE DEF loopVars
<1>1. CASE NextItem
  <2> SUFFICES ASSUME pass' = "blockify", item' > Len(schedule'),
                      NEW i \in 1..Len(schedule'),
                      NEW k \in 0..(CalcSizeInBlocks(schedule[i])' - 1)
               PROVE  NumOf(i, k)' < blocks_done'
    BY DEF LoopEnd
  <2>1. /\ pass = "blockify" /\ item <= Len(schedule) /\ ~HasBlock(current, index)
        /\ item' = item + 1 /\ UNCHANGED <<input, schedule, where_list, blocks_done>>
    BY <1>1 DEF NextItem, InLoop
  <2>2. /\ item \in 1..Len(schedule) /\ CalcSizeInBlocks(current) \in Nat
        /\ ~(index < CalcSizeInBlocks(current)) /\ item = Len(schedule)
    BY <2>1, CurrentType, PlaceTypes
  <2>3. /\ Len(where_list) = Len(schedule) /\ blocks_done = where_list[item] + index
        /\ index <= CalcSizeInBlocks(current)
    BY <2>1 DEF IndInv, LoopInv, current
  <2>4. CalcSizeInBlocks(schedule[i])' = CalcSizeInBlocks(schedule[i])
    BY <2>1, SizesStable
  <2>5. IsBlock(i, k)
    BY <2>1, <2>3, <2>4 DEF IsBlock
  <2>6. NumOf(i, k) < blocks_done
    <3> DEFINE a == where_list[i]
               b == where_list[item]
               n == CalcSizeInBlocks(schedule[i])
    <3>1. /\ a \in Nat /\ b \in Nat /\ n \in Nat /\ i \in 1..Len(where_list)
          /\ item \in 1..Len(where_list) /\ k \in 0..(n - 1) /\ index \in Nat
      BY <2>2, <2>3, <2>5, PlaceTypes DEF IsBlock
    <3>2. i < item => a + n <= b
      BY <3>1 DEF IndInv, WhereInv
    <3>3. i = item => a = b /\ n = index
      BY <2>2, <2>3, PlaceTypes DEF current
    <3>4. i <= item
      BY <2>2, <2>3, <3>1
    <3> HIDE DEF a, b, n
    <3>5. a + k < b + index
      BY <3>1, <3>2, <3>3, <3>4
    <3> QED BY <2>3, <3>5 DEF NumOf, a, b
  <2> QED BY <2>1, <2>6 DEF NumOf
<1>2. CASE EndIdentical
  <2>1. item' = 1 /\ schedule' = schedule /\ Len(schedule) \in Nat
    BY <1>2, PlaceTypes DEF EndIdentical
  <2> QED BY <2>1 DEF LoopEnd
<1>3. CASE ReuseIdentical \/ ReuseIndexed \/ WriteBlock
  <2>1. item <= Len(schedule) /\ UNCHANGED <<item, schedule>>
    BY <1>3 DEF ReuseIdentical, ReuseIndexed, WriteBlock, MustPlace, InLoop, PutBlockNumber
  <2>2. ~(item' > Len(schedule'))
    BY <2>1, PlaceTypes
  <2> QED BY <2>2 DEF LoopEnd
<1>4. CASE (\E s \in Source : ScheduleBlockify(s)) \/ BeginFlush \/ MapItem
           \/ FindIdentical \/ EndFlush
  <2>1. pass' # "blockify"
    BY <1>4 DEF ScheduleBlockify, BeginFlush, MapItem, FindIdentical, EndFlush, InLoop
  <2> QED BY <2>1 DEF LoopEnd
<1>5. CASE UNCHANGED vars
  <2>1. UNCHANGED <<input, pass, item, schedule, where_list, blocks_done>>
    BY <1>5 DEF vars
  <2> QED BY <2>1 DEF LoopEnd, NumOf, CalcSizeInBlocks, Data, BlockSize
<1> QED BY <1>1, <1>2, <1>3, <1>4, <1>5 DEF Next

(* Each step keeps the recorded reuses right.                               *)
LEMMA ReuseStep ==
    ASSUME IndInv, LoopEnd, ReuseInv, [Next]_vars
    PROVE  ReuseInv'
<1> USE DEF hashVars, loopVars, storeVars
<1>1. CASE ReuseIdentical
  <2>1. InLoop("blockify") /\ HasBlock(current, index)
    BY <1>1 DEF ReuseIdentical
  <2>2. PICK e \in identical_list :
           /\ e[1] = blocks_done
           /\ PutBlockNumber(targets[WhereFind(e[2]).source][WhereFind(e[2]).index + 1])
    BY <1>1 DEF ReuseIdentical
  <2> DEFINE num == targets[WhereFind(e[2]).source][WhereFind(e[2]).index + 1]
  <2>3. ASSUME NEW f \in identical_list, f[1] = blocks_done
        PROVE  num = targets[WhereFind(f[2]).source][WhereFind(f[2]).index + 1]
    <3>1. f = e
      BY <2>2, <2>3 DEF ReuseInv
    <3> QED BY <3>1
  <2>4. PutBlockNumber(num)
    BY <2>2
  <2> HIDE DEF num
  <2> QED BY <2>1, <2>3, <2>4, ReusePut
<1>2. CASE ReuseIndexed \/ WriteBlock
  <2>1. MustPlace /\ PutBlockNumber(Len(blocks) + 1)
    BY <1>2 DEF ReuseIndexed, WriteBlock
  <2>2. InLoop("blockify") /\ HasBlock(current, index)
    BY <2>1 DEF MustPlace
  <2>3. \A e \in identical_list : e[1] # blocks_done
    BY <2>1, <2>2, RecordedIsReusable DEF MustPlace
  <2> DEFINE num == Len(blocks) + 1
  <2>4. PutBlockNumber(num)
    BY <2>1
  <2> HIDE DEF num
  <2> QED BY <2>2, <2>3, <2>4, ReusePut
<1>3. CASE FindIdentical
  <2> DEFINE d == Block(current, index)
             same == {w \in Others(d) : SameData(current, index, w)}
  <2>1. pass = "identical" /\ pass' = pass
    BY <1>3 DEF FindIdentical, InLoop
  <2>2. \/ identical_list' = identical_list
        \/ \E other \in same : identical_list' = identical_list \cup {<<blocks_done, other>>}
    BY <1>3 DEF FindIdentical
  <2>3. \A e \in identical_list : e[1] < blocks_done
    BY <2>1 DEF IndInv, IdenticalInv
  <2>4. ~(blocks_done < blocks_done)
    BY PlaceTypes
  <2> HIDE DEF same
  <2>5. ASSUME NEW e \in identical_list', NEW f \in identical_list', e[1] = f[1]
        PROVE  e = f
    <3>1. CASE identical_list' = identical_list
      BY <2>5, <3>1 DEF ReuseInv
    <3>2. CASE \E other \in same : identical_list' = identical_list \cup {<<blocks_done, other>>}
      <4>1. PICK other \in same : identical_list' = identical_list \cup {<<blocks_done, other>>}
        BY <3>2
      <4> DEFINE new == <<blocks_done, other>>
      <4>2. new[1] = blocks_done
        OBVIOUS
      <4>3. (e \in identical_list \/ e = new) /\ (f \in identical_list \/ f = new)
        BY <4>1
      <4> HIDE DEF new
      <4> QED BY <2>3, <2>4, <2>5, <4>2, <4>3 DEF ReuseInv
    <3> QED BY <2>2, <3>1, <3>2
  <2> QED BY <2>1, <2>5 DEF ReuseInv, IdenticalListSound
<1>4. CASE EndIdentical
  <2>1. blocks_done' = 0 /\ identical_list' \in (IF loaded THEN SavedLists ELSE {identical_list})
    BY <1>4 DEF EndIdentical
  <2>2. \A e \in identical_list' : e \in Nat \X Nat /\ e[2] < e[1]
    BY <1>4, EndIdenticalStep DEF IndInv, TypeOK, IdenticalInv
  <2>3. \A e \in identical_list' : ~(e[1] < 0)
    BY <2>2
  <2>4. ASSUME NEW e \in identical_list', NEW f \in identical_list', e[1] = f[1]
        PROVE  e = f
    <3>1. CASE loaded
      BY <2>1, <2>4, <3>1 DEF SavedLists
    <3>2. CASE ~loaded
      BY <2>1, <2>4, <3>2 DEF ReuseInv
    <3> QED BY <3>1, <3>2
  <2> QED BY <2>1, <2>2, <2>3, <2>4 DEF ReuseInv, IdenticalListSound
<1>5. CASE EndFlush
  <2>1. identical_list' = {}
    BY <1>5 DEF EndFlush
  <2> QED BY <2>1 DEF ReuseInv, IdenticalListSound
<1>6. CASE (\E s \in Source : ScheduleBlockify(s)) \/ BeginFlush \/ MapItem
  <2>1. pass' # "blockify" /\ identical_list' = identical_list
    BY <1>6 DEF ScheduleBlockify, BeginFlush, MapItem, InLoop
  <2> QED BY <2>1 DEF ReuseInv, IdenticalListSound
<1>7. CASE NextItem \/ UNCHANGED vars
  <2>1. UNCHANGED <<input, pass, schedule, where_list, blocks_done, identical_list, targets>>
    BY <1>7 DEF NextItem, vars
  <2>2. \A w : WhereFind(w)' = WhereFind(w)
    BY <2>1 DEF WhereFind
  <2>3. \A i : CalcSizeInBlocks(schedule[i])' = CalcSizeInBlocks(schedule[i])
    BY <2>1, SizesStable
  <2> QED BY <2>1, <2>2, <2>3 DEF ReuseInv, IdenticalListSound
<1> QED BY <1>1, <1>2, <1>3, <1>4, <1>5, <1>6, <1>7 DEF Next

-----------------------------------------------------------------------------
(* What the search finds.                                                   *)

(* BlockWhereList::Find finds a block that no empty source hides.           *)
LEMMA WhereFindSelf ==
    ASSUME IndInv, NEW i, NEW k, IsBlock(i, k), Visible(i, k)
    PROVE  WhereFind(NumOf(i, k)) = [source |-> schedule[i], index |-> k]
<1> DEFINE w == NumOf(i, k)
           n == Len(where_list)
           S == {m \in 1..n : where_list[m] >= w}
           lb == FirstOf(S, n + 1)
           p == IF lb <= n /\ where_list[lb] = w THEN lb ELSE lb - 1
<1>1. WhereFind(w) = [source |-> schedule[p], index |-> w - where_list[p]]
  BY DEF WhereFind
<1>2. /\ n \in Nat /\ i \in 1..n /\ k \in Nat /\ w \in Nat /\ w - where_list[i] = k
      /\ k \in 0..(CalcSizeInBlocks(schedule[i]) - 1)
      /\ \A m \in 1..n : where_list[m] \in Nat /\ CalcSizeInBlocks(schedule[m]) \in Nat
  BY NumberOfBlock, PlaceTypes
<1>2a. w = where_list[i] + k
  BY DEF NumOf
<1>3. S # {} => lb \in S /\ \A q \in S : lb <= q
  <2>1. S \subseteq Nat
    BY <1>2
  <2> HIDE DEF S
  <2> QED BY <2>1, FirstOfInSet, Zenon
<1>4. S = {} => lb = n + 1
  BY DEF FirstOf
<1>5. \A m \in 1..n : m \in S <=> where_list[m] >= w
  OBVIOUS
<1>5a. \A m \in S : m \in 1..n
  OBVIOUS
<1> HIDE DEF w, n, S, lb
<1>6. \A m \in 1..n : m < i =>
         where_list[m] + CalcSizeInBlocks(schedule[m]) <= where_list[i]
  BY <1>2 DEF IndInv, WhereInv, n
<1>7. p = i
  <2>1. CASE k = 0
    <3>1. w = where_list[i] /\ i \in S
      BY <1>2, <1>2a, <1>5, <2>1
    <3>2. \A m \in 1..n : m < i => where_list[m] < where_list[i]
      <4> SUFFICES ASSUME NEW m \in 1..n, m < i PROVE where_list[m] < where_list[i]
        OBVIOUS
      <4>1. ~Shadowed(i) /\ i > 1 /\ i - 1 \in 1..n /\ (m < i - 1 \/ m = i - 1)
        BY <1>2, <2>1 DEF Visible
      <4>2. Data(schedule[i - 1]) # <<>>
        BY <4>1 DEF Shadowed
      <4>3. schedule[i - 1] \in Source
        BY <4>1, PlaceTypes DEF n
      <4>4. 0 < CalcSizeInBlocks(schedule[i - 1])
        <5>1. Data(schedule[i - 1]) \in Seq(Byte) /\ BlockSize(schedule[i - 1]) \in Nat
          BY <4>3, PlaceTypes, SourceType
        <5>2. 0 < Len(Data(schedule[i - 1])) /\ Offset(schedule[i - 1], 0) = 0
          BY <4>2, <5>1 DEF Offset
        <5>3. HasBlock(schedule[i - 1], 0)
          BY <5>2 DEF HasBlock
        <5> QED BY <4>3, <5>3, PlaceTypes, BlockCount
      <4>5. where_list[i - 1] + CalcSizeInBlocks(schedule[i - 1]) <= where_list[i]
        BY <1>2, <1>6, <4>1
      <4>6. m < i - 1 => where_list[m] + CalcSizeInBlocks(schedule[m]) <= where_list[i - 1]
        BY <4>1 DEF IndInv, WhereInv, n
      <4> DEFINE a == where_list[m]
                 b == where_list[i - 1]
                 c == where_list[i]
                 x == CalcSizeInBlocks(schedule[m])
                 y == CalcSizeInBlocks(schedule[i - 1])
      <4>7. /\ a \in Nat /\ b \in Nat /\ c \in Nat /\ x \in Nat /\ y \in Nat /\ 0 < y
            /\ b + y <= c /\ (m < i - 1 => a + x <= b) /\ (m = i - 1 => a = b)
        BY <1>2, <4>1, <4>4, <4>5, <4>6
      <4> HIDE DEF a, b, c, x, y
      <4>8. a < c
        BY <4>1, <4>7
      <4> QED BY <4>8 DEF a, c
    <3>3. lb \in 1..n /\ lb <= i /\ ~(lb < i)
      <4>1. lb \in S /\ lb <= i
        BY <1>3, <3>1
      <4>2. lb \in 1..n /\ where_list[lb] >= w
        BY <1>5, <1>5a, <4>1
      <4>3. where_list[lb] \in Nat
        BY <1>2, <4>2
      <4>4. ~(lb < i)
        BY <1>2, <3>1, <3>2, <4>2, <4>3
      <4> QED BY <4>1, <4>2, <4>4
    <3>4. lb = i
      BY <1>2, <3>3
    <3> QED BY <1>2, <3>1, <3>4
  <2>2. CASE k # 0
    <3>1. \A m \in 1..n : m <= i => m \notin S
      <4> SUFFICES ASSUME NEW m \in 1..n, m <= i PROVE ~(where_list[m] >= w)
        BY <1>5
      <4> DEFINE a == where_list[m]
                 c == where_list[i]
                 x == CalcSizeInBlocks(schedule[m])
      <4>1. /\ a \in Nat /\ c \in Nat /\ x \in Nat /\ (m < i => a + x <= c)
            /\ (m = i => a = c) /\ w = c + k
        BY <1>2, <1>2a, <1>6
      <4> HIDE DEF a, c, x
      <4>2. ~(a >= w)
        BY <1>2, <2>2, <4>1
      <4> QED BY <4>2 DEF a
    <3>2. CASE i < n
      <4>1. i + 1 \in 1..n
        BY <1>2, <3>2
      <4>2. where_list[i + 1] = where_list[i] + CalcSizeInBlocks(schedule[i])
        BY <1>2, <4>1 DEF IndInv, WhereInv, n
      <4>3. where_list[i + 1] > w
        <5> DEFINE c == where_list[i]
                   x == CalcSizeInBlocks(schedule[i])
                   y == where_list[i + 1]
        <5>1. c \in Nat /\ x \in Nat /\ y = c + x /\ w = c + k /\ k \in 0..(x - 1)
          BY <1>2, <1>2a, <4>2
        <5> HIDE DEF c, x, y
        <5>2. y > w
          BY <5>1
        <5> QED BY <5>2 DEF y
      <4>4. i + 1 \in S
        BY <1>2, <1>5, <4>1, <4>3
      <4>5. lb \in 1..n /\ lb <= i + 1 /\ ~(lb <= i)
        BY <1>3, <1>5a, <3>1, <4>4
      <4>6. lb = i + 1
        BY <1>2, <4>5
      <4>7. where_list[lb] # w
        BY <1>2, <4>1, <4>3, <4>6
      <4> QED BY <1>2, <4>6, <4>7
    <3>3. CASE ~(i < n)
      <4>1. i = n
        BY <1>2, <3>3
      <4>2. S = {}
        BY <1>5a, <3>1, <4>1
      <4>3. lb = n + 1 /\ ~(lb <= n)
        BY <1>2, <1>4, <4>2
      <4> QED BY <1>2, <4>1, <4>3
    <3> QED BY <3>2, <3>3
  <2> QED BY <2>1, <2>2
<1> HIDE DEF p
<1> QED BY <1>1, <1>2, <1>7 DEF w

(* It passes the tests against itself.                                      *)
LEMMA SameAsItself ==
    ASSUME IndInv, NEW i, NEW k, IsBlock(i, k), Visible(i, k)
    PROVE  SameData(schedule[i], k, NumOf(i, k))
<1> DEFINE s == schedule[i]
           w == NumOf(i, k)
<1>1. s \in Source /\ k \in Nat /\ HasBlock(s, k) /\ input \in Inputs
  BY NumberOfBlock, PlaceTypes
<1>2. WhereFind(w).source = s /\ WhereFind(w).index = k
  BY WhereFindSelf
<1>3. BlockSize(s) <= BlockSize(s)
  BY <1>1, SourceType
<1> HIDE DEF s, w
<1>4. Offset(s, k) + Eat(s, k) <= Len(Data(s))
  BY <1>1, BlockType
<1>5. ReadSource(s, Offset(s, k), Eat(s, k)) = Block(s, k)
  BY DEF Block
<1>6. SameData(s, k, w)
  BY <1>2, <1>3, <1>4, <1>5 DEF SameData
<1> QED BY <1>6 DEF s, w

(* A block passes the tests that one with the same bytes passes, unless its *)
(* source has the larger blocks.                                            *)
LEMMA SameDataLike ==
    ASSUME IndInv, where_list # <<>>, NEW s \in Source, NEW k \in Nat, HasBlock(s, k),
           NEW t \in Source, NEW l \in Nat, HasBlock(t, l),
           BlockSize(t) <= BlockSize(s), Block(s, k) = Block(t, l),
           NEW w \in Nat, SameData(s, k, w)
    PROVE  SameData(t, l, w)
<1>0. input \in Inputs
  BY PlaceTypes
<1>1. Len(Block(s, k)) = Eat(s, k) /\ Len(Block(t, l)) = Eat(t, l)
  BY <1>0, BlockType
<1>2. Eat(s, k) = Eat(t, l)
  BY <1>1
<1> DEFINE o == WhereFind(w).source
<1>3. o \in Source
  <2>1. where_list \in Seq(Nat) /\ where_list[1] = 0
    BY PlaceTypes DEF IndInv, WhereInv
  <2>2. PICK i \in 1..Len(where_list) :
           WhereFind(w) = [source |-> schedule[i], index |-> w - where_list[i]]
    BY <2>1, WhereFindItem
  <2>3. schedule[i] \in Source
    BY PlaceTypes
  <2> QED BY <2>2, <2>3
<1>4. BlockSize(s) <= BlockSize(o)
  BY DEF SameData
<1>5. BlockSize(o) \in Nat /\ BlockSize(s) \in Nat /\ BlockSize(t) \in Nat
  BY <1>0, <1>3, SourceType
<1> HIDE DEF o
<1>6. BlockSize(t) <= BlockSize(o)
  BY <1>4, <1>5
<1> QED BY <1>2, <1>6 DEF SameData, o

(* Where the current block is in the first loop.                            *)
LEMMA CurrentInSearch ==
    ASSUME IndInv, InLoop("identical"), Len(where_list) = item, HasBlock(current, index)
    PROVE  /\ IsBlock(item, index) /\ NumOf(item, index) = blocks_done
           /\ current = schedule[item] /\ where_list # <<>>
<1>1. pass = "identical" /\ item <= Len(schedule)
  BY DEF InLoop
<1>2. /\ item \in 1..Len(schedule) /\ CalcSizeInBlocks(current) \in Nat
      /\ index < CalcSizeInBlocks(current)
  BY <1>1, CurrentType
<1>3. blocks_done = where_list[item] + index
  BY <1>1 DEF IndInv, LoopInv
<1>4. index \in Nat /\ current = schedule[item]
  BY PlaceTypes DEF current
<1>5. where_list # <<>> /\ item \in 1..Len(where_list)
  BY <1>2, PlaceTypes
<1> QED BY <1>2, <1>3, <1>4, <1>5 DEF IsBlock, NumOf

(* A hash met twice in the flush is a duplicate hash.                       *)
LEMMA DuplicateHash ==
    ASSUME NEW i \in 1..Len(schedule), NEW k \in 0..(CalcSizeInBlocks(schedule[i]) - 1),
           NEW j \in 1..Len(schedule), NEW l \in 0..(CalcSizeInBlocks(schedule[j]) - 1),
           i # j \/ k # l, HashOf(i, k) = HashOf(j, l)
    PROVE  HashOf(i, k) \in DuplicateHashes
<1> DEFINE b == <<i, k>>
           c == <<j, l>>
<1>1. b \in ScheduledBlocks /\ c \in ScheduledBlocks
  BY DEF ScheduledBlocks
<1>2. b # c /\ b[1] = i /\ b[2] = k /\ c[1] = j /\ c[2] = l
  OBVIOUS
<1> HIDE DEF b, c
<1>3. Hash(Block(schedule[b[1]], b[2])) = Hash(Block(schedule[c[1]], c[2]))
  BY <1>2 DEF HashOf
<1>4. Hash(Block(schedule[b[1]], b[2])) \in DuplicateHashes
  BY <1>1, <1>2, <1>3 DEF DuplicateHashes
<1> QED BY <1>2, <1>4 DEF HashOf

(* What the invariants of the search look at besides the lists.             *)
LEMMA PlacesStable ==
    ASSUME UNCHANGED <<input, schedule, where_list>>
    PROVE  /\ \A i, k : /\ NumOf(i, k)' = NumOf(i, k) /\ HashOf(i, k)' = HashOf(i, k)
                        /\ IsBlock(i, k)' <=> IsBlock(i, k)
                        /\ Visible(i, k)' <=> Visible(i, k)
                        /\ Occurred(i, k)' <=> Occurred(i, k)
                        /\ Block(schedule[i], k)' = Block(schedule[i], k)
           /\ \A i, k, w : SameData(schedule[i], k, w)' <=> SameData(schedule[i], k, w)
           /\ DuplicateHashes' = DuplicateHashes
           /\ \A i : /\ CalcSizeInBlocks(schedule[i])' = CalcSizeInBlocks(schedule[i])
                     /\ BlockSize(schedule[i])' = BlockSize(schedule[i])
<1>1. \A i, k : /\ NumOf(i, k)' = NumOf(i, k)
                /\ CalcSizeInBlocks(schedule[i])' = CalcSizeInBlocks(schedule[i])
                /\ Block(schedule[i], k)' = Block(schedule[i], k)
                /\ BlockSize(schedule[i])' = BlockSize(schedule[i])
  BY DEF NumOf, CalcSizeInBlocks, Block, Offset, Eat, ReadSource, Data, BlockSize
<1>2. \A i, k : /\ HashOf(i, k)' = HashOf(i, k) /\ (IsBlock(i, k)' <=> IsBlock(i, k))
                /\ Visible(i, k)' <=> Visible(i, k)
  BY <1>1 DEF HashOf, IsBlock, Visible, Shadowed, Data
<1>3. \A i, k : Occurred(i, k)' <=> Occurred(i, k)
  <2> SUFFICES ASSUME NEW i, NEW k PROVE Occurred(i, k)' <=> Occurred(i, k)
    OBVIOUS
  <2>1. \A j, l : /\ NumOf(j, l)' = NumOf(j, l)
                  /\ CalcSizeInBlocks(schedule[j])' = CalcSizeInBlocks(schedule[j])
                  /\ Block(schedule[j], l)' = Block(schedule[j], l)
                  /\ BlockSize(schedule[j])' = BlockSize(schedule[j])
                  /\ Visible(j, l)' <=> Visible(j, l)
    BY <1>1, <1>2
  <2>2. Len(where_list)' = Len(where_list)
    OBVIOUS
  <2>3. ASSUME Occurred(i, k)' PROVE Occurred(i, k)
    <3>1. PICK j \in 1..Len(where_list') :
             \E l \in 0..(CalcSizeInBlocks(schedule[j])' - 1) :
               /\ NumOf(j, l)' < NumOf(i, k)' /\ Visible(j, l)'
               /\ BlockSize(schedule[i])' <= BlockSize(schedule[j])'
               /\ Block(schedule[j], l)' = Block(schedule[i], k)'
      BY <2>3 DEF Occurred
    <3>2. PICK l \in 0..(CalcSizeInBlocks(schedule[j])' - 1) :
               /\ NumOf(j, l)' < NumOf(i, k)' /\ Visible(j, l)'
               /\ BlockSize(schedule[i])' <= BlockSize(schedule[j])'
               /\ Block(schedule[j], l)' = Block(schedule[i], k)'
      BY <3>1
    <3>3. /\ j \in 1..Len(where_list) /\ l \in 0..(CalcSizeInBlocks(schedule[j]) - 1)
          /\ NumOf(j, l) < NumOf(i, k) /\ Visible(j, l)
          /\ BlockSize(schedule[i]) <= BlockSize(schedule[j])
          /\ Block(schedule[j], l) = Block(schedule[i], k)
      BY <2>1, <2>2, <3>2
    <3> QED BY <3>3, Zenon DEF Occurred
  <2>4. ASSUME Occurred(i, k) PROVE Occurred(i, k)'
    <3>1. PICK j \in 1..Len(where_list) :
             \E l \in 0..(CalcSizeInBlocks(schedule[j]) - 1) :
               /\ NumOf(j, l) < NumOf(i, k) /\ Visible(j, l)
               /\ BlockSize(schedule[i]) <= BlockSize(schedule[j])
               /\ Block(schedule[j], l) = Block(schedule[i], k)
      BY <2>4 DEF Occurred
    <3>2. PICK l \in 0..(CalcSizeInBlocks(schedule[j]) - 1) :
               /\ NumOf(j, l) < NumOf(i, k) /\ Visible(j, l)
               /\ BlockSize(schedule[i]) <= BlockSize(schedule[j])
               /\ Block(schedule[j], l) = Block(schedule[i], k)
      BY <3>1
    <3>3. /\ j \in 1..Len(where_list') /\ l \in 0..(CalcSizeInBlocks(schedule[j])' - 1)
          /\ NumOf(j, l)' < NumOf(i, k)' /\ Visible(j, l)'
          /\ BlockSize(schedule[i])' <= BlockSize(schedule[j])'
          /\ Block(schedule[j], l)' = Block(schedule[i], k)'
      BY <2>1, <2>2, <3>2
    <3> QED BY <3>3, Zenon DEF Occurred
  <2> QED BY <2>3, <2>4
<1>4. \A w : WhereFind(w)' = WhereFind(w)
  BY DEF WhereFind
<1>5. \A i, k, w : SameData(schedule[i], k, w)' <=> SameData(schedule[i], k, w)
  <2> SUFFICES ASSUME NEW i, NEW k, NEW w
               PROVE  SameData(schedule[i], k, w)' <=> SameData(schedule[i], k, w)
    OBVIOUS
  <2>1. WhereFind(w)' = WhereFind(w)
    BY <1>4
  <2> QED BY <2>1 DEF SameData, BlockSize, Offset, Eat, Data, ReadSource, Block
<1>6. DuplicateHashes' = DuplicateHashes
  <2>1. ScheduledBlocks' = ScheduledBlocks
    BY <1>1 DEF ScheduledBlocks
  <2>2. \A b : Hash(Block(schedule[b[1]], b[2]))' = Hash(Block(schedule[b[1]], b[2]))
    BY <1>1
  <2>3. ASSUME NEW h PROVE h \in DuplicateHashes' <=> h \in DuplicateHashes
    BY <2>1, <2>2 DEF DuplicateHashes
  <2> QED BY <2>3
<1> QED BY <1>1, <1>2, <1>3, <1>5, <1>6

(* Whether the search is a full one is fixed when the flush begins.         *)
LEMMA FullSearchStable ==
    ASSUME UNCHANGED <<input, schedule, loaded, method>>
    PROVE  FullSearch' <=> FullSearch
BY DEF FullSearch

(* The types of the list of hashes.                                         *)
LEMMA HashListType ==
    ASSUME IndInv, HashesKnown
    PROVE  /\ blocks_done \in Nat /\ Len(full_hash_list) = blocks_done
           /\ full_hash_list \in Seq({full_hash_list[w] : w \in DOMAIN full_hash_list})
           /\ \A w \in 0..(blocks_done - 1) : w + 1 \in 1..Len(full_hash_list)
<1>1. blocks_done \in Nat /\ Len(full_hash_list) = blocks_done
  BY PlaceTypes DEF HashesKnown
<1>2. full_hash_list \in Seq({full_hash_list[w] : w \in DOMAIN full_hash_list})
  BY DEF IndInv, IdenticalInv
<1> QED BY <1>1, <1>2

(* The hash of a block that was passed.                                     *)
LEMMA PassedHash ==
    ASSUME IndInv, HashesKnown, NEW i, NEW k, IsBlock(i, k), NumOf(i, k) < blocks_done
    PROVE  /\ NumOf(i, k) \in 0..(blocks_done - 1)
           /\ full_hash_list[NumOf(i, k) + 1] = HashOf(i, k)
           /\ SeenHash(HashOf(i, k))
<1> DEFINE w == NumOf(i, k)
<1>1. w \in Nat /\ i \in 1..Len(where_list) /\ k \in 0..(CalcSizeInBlocks(schedule[i]) - 1)
  BY NumberOfBlock
<1>2. full_hash_list[w + 1] = HashOf(i, k)
  BY <1>1 DEF HashesKnown
<1>3. blocks_done \in Nat /\ w < blocks_done
  BY HashListType
<1> HIDE DEF w
<1>4. w \in 0..(blocks_done - 1)
  BY <1>1, <1>3
<1>5. w + 1 \in 1..Len(full_hash_list)
  BY <1>4, HashListType
<1> QED BY <1>2, <1>4, <1>5 DEF SeenHash, w

(* All_Speedup: the first block with a hash is the one to be moved to the   *)
(* index when the hash is met again.                                        *)
LEMMA FirstEntry ==
    ASSUME IndInv, HashesKnown, method = "All_Speedup", NEW i, NEW k, IsBlock(i, k),
           NumOf(i, k) < blocks_done, Covered(i, k),
           \A e \in blockhashlist : e[1] # HashOf(i, k)
    PROVE  <<HashOf(i, k), NumOf(i, k)>> \in HashListFor(HashOf(i, k))
<1> DEFINE h == HashOf(i, k)
           v == NumOf(i, k)
           n == Len(full_hash_list)
           S == {w \in 0..(n - 1) : full_hash_list[w + 1] = h}
<1>1. HashListFor(h) = blockhashlist \cup {<<h, FirstOf(S, 0)>>}
  BY Zenon DEF HashListFor
<1>2. n = blocks_done /\ n \in Nat
  BY HashListType
<1>3. v \in S
  BY <1>2, PassedHash
<1>4. \A w \in S : w = v
  BY <1>2 DEF Covered
<1>5. S \subseteq Nat
  BY <1>2
<1> HIDE DEF S
<1>6. FirstOf(S, 0) = v
  BY <1>3, <1>4, <1>5, FirstOfInSet
<1> QED BY <1>1, <1>6

(* A passed block with the bytes of the current one makes the search find   *)
(* an identical block, whatever index is used.                              *)
LEMMA Found ==
    ASSUME IndInv, InLoop("identical"), Len(where_list) = item, HasBlock(current, index),
           FullSearch, HashesKnown, AllCovered,
           NEW j, NEW l, IsBlock(j, l), Visible(j, l), NumOf(j, l) < blocks_done,
           BlockSize(current) <= BlockSize(schedule[j]),
           Block(schedule[j], l) = Block(current, index)
    PROVE  \E v \in Others(Block(current, index)) : SameData(current, index, v)
<1> DEFINE d == Block(current, index)
           h == Hash(d)
           w == NumOf(j, l)
<1> SUFFICES \E v \in Others(d) : SameData(current, index, v)
  OBVIOUS
<1>1. /\ IsBlock(item, index) /\ NumOf(item, index) = blocks_done
      /\ current = schedule[item] /\ where_list # <<>>
  BY CurrentInSearch
<1>2. /\ input \in Inputs /\ schedule[j] \in Source /\ l \in Nat /\ HasBlock(schedule[j], l)
      /\ current \in Source /\ index \in Nat
      /\ j \in 1..Len(schedule) /\ item \in 1..Len(schedule)
      /\ j \in 1..Len(where_list) /\ l \in 0..(CalcSizeInBlocks(schedule[j]) - 1)
      /\ index \in 0..(CalcSizeInBlocks(schedule[item]) - 1)
  BY <1>1, NumberOfBlock, PlaceTypes
<1>3. HashOf(j, l) = h /\ HashOf(item, index) = h
  BY <1>1 DEF HashOf
<1>4. UseIndex(d) => \A e \in HashListFor(h) : e[2] \in Nat
  BY OthersAreEarlier DEF InLoop
<1>5. Covered(j, l)
  BY <1>2 DEF AllCovered
<1>6. w \in 0..(blocks_done - 1) /\ full_hash_list[w + 1] = h /\ SeenHash(h)
  BY <1>3, PassedHash
<1>7. ASSUME NEW v \in Nat, SameData(schedule[j], l, v)
      PROVE  SameData(current, index, v)
  BY <1>1, <1>2, <1>7, SameDataLike
<1>8. SameData(schedule[j], l, w)
  BY SameAsItself
<1>9. ASSUME UseIndex(d), NEW e \in HashListFor(h), e[1] = h, SameData(schedule[j], l, e[2])
      PROVE  \E v \in Others(d) : SameData(current, index, v)
  <2>1. e[2] \in Others(d)
    BY <1>9, Zenon DEF Others
  <2>2. e[2] \in Nat
    BY <1>4, <1>9
  <2> QED BY <1>7, <1>9, <2>1, <2>2
<1>10. blockhashlist \subseteq HashListFor(h)
  BY DEF HashListFor
<1>11. ASSUME UseIndex(d), InIndex(j, l)
       PROVE  \E v \in Others(d) : SameData(current, index, v)
  <2>1. PICK e \in blockhashlist : e[1] = h /\ SameData(schedule[j], l, e[2])
    BY <1>3, <1>11 DEF InIndex
  <2> QED BY <1>9, <1>10, <1>11, <2>1
<1> HIDE DEF d, h, w
<1>12. CASE method = "All"
  BY <1>5, <1>11, <1>12 DEF Covered, UseIndex
<1>13. CASE method = "All_Prepass"
  <2>1. item # j \/ index # l
    <3>1. NumOf(j, l) # NumOf(item, index)
      BY <1>1, PlaceTypes, NumberOfBlock
    <3> QED BY <3>1
  <2>2. h \in DuplicateHashes
    BY <1>2, <1>3, <2>1, DuplicateHash
  <2>3. h \in hash_duplicate
    BY <1>13, <2>2 DEF HashesKnown
  <2>4. UseIndex(d) /\ InIndex(j, l)
    BY <1>3, <1>5, <1>13, <2>3 DEF Covered, UseIndex, h
  <2> QED BY <1>11, <2>4
<1>14. CASE method = "All_Speedup"
  <2>1. UseIndex(d)
    BY <1>6, <1>14 DEF UseIndex, h
  <2>2. CASE \E e \in blockhashlist : e[1] = h
    BY <1>3, <1>5, <1>11, <1>14, <2>1, <2>2 DEF Covered
  <2>3. CASE \A e \in blockhashlist : e[1] # h
    <3>1. <<h, w>> \in HashListFor(h)
      BY <1>3, <1>5, <1>14, <2>3, FirstEntry DEF w
    <3> DEFINE e == <<h, w>>
    <3>2. e \in HashListFor(h) /\ e[1] = h /\ e[2] = w
      BY <3>1
    <3> HIDE DEF e
    <3> QED BY <1>8, <1>9, <2>1, <3>2
  <2> QED BY <2>2, <2>3
<1>15. CASE method = "Collect" \/ method = "Collect_Speedup"
  <2>1. ~UseIndex(d) /\ UseList(d)
    BY <1>6, <1>15 DEF UseIndex, UseList, h
  <2>2. w \in Others(d)
    BY <1>6, <2>1 DEF Others, h
  <2>3. w \in Nat
    BY <1>6, PlaceTypes
  <2> QED BY <1>7, <1>8, <2>2, <2>3
<1>16. method \in {"All", "All_Speedup", "All_Prepass", "Collect", "Collect_Speedup"}
  BY DEF FullSearch
<1> QED BY <1>12, <1>13, <1>14, <1>15, <1>16 DEF d

(* What one step of the search does to the index.                           *)
LEMMA IndexGrows ==
    ASSUME IndInv, FindIdentical
    PROVE  LET d == Block(current, index) IN
           /\ blockhashlist \subseteq blockhashlist'
           /\ \A e \in blockhashlist' : e \in blockhashlist \/ (UseIndex(d) /\ e[1] = Hash(d))
           /\ UseIndex(d) => HashListFor(Hash(d)) \subseteq blockhashlist'
           /\ UseIndex(d) /\ Visible(item, index) =>
                 \E e \in blockhashlist' : e[1] = Hash(d) /\ SameData(current, index, e[2])
<1> DEFINE d == Block(current, index)
           h == Hash(d)
           same == {w \in Others(d) : SameData(current, index, w)}
           new == <<h, blocks_done>>
<1>1. /\ IsBlock(item, index) /\ NumOf(item, index) = blocks_done
      /\ current = schedule[item]
  BY CurrentInSearch DEF FindIdentical
<1>2. \/ /\ same # {}
         /\ blockhashlist' = IF UseIndex(d) THEN HashListFor(h) ELSE blockhashlist
      \/ /\ same = {}
         /\ blockhashlist' = IF UseIndex(d) THEN HashListFor(h) \cup {new} ELSE blockhashlist
  BY DEF FindIdentical
<1>3. /\ blockhashlist \subseteq HashListFor(h)
      /\ \A e \in HashListFor(h) : e \in blockhashlist \/ e[1] = h
  BY DEF HashListFor
<1>4. new[1] = h /\ new[2] = blocks_done
  OBVIOUS
<1>5. Visible(item, index) => SameData(current, index, blocks_done)
  BY <1>1, SameAsItself
<1>6. UseIndex(d) => \A w \in same : \E e \in HashListFor(h) : e[1] = h /\ e[2] = w
  BY DEF Others
<1>7. \A w \in same : SameData(current, index, w)
  OBVIOUS
<1> HIDE DEF new, same, h
<1>8. blockhashlist \subseteq blockhashlist'
  BY <1>2, <1>3
<1>9. \A e \in blockhashlist' : e \in blockhashlist \/ (UseIndex(d) /\ e[1] = h)
  BY <1>2, <1>3, <1>4
<1>10. UseIndex(d) => HashListFor(h) \subseteq blockhashlist'
  BY <1>2
<1>11. ASSUME UseIndex(d), Visible(item, index)
       PROVE  \E e \in blockhashlist' : e[1] = h /\ SameData(current, index, e[2])
  <2>1. CASE same # {}
    <3>1. PICK w \in same : TRUE
      BY <2>1
    <3>2. PICK e \in HashListFor(h) : e[1] = h /\ e[2] = w
      BY <1>6, <1>11, <3>1
    <3> QED BY <1>7, <1>10, <1>11, <3>1, <3>2
  <2>2. CASE same = {}
    <3>1. new \in blockhashlist'
      BY <1>2, <1>11, <2>2
    <3> QED BY <1>4, <1>5, <1>11, <3>1
  <2> QED BY <2>1, <2>2
<1> QED BY <1>8, <1>9, <1>10, <1>11 DEF h

(* The search keeps what it knows of the hashes.                            *)
LEMMA FindIdenticalHashes ==
    ASSUME IndInv, FindIdentical, HashesKnown
    PROVE  HashesKnown'
<1> DEFINE d == Block(current, index)
           h == Hash(d)
           n == blocks_done
<1>1. /\ IsBlock(item, index) /\ NumOf(item, index) = n /\ current = schedule[item]
  BY CurrentInSearch DEF FindIdentical
<1>2. /\ full_hash_list' = Append(full_hash_list, h) /\ blocks_done' = n + 1
      /\ UNCHANGED <<input, schedule, where_list, method, hash_duplicate>>
  BY DEF FindIdentical
<1>3. /\ n \in Nat /\ Len(full_hash_list) = n
      /\ full_hash_list \in Seq({full_hash_list[w] : w \in DOMAIN full_hash_list})
  BY HashListType
<1>4. h = HashOf(item, index)
  BY <1>1 DEF HashOf
<1> HIDE DEF h, n
<1>5. /\ Len(full_hash_list') = n + 1 /\ full_hash_list'[n + 1] = h
      /\ \A w \in 1..n : full_hash_list'[w] = full_hash_list[w]
  <2>1. PICK R : R = {full_hash_list[w] : w \in DOMAIN full_hash_list} \cup {h}
    OBVIOUS
  <2>2. full_hash_list \in Seq(R) /\ h \in R
    BY <1>3, <2>1
  <2> QED BY <1>2, <1>3, <2>2
<1>6. ASSUME NEW i \in 1..Len(where_list'), NEW k \in 0..(CalcSizeInBlocks(schedule[i])' - 1),
             NumOf(i, k)' < blocks_done'
      PROVE  full_hash_list'[NumOf(i, k)' + 1] = HashOf(i, k)'
  <2>1. IsBlock(i, k)'
    BY DEF IsBlock
  <2>2. /\ IsBlock(i, k) /\ NumOf(i, k)' = NumOf(i, k) /\ HashOf(i, k)' = HashOf(i, k)
    BY <1>2, <2>1, PlacesStable
  <2>3. NumOf(i, k) \in Nat /\ NumOf(i, k) < n + 1
    BY <1>2, <1>6, <2>2, NumberOfBlock
  <2>4. CASE NumOf(i, k) < n
    <3>1. NumOf(i, k) + 1 \in 1..n
      BY <1>3, <2>3, <2>4
    <3>2. full_hash_list[NumOf(i, k) + 1] = HashOf(i, k)
      BY <2>2, <2>4, PassedHash DEF n
    <3> QED BY <1>5, <2>2, <3>1, <3>2
  <2>5. CASE NumOf(i, k) = n
    <3>1. i = item /\ k = index
      BY <1>1, <2>2, <2>5, BlockOrder
    <3> QED BY <1>4, <1>5, <2>2, <2>5, <3>1
  <2> QED BY <1>3, <2>3, <2>4, <2>5
<1>7. method' = "All_Prepass" => hash_duplicate' = DuplicateHashes'
  <2>1. DuplicateHashes' = DuplicateHashes
    BY <1>2, PlacesStable
  <2> QED BY <1>2, <2>1 DEF HashesKnown
<1>8. ASSUME method' = "All_Speedup", NEW e \in blockhashlist' PROVE SeenHash(e[1])'
  <2>1. e \in blockhashlist \/ e[1] = h
    BY IndexGrows DEF h
  <2>2. CASE e \in blockhashlist
    <3>1. SeenHash(e[1])
      BY <1>2, <1>8, <2>2 DEF HashesKnown
    <3>2. PICK w \in 1..Len(full_hash_list) : full_hash_list[w] = e[1]
      BY <3>1 DEF SeenHash
    <3>3. w \in 1..n /\ w \in 1..Len(full_hash_list')
      BY <1>3, <1>5
    <3>4. full_hash_list'[w] = e[1]
      BY <1>5, <3>2, <3>3
    <3> QED BY <3>3, <3>4 DEF SeenHash
  <2>3. CASE e[1] = h
    <3>1. n + 1 \in 1..Len(full_hash_list')
      BY <1>3, <1>5
    <3> QED BY <1>5, <2>3, <3>1 DEF SeenHash
  <2> QED BY <2>1, <2>2, <2>3
<1>9. Len(full_hash_list') = blocks_done'
  BY <1>2, <1>5
<1> QED BY <1>6, <1>7, <1>8, <1>9 DEF HashesKnown

(* A block the index covers stays covered.                                  *)
LEMMA OldCovered ==
    ASSUME IndInv, FindIdentical, HashesKnown, NEW i, NEW k, IsBlock(i, k), Visible(i, k),
           NumOf(i, k) < blocks_done, Covered(i, k)
    PROVE  Covered(i, k)'
<1> DEFINE d == Block(current, index)
           h == Hash(d)
           n == blocks_done
           g == HashOf(i, k)
<1>1. /\ full_hash_list' = Append(full_hash_list, h) /\ blocks_done' = n + 1
      /\ UNCHANGED <<input, schedule, where_list, method, hash_duplicate>>
  BY DEF FindIdentical
<1>2. /\ NumOf(i, k)' = NumOf(i, k) /\ HashOf(i, k)' = g
      /\ \A w : SameData(schedule[i], k, w)' <=> SameData(schedule[i], k, w)
  BY <1>1, PlacesStable
<1>3. /\ n \in Nat /\ Len(full_hash_list) = n
      /\ full_hash_list \in Seq({full_hash_list[w] : w \in DOMAIN full_hash_list})
  BY HashListType
<1>4. /\ blockhashlist \subseteq blockhashlist'
      /\ \A e \in blockhashlist' : e \in blockhashlist \/ (UseIndex(d) /\ e[1] = h)
      /\ UseIndex(d) => HashListFor(h) \subseteq blockhashlist'
  BY IndexGrows
<1>5. SeenHash(g)
  BY PassedHash
<1>6. SameData(schedule[i], k, NumOf(i, k))
  BY SameAsItself
<1> HIDE DEF h, n, g, d
<1>7. /\ full_hash_list'[n + 1] = h
      /\ \A w \in 1..n : full_hash_list'[w] = full_hash_list[w]
  <2>1. PICK R : R = {full_hash_list[w] : w \in DOMAIN full_hash_list} \cup {h}
    OBVIOUS
  <2>2. full_hash_list \in Seq(R) /\ h \in R
    BY <1>3, <2>1
  <2> QED BY <1>1, <1>3, <2>2
<1>8. InIndex(i, k) => InIndex(i, k)'
  BY <1>2, <1>4 DEF InIndex, g
<1>9. ASSUME method = "All_Speedup", \A e \in blockhashlist : e[1] # g, g = h, UseIndex(d)
      PROVE  InIndex(i, k)'
  <2> DEFINE e == <<g, NumOf(i, k)>>
  <2>1. e \in HashListFor(g)
    BY <1>9, FirstEntry DEF g
  <2>2. e \in blockhashlist' /\ e[1] = g /\ e[2] = NumOf(i, k)
    BY <1>4, <1>9, <2>1
  <2> HIDE DEF e
  <2> QED BY <1>2, <1>6, <2>2 DEF InIndex
<1>10. ASSUME method = "All_Speedup", \E e \in blockhashlist' : e[1] = g
       PROVE  InIndex(i, k)'
  <2>1. CASE \E e \in blockhashlist : e[1] = g
    BY <1>8, <1>10, <2>1 DEF Covered, g
  <2>2. CASE \A e \in blockhashlist : e[1] # g
    <3>1. PICK e \in blockhashlist' : e[1] = g
      BY <1>10
    <3>2. UseIndex(d) /\ g = h
      BY <1>4, <2>2, <3>1
    <3> QED BY <1>9, <1>10, <2>2, <3>2
  <2> QED BY <2>1, <2>2
<1>11. ASSUME method = "All_Speedup", \A e \in blockhashlist' : e[1] # g,
              NEW w \in 0..n, full_hash_list'[w + 1] = g
       PROVE  w = NumOf(i, k)
  <2>1. \A e \in blockhashlist : e[1] # g
    BY <1>4, <1>11
  <2>2. CASE w = n
    <3>1. g = h
      BY <1>7, <1>11, <2>2
    <3>2. UseIndex(d)
      BY <1>5, <1>11, <3>1 DEF UseIndex, h
    <3>3. InIndex(i, k)'
      BY <1>9, <1>11, <2>1, <3>1, <3>2
    <3>4. \E e \in blockhashlist' : e[1] = g
      BY <1>2, <3>3 DEF InIndex
    <3> QED BY <1>11, <3>4
  <2>3. CASE w # n
    <3>1. w \in 0..(n - 1) /\ w + 1 \in 1..n
      BY <1>3, <2>3
    <3>2. full_hash_list[w + 1] = g
      BY <1>7, <1>11, <3>1
    <3> QED BY <1>11, <2>1, <3>1, <3>2 DEF Covered, g, n
  <2> QED BY <2>2, <2>3
<1>12. blocks_done' - 1 = n
  BY <1>1, <1>3
<1>13. /\ method' = "All" => InIndex(i, k)'
       /\ method' = "All_Prepass" /\ HashOf(i, k)' \in hash_duplicate' => InIndex(i, k)'
  BY <1>1, <1>2, <1>8 DEF Covered, g
<1>14. method' = "All_Speedup" /\ (\E e \in blockhashlist' : e[1] = HashOf(i, k)')
          => InIndex(i, k)'
  BY <1>1, <1>2, <1>10
<1>15. method' = "All_Speedup" /\ (\A e \in blockhashlist' : e[1] # HashOf(i, k)')
          => \A w \in 0..(blocks_done' - 1) :
                full_hash_list'[w + 1] = HashOf(i, k)' => w = NumOf(i, k)'
  BY <1>1, <1>2, <1>11, <1>12
<1> QED BY <1>13, <1>14, <1>15 DEF Covered

(* The block the search passes gets covered.                                *)
LEMMA NewCovered ==
    ASSUME IndInv, FindIdentical, HashesKnown, Visible(item, index)
    PROVE  \A i, k : i = item /\ k = index => Covered(i, k)'
<1> SUFFICES ASSUME NEW i, NEW k, i = item, k = index PROVE Covered(i, k)'
  OBVIOUS
<1> DEFINE d == Block(current, index)
           h == Hash(d)
           n == blocks_done
<1>1. /\ IsBlock(i, k) /\ NumOf(i, k) = n /\ current = schedule[i]
  BY CurrentInSearch DEF FindIdentical
<1>2. /\ full_hash_list' = Append(full_hash_list, h) /\ blocks_done' = n + 1
      /\ UNCHANGED <<input, schedule, where_list, method, hash_duplicate>>
  BY DEF FindIdentical
<1>3. /\ NumOf(i, k)' = n /\ HashOf(i, k)' = h
      /\ \A w : SameData(schedule[i], k, w)' <=> SameData(schedule[i], k, w)
  <2>1. HashOf(i, k) = h
    BY <1>1 DEF HashOf
  <2> QED BY <1>1, <1>2, <2>1, PlacesStable
<1>4. /\ n \in Nat /\ Len(full_hash_list) = n
      /\ full_hash_list \in Seq({full_hash_list[w] : w \in DOMAIN full_hash_list})
  BY HashListType
<1>5. /\ \A e \in blockhashlist' : e \in blockhashlist \/ UseIndex(d)
      /\ UseIndex(d) => \E e \in blockhashlist' : e[1] = h /\ SameData(current, index, e[2])
  BY IndexGrows
<1>6. UseIndex(d) => InIndex(i, k)'
  BY <1>1, <1>3, <1>5 DEF InIndex
<1> HIDE DEF h, n, d
<1>7. \A w \in 1..n : full_hash_list'[w] = full_hash_list[w]
  <2>1. PICK R : R = {full_hash_list[w] : w \in DOMAIN full_hash_list} \cup {h}
    OBVIOUS
  <2>2. full_hash_list \in Seq(R) /\ h \in R
    BY <1>4, <2>1
  <2> QED BY <1>2, <1>4, <2>2
<1>8. /\ method' = "All" => InIndex(i, k)'
      /\ method' = "All_Prepass" /\ HashOf(i, k)' \in hash_duplicate' => InIndex(i, k)'
  BY <1>2, <1>3, <1>6 DEF UseIndex, h
<1>9. ASSUME method = "All_Speedup", \E e \in blockhashlist' : e[1] = h
      PROVE  InIndex(i, k)'
  <2>1. SUFFICES ASSUME ~UseIndex(d) PROVE FALSE
    BY <1>6
  <2>2. PICK e \in blockhashlist : e[1] = h
    BY <1>5, <1>9, <2>1
  <2>3. SeenHash(h)
    BY <1>9, <2>2 DEF HashesKnown
  <2> QED BY <1>9, <2>1, <2>3 DEF UseIndex, h
<1>10. ASSUME method = "All_Speedup", \A e \in blockhashlist' : e[1] # h,
              NEW w \in 0..n, full_hash_list'[w + 1] = h
       PROVE  w = n
  <2>1. ~UseIndex(d)
    BY <1>5, <1>10
  <2>2. ~SeenHash(h)
    BY <1>10, <2>1 DEF UseIndex, h
  <2>3. SUFFICES ASSUME w # n PROVE FALSE
    OBVIOUS
  <2>4. w + 1 \in 1..n
    BY <1>4, <2>3
  <2>5. full_hash_list[w + 1] = h
    BY <1>7, <1>10, <2>4
  <2> QED BY <1>4, <2>2, <2>4, <2>5 DEF SeenHash
<1>11. blocks_done' - 1 = n
  BY <1>2, <1>4
<1>12. method' = "All_Speedup" /\ (\E e \in blockhashlist' : e[1] = HashOf(i, k)')
          => InIndex(i, k)'
  BY <1>2, <1>3, <1>9
<1>13. method' = "All_Speedup" /\ (\A e \in blockhashlist' : e[1] # HashOf(i, k)')
          => \A w \in 0..(blocks_done' - 1) :
                full_hash_list'[w + 1] = HashOf(i, k)' => w = NumOf(i, k)'
  BY <1>2, <1>3, <1>10, <1>11
<1> QED BY <1>8, <1>12, <1>13 DEF Covered

(* One block of the search.                                                 *)
LEMMA FindIdenticalSearch ==
    ASSUME IndInv, SearchInv, FoundInv, FindIdentical
    PROVE  SearchInv' /\ FoundInv'
<1> SUFFICES ASSUME FullSearch' PROVE HashesKnown' /\ AllCovered' /\ FoundInv'
  BY DEF SearchInv, FoundInv
<1>1. /\ pass = "identical" /\ pass' = pass /\ blocks_done' = blocks_done + 1
      /\ InLoop("identical") /\ Len(where_list) = item /\ HasBlock(current, index)
      /\ UNCHANGED <<input, schedule, where_list, method, loaded>>
  BY DEF FindIdentical, InLoop
<1>2. FullSearch
  BY <1>1, FullSearchStable
<1>3. HashesKnown /\ AllCovered
  BY <1>1, <1>2 DEF SearchInv
<1>4. HashesKnown'
  BY <1>3, FindIdenticalHashes
<1>5. IsBlock(item, index) /\ NumOf(item, index) = blocks_done /\ current = schedule[item]
  BY <1>1, CurrentInSearch
<1>6. ASSUME NEW i, NEW k, IsBlock(i, k)', NumOf(i, k)' < blocks_done'
      PROVE  /\ IsBlock(i, k) /\ NumOf(i, k) \in Nat
             /\ NumOf(i, k) < blocks_done \/ (i = item /\ k = index)
  <2>1. IsBlock(i, k) /\ NumOf(i, k)' = NumOf(i, k)
    BY <1>1, <1>6, PlacesStable
  <2>2. NumOf(i, k) \in Nat /\ NumOf(i, k) < blocks_done + 1 /\ blocks_done \in Nat
    BY <1>1, <1>6, <2>1, NumberOfBlock, PlaceTypes
  <2>3. NumOf(i, k) < blocks_done \/ NumOf(i, k) = NumOf(item, index)
    BY <1>5, <2>2
  <2> QED BY <1>5, <2>1, <2>2, <2>3, BlockOrder
<1>7. AllCovered'
  <2> SUFFICES ASSUME NEW i \in 1..Len(where_list'),
                      NEW k \in 0..(CalcSizeInBlocks(schedule[i])' - 1),
                      NumOf(i, k)' < blocks_done', Visible(i, k)'
               PROVE  Covered(i, k)'
    BY DEF AllCovered
  <2>1. IsBlock(i, k)'
    BY DEF IsBlock
  <2>2. IsBlock(i, k) /\ (NumOf(i, k) < blocks_done \/ (i = item /\ k = index))
    BY <1>6, <2>1
  <2>3. Visible(i, k)
    BY <1>1, PlacesStable
  <2>4. CASE NumOf(i, k) < blocks_done
    <3>1. i \in 1..Len(where_list) /\ k \in 0..(CalcSizeInBlocks(schedule[i]) - 1)
      BY <2>2 DEF IsBlock
    <3>2. Covered(i, k)
      BY <1>3, <2>3, <2>4, <3>1 DEF AllCovered
    <3> QED BY <1>3, <2>2, <2>3, <2>4, <3>2, OldCovered
  <2>5. CASE i = item /\ k = index
    BY <1>3, <2>3, <2>5, NewCovered
  <2> QED BY <2>2, <2>4, <2>5
<1>8. FoundInv'
  <2> SUFFICES ASSUME NEW i \in 1..Len(where_list'),
                      NEW k \in 0..(CalcSizeInBlocks(schedule[i])' - 1),
                      NumOf(i, k)' < blocks_done', Occurred(i, k)'
               PROVE  \E e \in identical_list' : e[1] = NumOf(i, k)'
    BY <1>1 DEF FoundInv
  <2> DEFINE d == Block(current, index)
             same == {w \in Others(d) : SameData(current, index, w)}
  <2>0. \/ same # {} /\ \E other \in same :
              identical_list' = identical_list \cup {<<blocks_done, other>>}
        \/ same = {} /\ identical_list' = identical_list
    BY DEF FindIdentical
  <2>1. IsBlock(i, k)'
    BY DEF IsBlock
  <2>2. IsBlock(i, k) /\ (NumOf(i, k) < blocks_done \/ (i = item /\ k = index))
    BY <1>6, <2>1
  <2>3. Occurred(i, k) /\ NumOf(i, k)' = NumOf(i, k)
    BY <1>1, PlacesStable
  <2>4. CASE NumOf(i, k) < blocks_done
    <3>1. i \in 1..Len(where_list) /\ k \in 0..(CalcSizeInBlocks(schedule[i]) - 1)
      BY <2>2 DEF IsBlock
    <3>2. PICK e \in identical_list : e[1] = NumOf(i, k)
      BY <1>1, <1>2, <2>3, <2>4, <3>1 DEF FoundInv
    <3>3. e \in identical_list'
      BY <2>0, <3>2
    <3> QED BY <2>3, <3>2, <3>3
  <2>5. CASE i = item /\ k = index
    <3>1. PICK j \in 1..Len(where_list) : \E l \in 0..(CalcSizeInBlocks(schedule[j]) - 1) :
             /\ NumOf(j, l) < NumOf(i, k) /\ Visible(j, l)
             /\ BlockSize(schedule[i]) <= BlockSize(schedule[j])
             /\ Block(schedule[j], l) = Block(schedule[i], k)
      BY <2>3 DEF Occurred
    <3>2. PICK l \in 0..(CalcSizeInBlocks(schedule[j]) - 1) :
             /\ NumOf(j, l) < NumOf(i, k) /\ Visible(j, l)
             /\ BlockSize(schedule[i]) <= BlockSize(schedule[j])
             /\ Block(schedule[j], l) = Block(schedule[i], k)
      BY <3>1
    <3>3. /\ IsBlock(j, l) /\ NumOf(j, l) < blocks_done /\ Visible(j, l)
          /\ BlockSize(current) <= BlockSize(schedule[j])
          /\ Block(schedule[j], l) = Block(current, index)
      BY <1>5, <2>5, <3>2 DEF IsBlock
    <3>4. \E v \in Others(d) : SameData(current, index, v)
      BY <1>1, <1>2, <1>3, <3>3, Found
    <3>5. same # {}
      BY <3>4
    <3> HIDE DEF same
    <3>6. PICK other \in same : identical_list' = identical_list \cup {<<blocks_done, other>>}
      BY <2>0, <3>5
    <3> DEFINE e == <<blocks_done, other>>
    <3>7. e \in identical_list' /\ e[1] = blocks_done
      BY <3>6
    <3>8. NumOf(i, k)' = blocks_done
      BY <1>5, <2>3, <2>5
    <3> HIDE DEF e
    <3> QED BY <3>7, <3>8
  <2> QED BY <2>2, <2>4, <2>5
<1> QED BY <1>4, <1>7, <1>8

(* What the tests say of two blocks depends on where they are found only.   *)
LEMMA SameDataAt ==
    ASSUME input' = input, schedule' = schedule, NEW i, NEW k, NEW w,
           WhereFind(w)' = WhereFind(w)
    PROVE  SameData(schedule[i], k, w)' <=> SameData(schedule[i], k, w)
BY DEF SameData, BlockSize, Offset, Eat, Data, ReadSource, Block

(* A step that leaves the lists and places alone.                           *)
LEMMA SearchKept ==
    ASSUME SearchInv,
           UNCHANGED <<input, method, pass, schedule, loaded, blocks_done, where_list,
                       hash_duplicate, full_hash_list, blockhashlist>>
    PROVE  SearchInv'
<1> SUFFICES ASSUME pass = "identical", FullSearch' PROVE HashesKnown' /\ AllCovered'
  BY DEF SearchInv
<1>1. HashesKnown /\ AllCovered
  BY FullSearchStable DEF SearchInv
<1>2. /\ \A i, k : /\ NumOf(i, k)' = NumOf(i, k) /\ HashOf(i, k)' = HashOf(i, k)
                   /\ Visible(i, k)' <=> Visible(i, k)
                   /\ CalcSizeInBlocks(schedule[i])' = CalcSizeInBlocks(schedule[i])
      /\ \A i, k, w : SameData(schedule[i], k, w)' <=> SameData(schedule[i], k, w)
      /\ DuplicateHashes' = DuplicateHashes
  BY PlacesStable
<1>3. \A h : SeenHash(h)' <=> SeenHash(h)
  BY DEF SeenHash
<1>4. HashesKnown'
  <2>1. ASSUME NEW i \in 1..Len(where_list'), NEW k \in 0..(CalcSizeInBlocks(schedule[i])' - 1),
               NumOf(i, k)' < blocks_done'
        PROVE  full_hash_list'[NumOf(i, k)' + 1] = HashOf(i, k)'
    <3>1. /\ i \in 1..Len(where_list) /\ k \in 0..(CalcSizeInBlocks(schedule[i]) - 1)
          /\ NumOf(i, k) < blocks_done
      BY <1>2, <2>1
    <3>2. full_hash_list[NumOf(i, k) + 1] = HashOf(i, k)
      BY <1>1, <3>1 DEF HashesKnown
    <3> QED BY <1>2, <3>2
  <2>2. /\ Len(full_hash_list') = blocks_done'
        /\ method' = "All_Prepass" => hash_duplicate' = DuplicateHashes'
        /\ method' = "All_Speedup" => \A e \in blockhashlist' : SeenHash(e[1])'
    BY <1>1, <1>2, <1>3 DEF HashesKnown
  <2> QED BY <2>1, <2>2 DEF HashesKnown
<1>5. ASSUME NEW i, NEW k, Covered(i, k) PROVE Covered(i, k)'
  <2>1. NumOf(i, k)' = NumOf(i, k) /\ HashOf(i, k)' = HashOf(i, k)
    BY <1>2
  <2>2. InIndex(i, k) => InIndex(i, k)'
    BY <1>2, <2>1 DEF InIndex
  <2> QED BY <1>5, <2>1, <2>2 DEF Covered
<1>6. AllCovered'
  <2> SUFFICES ASSUME NEW i \in 1..Len(where_list'),
                      NEW k \in 0..(CalcSizeInBlocks(schedule[i])' - 1),
                      NumOf(i, k)' < blocks_done', Visible(i, k)'
               PROVE  Covered(i, k)'
    BY DEF AllCovered
  <2>1. /\ i \in 1..Len(where_list) /\ k \in 0..(CalcSizeInBlocks(schedule[i]) - 1)
        /\ NumOf(i, k) < blocks_done /\ Visible(i, k)
    BY <1>2
  <2>2. Covered(i, k)
    BY <1>1, <2>1 DEF AllCovered
  <2> QED BY <1>5, <2>2
<1> QED BY <1>4, <1>6

(* A step that leaves the recorded reuses alone.                            *)
LEMMA FoundKept ==
    ASSUME FoundInv, UNCHANGED <<input, method, pass, schedule, loaded, where_list, identical_list>>,
           pass = "identical" => blocks_done' = blocks_done
    PROVE  FoundInv'
<1> SUFFICES ASSUME pass # "open", FullSearch', NEW i \in 1..Len(where_list'),
                    NEW k \in 0..(CalcSizeInBlocks(schedule[i])' - 1),
                    pass' = "identical" => NumOf(i, k)' < blocks_done', Occurred(i, k)'
             PROVE  \E e \in identical_list' : e[1] = NumOf(i, k)'
  BY DEF FoundInv
<1>1. FullSearch
  BY FullSearchStable
<1>2. /\ NumOf(i, k)' = NumOf(i, k) /\ Occurred(i, k)
      /\ CalcSizeInBlocks(schedule[i])' = CalcSizeInBlocks(schedule[i])
  BY PlacesStable
<1>3. /\ i \in 1..Len(where_list) /\ k \in 0..(CalcSizeInBlocks(schedule[i]) - 1)
      /\ pass = "identical" => NumOf(i, k) < blocks_done
  BY <1>2
<1>4. \E e \in identical_list : e[1] = NumOf(i, k)
  BY <1>1, <1>2, <1>3 DEF FoundInv
<1> QED BY <1>2, <1>4

(* The flush begins with nothing passed.                                    *)
LEMMA BeginFlushSearch ==
    ASSUME IndInv, BeginFlush
    PROVE  SearchInv' /\ FoundInv'
<1>1. /\ pass = "open" /\ pass' = "identical"
      /\ UNCHANGED <<blocks_done, where_list, full_hash_list, blockhashlist, method>>
      /\ hash_duplicate' = IF method = "All_Prepass" /\ ~loaded' THEN DuplicateHashes' ELSE {}
  BY DEF BeginFlush, loopVars
<1>2. where_list' = <<>> /\ blocks_done' = 0 /\ full_hash_list' = <<>> /\ blockhashlist' = {}
  BY <1>1 DEF IndInv, LoopInv, IdenticalInv
<1>3. Len(where_list') = 0 /\ Len(full_hash_list') = 0
  BY <1>2
<1>4. FullSearch' => ~loaded'
  BY DEF FullSearch
<1>5. FullSearch' => HashesKnown'
  BY <1>1, <1>2, <1>3, <1>4 DEF HashesKnown
<1>6. \A i : i \notin 1..Len(where_list')
  BY <1>3
<1>7. AllCovered' /\ FoundInv'
  BY <1>6 DEF AllCovered, FoundInv
<1> QED BY <1>5, <1>7 DEF SearchInv

(* A new item has no blocks that were passed, and hides none of those that  *)
(* were.                                                                    *)
LEMMA MapItemSearch ==
    ASSUME IndInv, SearchInv, FoundInv, MapItem
    PROVE  SearchInv' /\ FoundInv'
<1> SUFFICES ASSUME FullSearch' PROVE HashesKnown' /\ AllCovered' /\ FoundInv'
  BY DEF SearchInv, FoundInv
<1>1. /\ pass = "identical" /\ pass' = pass /\ Len(where_list) = item - 1
      /\ where_list' = Append(where_list, blocks_done) /\ item <= Len(schedule)
      /\ UNCHANGED <<input, schedule, method, loaded, hash_duplicate, full_hash_list,
                     blockhashlist, identical_list>>
  BY DEF MapItem, InLoop, hashVars
<1>2. FullSearch
  BY <1>1, FullSearchStable
<1>3. blocks_done' = blocks_done
  BY <1>2 DEF MapItem, FullSearch
<1>4. HashesKnown /\ AllCovered
  BY <1>1, <1>2 DEF SearchInv
<1>5. where_list \in Seq(Nat) /\ blocks_done \in Nat /\ item \in Nat \ {0}
      /\ schedule \in Seq(Source) /\ input \in Inputs
  BY PlaceTypes
<1>6. /\ Len(where_list') = item /\ where_list'[item] = blocks_done
      /\ \A i \in 1..Len(where_list) : where_list'[i] = where_list[i]
  BY <1>1, <1>5
<1>7. /\ \A i, k : /\ CalcSizeInBlocks(schedule[i])' = CalcSizeInBlocks(schedule[i])
                   /\ Block(schedule[i], k)' = Block(schedule[i], k)
                   /\ HashOf(i, k)' = HashOf(i, k)
                   /\ Visible(i, k)' <=> Visible(i, k)
  BY <1>1 DEF CalcSizeInBlocks, Block, Offset, Eat, ReadSource, Data, BlockSize, HashOf,
              Visible, Shadowed
<1>8. ASSUME NEW i \in 1..Len(where_list'), NEW k \in 0..(CalcSizeInBlocks(schedule[i])' - 1),
             NumOf(i, k)' < blocks_done'
      PROVE  /\ i \in 1..Len(where_list) /\ k \in 0..(CalcSizeInBlocks(schedule[i]) - 1)
             /\ IsBlock(i, k) /\ NumOf(i, k)' = NumOf(i, k) /\ NumOf(i, k) < blocks_done
  <2>1. k \in 0..(CalcSizeInBlocks(schedule[i]) - 1) /\ i \in 1..item
    BY <1>6, <1>7
  <2>2. CalcSizeInBlocks(schedule[i]) \in Nat
    <3>1. i \in 1..Len(schedule)
      BY <1>1, <1>5, <2>1
    <3> QED BY <1>5, <3>1, SizesType
  <2>3. k \in Nat
    BY <2>1, <2>2
  <2>4. i # item
    <3>1. SUFFICES ASSUME i = item PROVE FALSE
      OBVIOUS
    <3>2. NumOf(i, k)' = blocks_done + k
      BY <1>6, <3>1 DEF NumOf
    <3> QED BY <1>3, <1>5, <1>8, <2>3, <3>2
  <2>5. i \in 1..Len(where_list)
    BY <1>1, <1>5, <2>1, <2>4
  <2>6. NumOf(i, k)' = NumOf(i, k)
    BY <1>6, <2>5 DEF NumOf
  <2> QED BY <1>3, <1>8, <2>1, <2>5, <2>6 DEF IsBlock
<1>9. HashesKnown'
  <2>1. DuplicateHashes' = DuplicateHashes
    <3>1. ScheduledBlocks' = ScheduledBlocks
      BY <1>1, <1>7 DEF ScheduledBlocks
    <3>2. \A b : Hash(Block(schedule[b[1]], b[2]))' = Hash(Block(schedule[b[1]], b[2]))
      BY <1>7
    <3>3. ASSUME NEW h PROVE h \in DuplicateHashes' <=> h \in DuplicateHashes
      BY <3>1, <3>2 DEF DuplicateHashes
    <3> QED BY <3>3
  <2>2. /\ Len(full_hash_list') = blocks_done'
        /\ method' = "All_Prepass" => hash_duplicate' = DuplicateHashes'
        /\ method' = "All_Speedup" => \A e \in blockhashlist' : SeenHash(e[1])'
    BY <1>1, <1>3, <1>4, <2>1 DEF HashesKnown, SeenHash
  <2>3. ASSUME NEW i \in 1..Len(where_list'),
               NEW k \in 0..(CalcSizeInBlocks(schedule[i])' - 1), NumOf(i, k)' < blocks_done'
        PROVE  full_hash_list'[NumOf(i, k)' + 1] = HashOf(i, k)'
    <3>1. /\ i \in 1..Len(where_list) /\ k \in 0..(CalcSizeInBlocks(schedule[i]) - 1)
          /\ NumOf(i, k)' = NumOf(i, k) /\ NumOf(i, k) < blocks_done
      BY <1>8, <2>3
    <3>2. full_hash_list[NumOf(i, k) + 1] = HashOf(i, k)
      BY <1>4, <3>1 DEF HashesKnown
    <3> QED BY <1>1, <1>7, <3>1, <3>2
  <2> QED BY <2>2, <2>3 DEF HashesKnown
<1>10. AllCovered'
  <2> SUFFICES ASSUME NEW i \in 1..Len(where_list'),
                      NEW k \in 0..(CalcSizeInBlocks(schedule[i])' - 1),
                      NumOf(i, k)' < blocks_done', Visible(i, k)'
               PROVE  Covered(i, k)'
    BY DEF AllCovered
  <2>1. /\ i \in 1..Len(where_list) /\ k \in 0..(CalcSizeInBlocks(schedule[i]) - 1)
        /\ NumOf(i, k)' = NumOf(i, k) /\ NumOf(i, k) < blocks_done /\ Visible(i, k)
    BY <1>7, <1>8
  <2>2. Covered(i, k)
    BY <1>4, <2>1 DEF AllCovered
  <2>3. where_list # <<>> /\ where_list[1] = 0
    <3>1. where_list # <<>>
      BY <1>5, <2>1
    <3> QED BY <3>1 DEF IndInv, WhereInv
  <2>4. HashOf(i, k)' = HashOf(i, k)
    BY <1>7
  <2>5. ASSUME InIndex(i, k) PROVE InIndex(i, k)'
    <3>1. PICK e \in blockhashlist : e[1] = HashOf(i, k) /\ SameData(schedule[i], k, e[2])
      BY <2>5 DEF InIndex
    <3> DEFINE w == e[2]
    <3>2. w \in Nat /\ w < blocks_done
      BY <1>1, <3>1 DEF IndInv, IdenticalInv
    <3>3. SameData(schedule[i], k, w)
      BY <3>1
    <3> HIDE DEF w
    <3>4. WhereFind(w)' = WhereFind(w)
      BY <1>1, <1>5, <2>3, <3>2, WhereFindStable
    <3>5. SameData(schedule[i], k, w)'
      BY <1>1, <3>3, <3>4, SameDataAt
    <3> QED BY <1>1, <2>4, <3>1, <3>5 DEF InIndex, w
  <2> QED BY <1>1, <1>3, <2>1, <2>2, <2>4, <2>5 DEF Covered
<1>11. FoundInv'
  <2> SUFFICES ASSUME NEW i \in 1..Len(where_list'),
                      NEW k \in 0..(CalcSizeInBlocks(schedule[i])' - 1),
                      NumOf(i, k)' < blocks_done', Occurred(i, k)'
               PROVE  \E e \in identical_list' : e[1] = NumOf(i, k)'
    BY <1>1 DEF FoundInv
  <2>1. /\ i \in 1..Len(where_list) /\ k \in 0..(CalcSizeInBlocks(schedule[i]) - 1)
        /\ NumOf(i, k)' = NumOf(i, k) /\ NumOf(i, k) < blocks_done /\ IsBlock(i, k)
    BY <1>8
  <2>2. PICK j \in 1..Len(where_list') :
           \E l \in 0..(CalcSizeInBlocks(schedule[j])' - 1) :
             /\ NumOf(j, l)' < NumOf(i, k)' /\ Visible(j, l)'
             /\ BlockSize(schedule[i])' <= BlockSize(schedule[j])'
             /\ Block(schedule[j], l)' = Block(schedule[i], k)'
    BY DEF Occurred
  <2>3. PICK l \in 0..(CalcSizeInBlocks(schedule[j])' - 1) :
             /\ NumOf(j, l)' < NumOf(i, k)' /\ Visible(j, l)'
             /\ BlockSize(schedule[i])' <= BlockSize(schedule[j])'
             /\ Block(schedule[j], l)' = Block(schedule[i], k)'
    BY <2>2
  <2>4. NumOf(j, l)' < blocks_done'
    <3>1. NumOf(i, k) \in Nat /\ NumOf(j, l)' < NumOf(i, k)
      BY <2>1, <2>3, NumberOfBlock
    <3>2. NumOf(j, l)' \in Int
      <4>1. j \in 1..Len(schedule) /\ where_list'[j] \in Nat
        <5>1. j \in 1..item
          BY <1>6
        <5>2. j \in 1..Len(schedule)
          BY <1>1, <1>5, <5>1
        <5>3. where_list' \in Seq(Nat)
          BY <1>1, <1>5
        <5> QED BY <5>2, <5>3, ElementOfSeq
      <4>2. l \in Int
        <5>1. CalcSizeInBlocks(schedule[j]) \in Nat
          BY <1>5, <4>1, SizesType
        <5>2. CalcSizeInBlocks(schedule[j])' \in Nat
          BY <1>7, <5>1
        <5> QED BY <5>2
      <4> QED BY <4>1, <4>2 DEF NumOf
    <3> QED BY <1>3, <1>5, <2>1, <3>1, <3>2
  <2>5. /\ j \in 1..Len(where_list) /\ l \in 0..(CalcSizeInBlocks(schedule[j]) - 1)
        /\ NumOf(j, l)' = NumOf(j, l)
    BY <1>8, <2>4
  <2>6. Occurred(i, k)
    <3>1. /\ BlockSize(schedule[i])' = BlockSize(schedule[i])
          /\ BlockSize(schedule[j])' = BlockSize(schedule[j])
      BY <1>1 DEF BlockSize
    <3>2. BlockSize(schedule[i]) <= BlockSize(schedule[j])
      BY <2>3, <3>1
    <3>3. NumOf(j, l) < NumOf(i, k)
      BY <2>1, <2>3, <2>5
    <3>4. Visible(j, l) /\ Block(schedule[j], l) = Block(schedule[i], k)
      BY <1>7, <2>3
    <3> QED BY <2>5, <3>2, <3>3, <3>4, Zenon DEF Occurred
  <2>7. \E e \in identical_list : e[1] = NumOf(i, k)
    BY <1>1, <1>2, <2>1, <2>6 DEF FoundInv
  <2> QED BY <1>1, <2>1, <2>7
<1> QED BY <1>9, <1>10, <1>11

(* The search ends with all blocks passed.                                  *)
LEMMA EndIdenticalSearch ==
    ASSUME IndInv, FoundInv, EndIdentical
    PROVE  FoundInv'
<1>1. /\ pass = "identical" /\ pass' = "blockify" /\ item > Len(schedule)
      /\ UNCHANGED <<input, method, schedule, loaded, where_list>>
      /\ ~loaded => identical_list' = identical_list
  BY DEF EndIdentical
<1> SUFFICES ASSUME FullSearch', NEW i \in 1..Len(where_list'),
                    NEW k \in 0..(CalcSizeInBlocks(schedule[i])' - 1), Occurred(i, k)'
             PROVE  \E e \in identical_list' : e[1] = NumOf(i, k)'
  BY <1>1 DEF FoundInv
<1>2. FullSearch /\ ~loaded /\ identical_list' = identical_list
  BY <1>1, FullSearchStable DEF FullSearch
<1>3. IsBlock(i, k)'
  BY DEF IsBlock
<1>4. IsBlock(i, k) /\ NumOf(i, k)' = NumOf(i, k) /\ Occurred(i, k)
  BY <1>1, <1>3, PlacesStable
<1>5. NumOf(i, k) < blocks_done
  <2> DEFINE p == item - 1
             a == where_list[i]
             b == where_list[p]
             m == CalcSizeInBlocks(schedule[i])
             n == CalcSizeInBlocks(schedule[p])
  <2>1. /\ i \in 1..Len(where_list) /\ Len(where_list) \in Nat /\ Len(schedule) \in Nat
        /\ Len(where_list) <= Len(schedule) /\ item \in Nat \ {0} /\ k \in 0..(m - 1)
        /\ item <= Len(schedule) + 1 /\ Len(where_list) \in {item - 1, item}
    BY <1>1, <1>4, PlaceTypes DEF IsBlock, IndInv, LoopInv
  <2>2. Len(where_list) = p /\ p \in 1..Len(where_list) /\ i <= p /\ item > 1
    BY <1>1, <2>1
  <2>3. a \in Nat /\ b \in Nat /\ m \in Nat /\ n \in Nat
    BY <2>1, <2>2, PlaceTypes
  <2>4. blocks_done = b + n
    BY <1>1, <2>2 DEF IndInv, LoopInv
  <2>5. i < p => a + m <= b
    BY <2>1, <2>2 DEF IndInv, WhereInv
  <2>6. i = p => a = b /\ m = n
    OBVIOUS
  <2>7. p \in Int /\ i \in Int
    BY <2>1, <2>2
  <2>8. NumOf(i, k) = a + k /\ k \in 0..(m - 1)
    BY <2>1 DEF NumOf
  <2> HIDE DEF p, a, b, m, n
  <2> QED BY <2>2, <2>3, <2>4, <2>5, <2>6, <2>7, <2>8
<1>6. i \in 1..Len(where_list) /\ k \in 0..(CalcSizeInBlocks(schedule[i]) - 1)
  BY <1>4 DEF IsBlock
<1>7. \E e \in identical_list : e[1] = NumOf(i, k)
  BY <1>1, <1>2, <1>4, <1>5, <1>6 DEF FoundInv
<1> QED BY <1>2, <1>4, <1>7

(* Each step keeps what the search knows and what it found.                 *)
LEMMA SearchStep ==
    ASSUME IndInv, SearchInv, FoundInv, [Next]_vars
    PROVE  SearchInv' /\ FoundInv'
<1> USE DEF hashVars, loopVars
<1>1. CASE BeginFlush
  BY <1>1, BeginFlushSearch
<1>2. CASE MapItem
  BY <1>2, MapItemSearch
<1>3. CASE FindIdentical
  BY <1>3, FindIdenticalSearch
<1>4. CASE EndIdentical
  <2>1. pass' = "blockify"
    BY <1>4 DEF EndIdentical
  <2>2. SearchInv'
    BY <2>1 DEF SearchInv
  <2> QED BY <1>4, <2>2, EndIdenticalSearch
<1>5. CASE NextItem \/ UNCHANGED vars
  <2>1. UNCHANGED <<input, method, pass, schedule, loaded, blocks_done, where_list,
                    hash_duplicate, full_hash_list, blockhashlist, identical_list>>
    BY <1>5 DEF NextItem, vars
  <2> QED BY <2>1, SearchKept, FoundKept
<1>6. CASE ReuseIdentical \/ ReuseIndexed \/ WriteBlock
  <2>1. /\ pass = "blockify"
        /\ UNCHANGED <<input, method, pass, schedule, loaded, where_list, identical_list>>
    BY <1>6 DEF ReuseIdentical, ReuseIndexed, WriteBlock, MustPlace, InLoop, PutBlockNumber
  <2>2. SearchInv'
    BY <2>1 DEF SearchInv
  <2> QED BY <2>1, <2>2, FoundKept
<1>7. CASE (\E s \in Source : ScheduleBlockify(s)) \/ EndFlush
  <2>1. pass' = "open"
    BY <1>7 DEF ScheduleBlockify, EndFlush
  <2> QED BY <2>1 DEF SearchInv, FoundInv
<1> QED BY <1>1, <1>2, <1>3, <1>4, <1>5, <1>6, <1>7 DEF Next

-----------------------------------------------------------------------------
(* A block that is found again gets the number of an earlier one.           *)
LEMMA Merged ==
    ASSUME IndInv, LoopEnd, ReuseInv, FoundInv
    PROVE  IdenticalBlocksMerged
<1> SUFFICES ASSUME pass = "blockify", FullSearch, NEW b \in Placed,
                    NEW c \in PlacedBefore(b),
                    BytesOf(c) = BytesOf(b), Comparable(b, c)
             PROVE  \E a \in PlacedBefore(b) : NumberOf(a) = NumberOf(b)
  BY DEF IdenticalBlocksMerged, FullSearch
<1>0. Len(where_list) = Len(schedule)
  BY DEF IndInv, LoopInv
<1>1. ASSUME NEW x \in ScheduledBlocks
      PROVE  x = <<x[1], x[2]>> /\ IsBlock(x[1], x[2])
  <2>1. PICK i \in 1..Len(schedule) :
           \E k \in 0..(CalcSizeInBlocks(schedule[i]) - 1) : x = <<i, k>>
    BY DEF ScheduledBlocks
  <2>2. PICK k \in 0..(CalcSizeInBlocks(schedule[i]) - 1) : x = <<i, k>>
    BY <2>1
  <2>3. x[1] = i /\ x[2] = k
    BY <2>2
  <2> QED BY <1>0, <2>2, <2>3 DEF IsBlock
<1> DEFINE i == b[1]
           k == b[2]
           j == c[1]
           l == c[2]
<1>2. IsBlock(i, k) /\ IsBlock(j, l)
  BY <1>1 DEF PlacedBefore, Placed
<1>3. k < Len(targets[schedule[i]])
  BY DEF Placed
<1>4. j < i \/ (j = i /\ l < k)
  BY DEF PlacedBefore
<1>5. /\ Visible(j, l) /\ Block(schedule[j], l) = Block(schedule[i], k)
      /\ BlockSize(schedule[i]) <= BlockSize(schedule[j])
  BY DEF Visible, BytesOf, Comparable
<1>5a. NumberOf(b) = targets[schedule[i]][k + 1]
  BY DEF NumberOf
<1> HIDE DEF i, k, j, l
<1>6. NumOf(j, l) < NumOf(i, k)
  BY <1>2, <1>4, BlockOrder
<1>7. NumOf(i, k) < blocks_done
  <2>1. schedule[i] \in Source /\ k \in Nat /\ targets \in [Source -> Seq(Nat)]
    BY <1>2, NumberOfBlock DEF IndInv, TypeOK
  <2>2. Len(targets[schedule[i]]) \in Nat
    BY <2>1
  <2>3. k + 1 \in 1..Len(targets[schedule[i]])
    BY <1>3, <2>1, <2>2
  <2> QED BY <1>2, <2>3, BlockPlaced
<1>8. /\ i \in 1..Len(where_list) /\ k \in 0..(CalcSizeInBlocks(schedule[i]) - 1)
      /\ j \in 1..Len(where_list) /\ l \in 0..(CalcSizeInBlocks(schedule[j]) - 1)
  BY <1>2 DEF IsBlock
<1>9. Occurred(i, k)
  BY <1>5, <1>6, <1>8 DEF Occurred
<1>10. PICK e \in identical_list : e[1] = NumOf(i, k)
  BY <1>8, <1>9 DEF FoundInv
<1>11. /\ e[1] - where_list[i] = k /\ e[1] < blocks_done /\ e[1] <= blocks_done
  BY <1>2, <1>7, <1>10, NumberOfBlock, PlaceTypes
<1>12. PICK p, q : /\ IsBlock(p, q) /\ NumOf(p, q) = e[2] /\ e[2] < e[1]
                   /\ WhereFind(e[2]) = [source |-> schedule[p], index |-> q]
                   /\ schedule[p] \in Source /\ q + 1 \in 1..Len(targets[schedule[p]])
  BY <1>8, <1>11, ReusePlaced
<1>13. targets[schedule[i]][k + 1] = targets[WhereFind(e[2]).source][WhereFind(e[2]).index + 1]
  BY <1>8, <1>11 DEF ReuseInv, IdenticalListSound
<1> DEFINE a == <<p, q>>
<1>14. a[1] = p /\ a[2] = q
  OBVIOUS
<1>15. NumberOf(a) = NumberOf(b)
  <2>1. WhereFind(e[2]).source = schedule[p] /\ WhereFind(e[2]).index = q
    BY <1>12
  <2> QED BY <1>5a, <1>13, <1>14, <2>1 DEF NumberOf
<1>16. a \in Placed
  <2>1. a \in ScheduledBlocks
    BY <1>0, <1>12 DEF IsBlock, ScheduledBlocks
  <2>2. q < Len(targets[schedule[p]])
    <3>1. q \in Nat /\ targets \in [Source -> Seq(Nat)]
      BY <1>12, NumberOfBlock DEF IndInv, TypeOK
    <3>2. Len(targets[schedule[p]]) \in Nat
      BY <1>12, <3>1
    <3> QED BY <1>12, <3>1, <3>2
  <2> QED BY <1>14, <2>1, <2>2 DEF Placed
<1>17. p < i \/ (p = i /\ q < k)
  BY <1>2, <1>10, <1>12, BlockOrder
<1>18. a \in PlacedBefore(b)
  BY <1>14, <1>16, <1>17 DEF PlacedBefore, i, k
<1> QED BY <1>15, <1>18

(* What the search and the second loop keep, besides IndInv.                *)
LEMMA LoopsKept == Spec => [](LoopEnd /\ ReuseInv /\ SearchInv /\ FoundInv)
<1> DEFINE Inv == LoopEnd /\ ReuseInv /\ SearchInv /\ FoundInv
<1>1. Init => Inv
  <2> SUFFICES ASSUME Init PROVE Inv
    OBVIOUS
  <2>1. pass = "open" /\ identical_list = {}
    BY DEF Init
  <2> QED BY <2>1 DEF LoopEnd, ReuseInv, IdenticalListSound, SearchInv, FoundInv
<1>2. IndInv /\ Inv /\ [Next]_vars => Inv'
  <2> SUFFICES ASSUME IndInv, Inv, [Next]_vars PROVE Inv'
    OBVIOUS
  <2> QED BY LoopEndStep, ReuseStep, SearchStep
<1> QED BY <1>1, <1>2, Invariance, PTL DEF Spec

(* Both ways to find a block again tell the truth: a recorded reuse leads   *)
(* to the same block number, and an entry of the autoindex to bytes with    *)
(* its hash.                                                                *)
THEOREM IndexesRight == Spec => []IndexesSound
<1>1. ReuseInv /\ AutoindexSound => IndexesSound
  BY DEF ReuseInv, IndexesSound
<1> QED BY <1>1, LoopsKept, AutoindexRight, PTL

(* The search finds every block it compares with: with each of the five     *)
(* full methods, and no saved list, a block whose bytes a comparable block  *)
(* of the same flush had before gets the number of an earlier block, for    *)
(* every hash and all block sizes.  It does not say that equal data is      *)
(* stored once: Comparable leaves out a first block behind an empty source, *)
(* which BlockWhereList::Find misses, and blocks of sources with smaller    *)
(* blocks, which the size test turns down.                                  *)
THEOREM BlocksMerged == Spec => []IdenticalBlocksMerged
<1>1. IndInv /\ LoopEnd /\ ReuseInv /\ FoundInv => IdenticalBlocksMerged
  BY Merged
<1> QED BY <1>1, LoopsKept, Invariance, PTL

=============================================================================
