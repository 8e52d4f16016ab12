--------------------------- MODULE WriteFsProofs ---------------------------
(***************************************************************************)
(* WriteFs, for every number of fblocks, every team and all lengths: no     *)
(* fblock is lost, whatever the user deletes as told and whenever the       *)
(* program is interrupted, and --finish-interrupted does not damage what is *)
(* in the image.                                                            *)
(***************************************************************************)
EXTENDS WriteFs, WellFoundedInduction, TLAPS

-----------------------------------------------------------------------------
(* The inductive invariant.                                                 *)
Inside == {"length", "data", "sync", "tell"}
Busy == Inside \cup {"ordered"}

\* Iterations are handed out once, and the ordered section has one thread.
LoopInv ==
    /\ phase \in {"head", "write", "done", "failed", "crashed", "resume", "resumed"}
    /\ next \in 0..NumFblocks /\ turn \in 0..next
    /\ iter \in [Thread -> Nat] /\ pc \in [Thread -> Busy \cup {"loop", "end"}]
    /\ terminate_for \in BOOLEAN /\ full \in BOOLEAN
    /\ \A t \in Thread : pc[t] \in Busy =>
            /\ iter[t] \in turn..(next - 1)
            /\ \A u \in Thread \ {t} : pc[u] \in Busy => iter[u] # iter[t]
    /\ \A t \in Thread : pc[t] \in Inside => iter[t] = turn
    /\ \A i \in turn..(next - 1) : \E t \in Thread : pc[t] \in Busy /\ iter[t] = i
    /\ \A t \in Thread : pc[t] = "end" => next = NumFblocks
    /\ phase = "head" => turn = 0 /\ \A t \in Thread : pc[t] = "loop"

InputOK ==
    /\ length \in [Fblock -> Nat \ {0}] /\ zeros \in [Fblock -> SUBSET Nat]
    /\ sparse \in BOOLEAN

\* An image with sparse fblocks has FSIZE bytes for each.
FitsFsize(f) == sparse => length[f] <= FSIZE

\* Where the next cell goes.
OffsetInv ==
    /\ (\A t \in Thread : pc[t] \notin Inside) => fblk_offset = FilePos[turn]
    /\ \A t \in Thread :
        /\ pc[t] = "length" => fblk_offset = FilePos[turn]
        /\ pc[t] = "data" => fblk_offset = FilePos[turn] + 1
        /\ pc[t] \in {"sync", "tell"} => fblk_offset = FilePos[turn + 1] /\ FitsFsize(turn)

\* A cell that has been written: a length word, or a data byte in its place.
Placed(p) ==
    \/ p = 0
    \/ \E g \in 0..turn : /\ g < NumFblocks
                          /\ \/ p = FilePos[g]
                             \/ FitsFsize(g) /\ p \in (FilePos[g] + 1)..(FilePos[g] + length[g])

\* The fblocks before the turn are written, the one at turn as far as pc says.
WrittenInv ==
    /\ \A p \in DOMAIN out : Placed(p)
    /\ \A f \in 0..(turn - 1) : FitsFsize(f)
    /\ phase = "write" =>
        /\ 0 \in DOMAIN out
        /\ \A f \in 0..(turn - 1) : PutInImage(out, f)
        /\ \A t \in Thread :
            /\ pc[t] = "data" => /\ FilePos[turn] \in DOMAIN out
                                 /\ out[FilePos[turn]] = LengthWord(length[turn])
            /\ pc[t] \in {"sync", "tell"} => PutInImage(out, turn)
            /\ pc[t] = "tell" => PutInImage(synced, turn)
    /\ phase \in {"write", "done", "crashed"} => \A f \in 0..(turn - 1) : PutInImage(synced, f)

\* Only what was announced is deleted.
FilesInv ==
    /\ invited \subseteq 0..(turn - 1)
    /\ phase \in {"head", "write", "crashed"} => Fblock \ files \subseteq invited
    /\ phase = "done" => turn = NumFblocks

\* The walk of --finish-interrupted stands before a fblock that is kept, at
\* the place of one of the fblocks up to it or in a hole, or behind it.
BehindOf(f) == resume.fblock_pos >= FilePos[f] + HeaderSize + length[f]
AtOneBefore(f) == \E k \in 0..f : resume.fblock_pos = FilePos[k]
InHole(f) == resume.fblock_pos \notin DOMAIN out /\ resume.fblock_pos < FilePos[f]

ResumeInv ==
    /\ kept \subseteq Fblock
    /\ \A f \in kept : 0..f \subseteq kept
    /\ phase \in {"crashed", "resume"} =>
        \A f \in kept : InImage(out, f) /\ FitsFsize(f)
    /\ phase = "crashed" => out = synced
    /\ phase = "resume" =>
        /\ resume.fblock_pos \in Nat \ {0}
        /\ \A f \in kept : BehindOf(f) \/ AtOneBefore(f) \/ InHole(f)
    /\ phase = "resumed" => \A f \in kept : InImage(out, f)

SafeInv == OffsetInv /\ WrittenInv /\ FilesInv /\ ResumeInv

\* Nothing is promised after an error; the loop ends in order even then.
WriteFsInv == InputOK /\ LoopInv /\ (Healthy => SafeInv)

-----------------------------------------------------------------------------
(* FilePos is defined by recursion.  The library's theorems about recursive *)
(* definitions take an operator, so its equation is proved here, from least *)
(* counterexamples: there are functions on 0..n that satisfy it, they agree *)
(* with each other, and together they make one on Nat.                      *)

\* What FilePos is on 0..n, for the first position a and the steps s.
IsPart(g, n, a, s) ==
    g = [i \in 0..n |-> IF i = 0 THEN a ELSE g[i - 1] + s[i - 1]]

\* And what it is altogether.
IsWhole(g, a, s) ==
    g = [n \in Nat |-> IF n = 0 THEN a ELSE g[n - 1] + s[n - 1]]

(* A nonempty set of natural numbers has a least element.                   *)
LEMMA Least ==
    ASSUME NEW S, S \subseteq Nat, S # {}
    PROVE  \E x \in S : \A y \in S : x <= y
<1>1. PICK x \in S : \A y \in S : ~(<<y, x>> \in OpToRel(<, Nat))
  BY WFMin, NatLessThanWellFounded, Zenon
<1>2. ASSUME NEW y \in S PROVE x <= y
  <2>1. ~(<<y, x>> \in Nat \X Nat /\ <<y, x>>[1] < <<y, x>>[2])
    BY <1>1 DEF OpToRel
  <2> QED BY <2>1
<1> QED BY <1>2

(* On each 0..n there is a function that satisfies the equation.            *)
LEMMA PartsExist ==
    ASSUME NEW a, NEW s, NEW n \in Nat
    PROVE  \E g : IsPart(g, n, a, s)
<1> DEFINE S == {k \in Nat : ~ \E g : IsPart(g, k, a, s)}
<1> SUFFICES ASSUME n \in S PROVE FALSE
  OBVIOUS
<1>1. PICK k \in S : \A y \in S : k <= y
  <2>1. S \subseteq Nat /\ S # {}
    OBVIOUS
  <2> HIDE DEF S
  <2> QED BY <2>1, Least
<1>2. CASE k = 0
  <2> DEFINE g == [i \in 0..0 |-> a]
  <2>1. g = [i \in 0..0 |-> IF i = 0 THEN a ELSE g[i - 1] + s[i - 1]]
    OBVIOUS
  <2> HIDE DEF g
  <2> QED BY <1>1, <1>2, <2>1 DEF IsPart
<1>3. CASE k # 0
  <2>1. k - 1 \in Nat /\ k - 1 \notin S
    BY <1>1, <1>3
  <2>2. PICK g : IsPart(g, k - 1, a, s)
    BY <2>1
  <2> DEFINE h == [i \in 0..k |-> IF i = k THEN g[k - 1] + s[k - 1] ELSE g[i]]
  <2>3. h = [i \in 0..k |-> IF i = 0 THEN a ELSE h[i - 1] + s[i - 1]]
    <3>1. \A i \in 0..(k - 1) : g[i] = IF i = 0 THEN a ELSE g[i - 1] + s[i - 1]
      BY <2>2 DEF IsPart
    <3>2. ASSUME NEW i \in 0..k
          PROVE  h[i] = IF i = 0 THEN a ELSE h[i - 1] + s[i - 1]
      BY <1>3, <2>1, <3>1
    <3> QED BY <3>2
  <2> HIDE DEF h
  <2>4. IsPart(h, k, a, s)
    BY <2>3 DEF IsPart
  <2> QED BY <1>1, <2>4
<1> QED BY <1>2, <1>3

(* Two of them agree where both are defined.                                *)
LEMMA PartsAgree ==
    ASSUME NEW a, NEW s, NEW n \in Nat, NEW m \in Nat, NEW g, NEW h,
           IsPart(g, n, a, s), IsPart(h, m, a, s), n <= m
    PROVE  \A i \in 0..n : g[i] = h[i]
<1> DEFINE S == {i \in 0..n : g[i] # h[i]}
<1> SUFFICES ASSUME S # {} PROVE FALSE
  OBVIOUS
<1>1. PICK k \in S : \A y \in S : k <= y
  <2>1. S \subseteq Nat
    OBVIOUS
  <2> HIDE DEF S
  <2> QED BY <2>1, Least
<1>2. /\ g[k] = IF k = 0 THEN a ELSE g[k - 1] + s[k - 1]
      /\ h[k] = IF k = 0 THEN a ELSE h[k - 1] + s[k - 1]
  BY DEF IsPart
<1>3. CASE k = 0
  BY <1>1, <1>2, <1>3
<1>4. CASE k # 0
  <2>1. k - 1 \in 0..n /\ k - 1 \notin S
    BY <1>1, <1>4
  <2> QED BY <1>1, <1>2, <1>4, <2>1
<1> QED BY <1>3, <1>4

(* Together they make a function on Nat that satisfies the equation.        *)
LEMMA PartsTogether ==
    ASSUME NEW a, NEW s
    PROVE  \E g : IsWhole(g, a, s)
<1> DEFINE G(n) == CHOOSE g : IsPart(g, n, a, s)
           f == [n \in Nat |-> G(n)[n]]
<1>1. \A n \in Nat : IsPart(G(n), n, a, s)
  BY PartsExist
<1>2. ASSUME NEW n \in Nat, n # 0 PROVE G(n)[n - 1] = G(n - 1)[n - 1]
  <2>1. n - 1 \in Nat /\ n - 1 <= n /\ n - 1 \in 0..(n - 1)
    BY <1>2
  <2>2. IsPart(G(n), n, a, s) /\ IsPart(G(n - 1), n - 1, a, s)
    BY <1>1, <2>1
  <2> HIDE DEF G
  <2>3. \A i \in 0..(n - 1) : G(n - 1)[i] = G(n)[i]
    BY <2>1, <2>2, PartsAgree
  <2> QED BY <2>1, <2>3
<1>3. ASSUME NEW n \in Nat
      PROVE  f[n] = IF n = 0 THEN a ELSE f[n - 1] + s[n - 1]
  <2>1. G(n)[n] = IF n = 0 THEN a ELSE G(n)[n - 1] + s[n - 1]
    <3> HIDE DEF G
    <3> QED BY <1>1 DEF IsPart
  <2> HIDE DEF G
  <2> QED BY <1>2, <2>1
<1> HIDE DEF G
<1>4. f = [n \in Nat |-> f[n]]
  OBVIOUS
<1> HIDE DEF f
<1>5. IsWhole(f, a, s)
  BY <1>3, <1>4 DEF IsWhole
<1> QED BY <1>5

(* The reader's place for each fblock follows from the one before.          *)
LEMMA FilePosEquation ==
    /\ FilePos[0] = fblktab_offs
    /\ \A f \in Nat : FilePos[f + 1] = FilePos[f] + Stride(f)
<1>0. PICK s : s = [n \in Nat |-> Stride(n)]
  OBVIOUS
<1>1. \E g : g = [n \in Nat |-> IF n = 0 THEN fblktab_offs ELSE g[n - 1] + Stride(n - 1)]
  <2>1. PICK g : IsWhole(g, fblktab_offs, s)
    BY PartsTogether
  <2>2. g = [n \in Nat |-> IF n = 0 THEN fblktab_offs ELSE g[n - 1] + Stride(n - 1)]
    BY <1>0, <2>1 DEF IsWhole
  <2> QED BY <2>2
<1>2. FilePos = [n \in Nat |-> IF n = 0 THEN fblktab_offs ELSE FilePos[n - 1] + Stride(n - 1)]
  BY <1>1 DEF FilePos
<1> QED BY <1>2

-----------------------------------------------------------------------------
(* What follows for the places of the fblocks.                              *)

(* Each fblock takes a cell for its length and at least one more.           *)
LEMMA StrideType ==
    ASSUME InputOK, NEW f \in Fblock
    PROVE  /\ length[f] \in Nat \ {0}
           /\ Stride(f) \in Nat
           /\ FitsFsize(f) => length[f] + 1 <= Stride(f)
<1>1. length[f] \in Nat \ {0}
  BY WriteFsParameters DEF InputOK
<1>2. sparse \in BOOLEAN /\ FSIZE \in Nat \ {0} /\ HeaderSize = 1
  BY WriteFsParameters DEF InputOK
<1>3. CASE sparse
  <2>1. Stride(f) = 1 + FSIZE
    BY <1>2, <1>3 DEF Stride
  <2>2. FitsFsize(f) => length[f] <= FSIZE
    BY <1>3 DEF FitsFsize
  <2> QED BY <1>1, <1>2, <2>1, <2>2
<1>4. CASE ~sparse
  <2>1. Stride(f) = 1 + length[f]
    BY <1>2, <1>4 DEF Stride
  <2> QED BY <1>1, <2>1
<1> QED BY <1>2, <1>3, <1>4

(* The places are behind the superblock.                                    *)
LEMMA FilePosType ==
    ASSUME InputOK, NEW f \in 0..NumFblocks
    PROVE  FilePos[f] \in Nat \ {0}
<1> DEFINE S == {k \in 0..NumFblocks : FilePos[k] \notin Nat \ {0}}
<1> SUFFICES ASSUME S # {} PROVE FALSE
  OBVIOUS
<1>1. PICK k \in S : \A y \in S : k <= y
  <2>1. S \subseteq Nat
    OBVIOUS
  <2> HIDE DEF S
  <2> QED BY <2>1, Least
<1>2. CASE k = 0
  BY <1>1, <1>2, FilePosEquation DEF fblktab_offs
<1>3. CASE k # 0
  <2>1. k - 1 \in 0..NumFblocks /\ k - 1 \notin S /\ k - 1 \in Nat /\ k - 1 \in Fblock
    BY <1>1, <1>3, WriteFsParameters DEF Fblock
  <2>2. FilePos[(k - 1) + 1] = FilePos[k - 1] + Stride(k - 1)
    BY <2>1, FilePosEquation
  <2>3. Stride(k - 1) \in Nat
    BY <2>1, StrideType
  <2>4. (k - 1) + 1 = k
    BY <1>1
  <2> QED BY <1>1, <2>1, <2>2, <2>3, <2>4
<1> QED BY <1>2, <1>3

(* They are apart and in order.                                             *)
LEMMA FilePosMono ==
    ASSUME InputOK, NEW f \in Fblock, NEW g \in 0..NumFblocks, f < g
    PROVE  FilePos[f] + Stride(f) <= FilePos[g]
<1> DEFINE S == {k \in 0..NumFblocks : f < k /\ ~(FilePos[f] + Stride(f) <= FilePos[k])}
<1> SUFFICES ASSUME S # {} PROVE FALSE
  OBVIOUS
<1>0. f \in Nat /\ f \in 0..NumFblocks /\ Stride(f) \in Nat
  BY StrideType, WriteFsParameters DEF Fblock
<1>1. PICK k \in S : \A y \in S : k <= y
  <2>1. S \subseteq Nat
    OBVIOUS
  <2> HIDE DEF S
  <2> QED BY <2>1, Least
<1>2. CASE k = f + 1
  <2>1. FilePos[f + 1] = FilePos[f] + Stride(f)
    BY <1>0, FilePosEquation
  <2>2. FilePos[f] \in Nat
    BY <1>0, FilePosType
  <2> QED BY <1>0, <1>1, <1>2, <2>1, <2>2
<1>3. CASE k # f + 1
  <2>1. k - 1 \in 0..NumFblocks /\ k - 1 \notin S /\ k - 1 \in Nat /\ k - 1 \in Fblock
        /\ f < k - 1
    BY <1>0, <1>1, <1>3, WriteFsParameters DEF Fblock
  <2>2. FilePos[(k - 1) + 1] = FilePos[k - 1] + Stride(k - 1)
    BY <2>1, FilePosEquation
  <2>3. Stride(k - 1) \in Nat
    BY <2>1, StrideType
  <2>4. (k - 1) + 1 = k
    BY <1>1
  <2>5. FilePos[f] \in Nat /\ FilePos[k - 1] \in Nat
    BY <1>0, <2>1, FilePosType
  <2>6. FilePos[f] + Stride(f) <= FilePos[k - 1]
    BY <2>1
  <2> QED BY <1>0, <1>1, <2>2, <2>3, <2>4, <2>5, <2>6
<1> QED BY <1>2, <1>3

(* The cells of two fblocks that fit do not meet.                           *)
LEMMA CellsApart ==
    ASSUME InputOK, NEW f \in Fblock, NEW g \in Fblock, f < g, FitsFsize(f)
    PROVE  FilePos[f] + length[f] < FilePos[g]
<1>1. f \in 0..NumFblocks /\ g \in 0..NumFblocks
  BY WriteFsParameters DEF Fblock
<1>2. FilePos[f] + Stride(f) <= FilePos[g]
  BY <1>1, FilePosMono
<1>3. FilePos[f] \in Nat /\ FilePos[g] \in Nat
  BY <1>1, FilePosType
<1> QED BY <1>2, <1>3, StrideType

(* Nothing but the images depends on the state.                             *)
LEMMA SamePlaces ==
    ASSUME UNCHANGED input
    PROVE  /\ length' = length /\ sparse' = sparse
           /\ FilePos' = FilePos
           /\ \A f : InImage(out, f)' <=> InImage(out', f)
           /\ \A f : PutInImage(out, f)' <=> PutInImage(out', f)
           /\ \A f : PutInImage(synced, f)' <=> PutInImage(synced', f)
           /\ \A f : FitsFsize(f)' <=> FitsFsize(f)
<1>1. length' = length /\ sparse' = sparse /\ zeros' = zeros
  BY DEF input
<1>2. FilePos' = FilePos
  BY <1>1 DEF FilePos, Stride
<1>3. \A f : InImage(out, f)' <=> InImage(out', f)
  BY <1>1, <1>2 DEF InImage, HasBytes, LengthAt, DataIs
<1>4. \A f : PutInImage(out, f)' <=> PutInImage(out', f)
  BY <1>1, <1>2 DEF PutInImage, HasBytes, LengthAt, DataIs, Kept
<1>5. \A f : PutInImage(synced, f)' <=> PutInImage(synced', f)
  BY <1>1, <1>2 DEF PutInImage, HasBytes, LengthAt, DataIs, Kept
<1>6. \A f : FitsFsize(f)' <=> FitsFsize(f)
  BY <1>1 DEF FitsFsize
<1> QED BY <1>1, <1>2, <1>3, <1>4, <1>5, <1>6

(* SparseWrite writes bytes of the fblock.                                  *)
LEMMA KeptBytes ==
    ASSUME NEW f, NEW pos
    PROVE  Kept(f, pos) \subseteq 0..(length[f] - 1)
BY DEF Kept, KeptOffsets

(* Bytes of a fblock in the image, cell by cell.                            *)
LEMMA HasBytesCells ==
    ASSUME NEW img, NEW f \in Fblock, NEW S
    PROVE  HasBytes(img, f, S) <=>
             /\ 0 \in DOMAIN img
             /\ FilePos[f] \in DOMAIN img /\ img[FilePos[f]] = LengthWord(length[f])
             /\ \A i \in S :
                   /\ FilePos[f] + 1 + i \in DOMAIN img
                   /\ img[FilePos[f] + 1 + i] = DataByte(f, i)
BY WriteFsParameters DEF HasBytes, LengthAt, DataIs

(* A change elsewhere leaves them in the image.                             *)
LEMMA ImageKept ==
    ASSUME InputOK, NEW img, NEW new, NEW f \in Fblock,
           NEW S \in SUBSET (0..(length[f] - 1)), HasBytes(img, f, S),
           0 \in DOMAIN img => 0 \in DOMAIN new,
           \A p \in FilePos[f]..(FilePos[f] + length[f]) :
              p \in DOMAIN img => p \in DOMAIN new /\ new[p] = img[p]
    PROVE  HasBytes(new, f, S)
<1>1. FilePos[f] \in Nat /\ length[f] \in Nat \ {0}
  BY FilePosType, StrideType, WriteFsParameters DEF Fblock
<1>2. FilePos[f] \in FilePos[f]..(FilePos[f] + length[f])
  BY <1>1
<1>3. \A i \in S : FilePos[f] + 1 + i \in FilePos[f]..(FilePos[f] + length[f])
  BY <1>1
<1>4. FilePos[f] \in DOMAIN new /\ new[FilePos[f]] = LengthWord(length[f])
  BY <1>2, HasBytesCells
<1>5. ASSUME NEW i \in S
      PROVE  /\ FilePos[f] + 1 + i \in DOMAIN new
             /\ new[FilePos[f] + 1 + i] = DataByte(f, i)
  BY <1>3, HasBytesCells
<1> QED BY <1>4, <1>5, HasBytesCells

-----------------------------------------------------------------------------
(* The loop, step by step.                                                  *)

(* TakeFblock hands out the next iteration.                                 *)
LEMMA TakeLoop ==
    ASSUME LoopInv, NEW t \in Thread, TakeFblock(t)
    PROVE  LoopInv'
<1>1. CASE next < NumFblocks
  <2>0. /\ iter' = [iter EXCEPT ![t] = next] /\ next' = next + 1
        /\ pc' = [pc EXCEPT ![t] = "ordered"] /\ pc[t] = "loop"
        /\ phase' = phase /\ turn' = turn /\ terminate_for' = terminate_for /\ full' = full
        /\ phase = "write"
    BY <1>1 DEF TakeFblock
  <2>1. /\ next \in Nat /\ next + 1 \in 0..NumFblocks /\ turn \in 0..next
        /\ turn \in 0..(next + 1) /\ next \in turn..((next + 1) - 1)
    BY <1>1, WriteFsParameters DEF LoopInv
  <2>2. /\ iter \in [Thread -> Nat] /\ pc \in [Thread -> Busy \cup {"loop", "end"}]
        /\ \A u \in Thread : pc[u] \in Busy => iter[u] \in turn..(next - 1)
        /\ \A u \in Thread : pc[u] \in Busy =>
              \A v \in Thread \ {u} : pc[v] \in Busy => iter[v] # iter[u]
        /\ \A u \in Thread : pc[u] \in Inside => iter[u] = turn
        /\ \A i \in turn..(next - 1) : \E u \in Thread : pc[u] \in Busy /\ iter[u] = i
        /\ \A u \in Thread : pc[u] = "end" => next = NumFblocks
    BY DEF LoopInv
  <2>3. iter' \in [Thread -> Nat] /\ pc' \in [Thread -> Busy \cup {"loop", "end"}]
    BY <2>0, <2>1, <2>2 DEF Busy
  <2>4. \A u \in Thread : u # t => pc'[u] = pc[u] /\ iter'[u] = iter[u]
    BY <2>0, <2>2
  <2>5. pc'[t] = "ordered" /\ iter'[t] = next
    BY <2>0, <2>2
  <2>6. "loop" \notin Busy /\ "ordered" \in Busy /\ "ordered" \notin Inside
    BY DEF Busy, Inside
  <2>7. \A u \in Thread : pc'[u] \in Busy => iter'[u] \in turn..((next + 1) - 1)
    BY <2>1, <2>2, <2>4, <2>5
  <2>8. ASSUME NEW u \in Thread, NEW v \in Thread \ {u}, pc'[u] \in Busy, pc'[v] \in Busy
        PROVE  iter'[v] # iter'[u]
    <3>1. \A w \in Thread : pc[w] \in Busy => iter[w] # next
      BY <2>1, <2>2
    <3> QED BY <2>2, <2>4, <2>5, <2>8, <3>1
  <2>9. \A u \in Thread : pc'[u] \in Inside => iter'[u] = turn
    BY <2>2, <2>4, <2>5, <2>6
  <2>10. ASSUME NEW i \in turn..((next + 1) - 1)
         PROVE  \E u \in Thread : pc'[u] \in Busy /\ iter'[u] = i
    <3>1. CASE i = next
      BY <2>5, <2>6, <3>1
    <3>2. CASE i # next
      <4>1. i \in turn..(next - 1)
        BY <2>1, <3>2
      <4>2. PICK u \in Thread : pc[u] \in Busy /\ iter[u] = i
        BY <2>2, <4>1
      <4> QED BY <2>0, <2>4, <2>6, <4>2
    <3> QED BY <3>1, <3>2
  <2>11. \A u \in Thread : pc'[u] = "end" => next + 1 = NumFblocks
    <3>1. \A u \in Thread : pc[u] # "end"
      BY <1>1, <2>1, <2>2, WriteFsParameters
    <3> QED BY <2>4, <2>5, <3>1
  <2>12. /\ next' = next + 1 /\ turn' = turn /\ next' \in 0..NumFblocks /\ turn' \in 0..next'
         /\ phase' = "write" /\ terminate_for' \in BOOLEAN /\ full' \in BOOLEAN
    BY <2>0, <2>1 DEF LoopInv
  <2> QED BY <2>3, <2>7, <2>8, <2>9, <2>10, <2>11, <2>12 DEF LoopInv
<1>2. CASE ~(next < NumFblocks)
  <2>0. /\ iter' = iter /\ next' = next /\ pc' = [pc EXCEPT ![t] = "end"] /\ pc[t] = "loop"
        /\ phase' = phase /\ turn' = turn /\ terminate_for' = terminate_for /\ full' = full
        /\ phase = "write" /\ next = NumFblocks
    BY <1>2, WriteFsParameters DEF TakeFblock, LoopInv
  <2>6. "loop" \notin Busy /\ "end" \notin Busy /\ "loop" \notin Inside /\ "end" \notin Inside
    BY DEF Busy, Inside
  <2>2. pc \in [Thread -> Busy \cup {"loop", "end"}]
    BY DEF LoopInv
  <2>4. \A u \in Thread : u # t => pc'[u] = pc[u]
    BY <2>0, <2>2
  <2>5. pc'[t] = "end" /\ pc' \in [Thread -> Busy \cup {"loop", "end"}]
    BY <2>0, <2>2
  <2>7. \A u \in Thread : (pc'[u] \in Busy <=> pc[u] \in Busy) /\ (pc'[u] \in Inside <=> pc[u] \in Inside)
    BY <2>0, <2>4, <2>5, <2>6
  <2> QED BY <2>0, <2>5, <2>7 DEF LoopInv
<1> QED BY <1>1, <1>2

(* A thread goes on in the ordered section.                                 *)
LEMMA MoveLoop ==
    ASSUME LoopInv, NEW t \in Thread, pc[t] \in Busy, iter[t] = turn, phase = "write",
           NEW c \in Inside, pc' = [pc EXCEPT ![t] = c],
           UNCHANGED <<phase, next, iter, turn>>,
           terminate_for' \in BOOLEAN, full' \in BOOLEAN
    PROVE  LoopInv'
<1>1. pc \in [Thread -> Busy \cup {"loop", "end"}]
  BY DEF LoopInv
<1>2. c \in Busy /\ c # "end" /\ "end" \notin Busy
  BY DEF Busy, Inside
<1>3. pc' \in [Thread -> Busy \cup {"loop", "end"}]
  BY <1>1, <1>2
<1>4. pc'[t] = c /\ \A u \in Thread : u # t => pc'[u] = pc[u]
  BY <1>1
<1>5. \A u \in Thread : pc'[u] \in Busy <=> pc[u] \in Busy
  BY <1>2, <1>4
<1>6. \A u \in Thread : pc'[u] \in Inside => iter[u] = turn
  BY <1>4 DEF LoopInv
<1>7. \A u \in Thread : pc'[u] = "end" => pc[u] = "end"
  BY <1>2, <1>4
<1> QED BY <1>3, <1>5, <1>6, <1>7 DEF LoopInv

(* A thread leaves the ordered section, which is then open for the next.    *)
LEMMA LeaveLoop ==
    ASSUME LoopInv, NEW t \in Thread, pc[t] \in Busy, iter[t] = turn, phase = "write",
           pc' = [pc EXCEPT ![t] = "loop"], turn' = turn + 1,
           UNCHANGED <<phase, next, iter>>,
           terminate_for' \in BOOLEAN, full' \in BOOLEAN
    PROVE  LoopInv'
<1>0. /\ pc \in [Thread -> Busy \cup {"loop", "end"}]
      /\ next \in 0..NumFblocks /\ turn \in 0..next
      /\ iter \in [Thread -> Nat]
      /\ \A u \in Thread : pc[u] \in Busy => iter[u] \in turn..(next - 1)
      /\ \A u \in Thread : pc[u] \in Busy =>
            \A v \in Thread \ {u} : pc[v] \in Busy => iter[v] # iter[u]
      /\ \A u \in Thread : pc[u] \in Inside => iter[u] = turn
      /\ \A i \in turn..(next - 1) : \E u \in Thread : pc[u] \in Busy /\ iter[u] = i
      /\ \A u \in Thread : pc[u] = "end" => next = NumFblocks
  BY DEF LoopInv
<1>1. turn' \in 0..next
  BY <1>0, WriteFsParameters
<1>2. "loop" \notin Busy /\ "loop" \notin Inside /\ Inside \subseteq Busy
  BY DEF Busy, Inside
<1>3. pc' \in [Thread -> Busy \cup {"loop", "end"}]
  BY <1>0
<1>4. pc'[t] = "loop" /\ \A u \in Thread : u # t => pc'[u] = pc[u]
  BY <1>0
<1>5. \A u \in Thread : pc'[u] \in Busy => u # t /\ pc[u] \in Busy
  BY <1>2, <1>4
<1>6. ASSUME NEW u \in Thread, pc'[u] \in Busy PROVE iter[u] \in turn'..(next - 1)
  <2>1. u # t /\ pc[u] \in Busy /\ iter[u] \in turn..(next - 1) /\ iter[u] # turn
    BY <1>0, <1>5, <1>6
  <2> QED BY <1>0, <2>1, WriteFsParameters
<1>7. \A u \in Thread : pc'[u] \notin Inside
  BY <1>0, <1>2, <1>4, <1>5
<1>8. ASSUME NEW i \in turn'..(next - 1) PROVE \E u \in Thread : pc'[u] \in Busy /\ iter[u] = i
  <2>1. i \in turn..(next - 1) /\ i # turn
    BY <1>0, WriteFsParameters
  <2>2. PICK u \in Thread : pc[u] \in Busy /\ iter[u] = i
    BY <1>0, <2>1
  <2> QED BY <1>4, <2>1, <2>2
<1>9. \A u \in Thread : pc'[u] = "end" => next = NumFblocks
  BY <1>0, <1>4
<1>10. \A u \in Thread : pc'[u] \in Busy =>
            \A v \in Thread \ {u} : pc'[v] \in Busy => iter[v] # iter[u]
  BY <1>0, <1>5
<1>11. next' = next /\ iter' = iter /\ phase' = "write"
  OBVIOUS
<1>12. phase' \in {"head", "write", "done", "failed", "crashed", "resume", "resumed"}
       /\ (phase' = "head" => FALSE)
  BY <1>11
<1> QED
  BY <1>0, <1>1, <1>3, <1>6, <1>7, <1>8, <1>9, <1>10, <1>11, <1>12 DEF LoopInv

(* Steps outside the loop.                                                  *)
LEMMA SameLoop ==
    ASSUME LoopInv, UNCHANGED loopVars,
           phase' \in {"write", "done", "failed", "crashed", "resume", "resumed"}
    PROVE  LoopInv'
BY DEF LoopInv, loopVars

(* So the loop keeps its invariant whatever happens.                        *)
LEMMA LoopStep ==
    ASSUME LoopInv, Next
    PROVE  LoopInv' /\ UNCHANGED input
<1>0. terminate_for \in BOOLEAN /\ full \in BOOLEAN /\ Inside \subseteq Busy
      /\ \A t \in Thread : pc[t] \in Inside => iter[t] = turn
  BY DEF LoopInv, Busy
<1>1. CASE WriteHead
  BY <1>1, SameLoop DEF WriteHead
<1>2. CASE EndLoop
  BY <1>2, SameLoop DEF EndLoop
<1>3. CASE Crash
  BY <1>3, SameLoop DEF Crash
<1>4. CASE BeginResume
  BY <1>4, SameLoop DEF BeginResume
<1>5. CASE ResumeFound
  BY <1>5, SameLoop DEF ResumeFound
<1>6. CASE ResumeMissing
  BY <1>6, SameLoop DEF ResumeMissing
<1>7. ASSUME NEW f \in Fblock, UserDeletes(f) PROVE LoopInv' /\ UNCHANGED input
  BY <1>7, SameLoop DEF UserDeletes
<1>8. ASSUME NEW t \in Thread, ThreadStep(t) PROVE LoopInv' /\ UNCHANGED input
  <2>1. CASE TakeFblock(t)
    BY <2>1, TakeLoop DEF TakeFblock
  <2>2. CASE Verify(t)
    <3>1. phase = "write" /\ pc[t] \in Busy /\ iter[t] = turn /\ UNCHANGED <<phase, next, iter>>
          /\ full' = full /\ UNCHANGED input
      BY <2>2 DEF Verify, Busy
    <3>2. CASE pc' = [pc EXCEPT ![t] = "length"] /\ UNCHANGED <<turn, terminate_for>>
      <4>1. "length" \in Inside /\ UNCHANGED <<phase, next, iter, turn>>
        BY <3>1, <3>2 DEF Inside
      <4> QED BY <1>0, <3>1, <3>2, <4>1, MoveLoop
    <3>3. CASE LeaveOrdered(t, TRUE)
      <4>1. pc' = [pc EXCEPT ![t] = "loop"] /\ turn' = turn + 1 /\ terminate_for' \in BOOLEAN
        BY <3>3 DEF LeaveOrdered
      <4> QED BY <1>0, <3>1, <4>1, LeaveLoop
    <3> QED BY <2>2, <3>2, <3>3 DEF Verify
  <2>3. CASE WriteLength(t)
    <3>1. phase = "write" /\ pc[t] \in Inside /\ UNCHANGED <<phase, next, iter, turn>>
          /\ terminate_for' = terminate_for /\ UNCHANGED input /\ full' \in BOOLEAN
          /\ pc' = [pc EXCEPT ![t] = "data"] /\ "data" \in Inside
      BY <1>0, <2>3 DEF WriteLength, Inside, WriteCells
    <3> QED BY <1>0, <3>1, MoveLoop
  <2>4. CASE WriteData(t)
    <3>1. phase = "write" /\ pc[t] \in Inside /\ UNCHANGED <<phase, next, iter>>
          /\ UNCHANGED input /\ full' \in BOOLEAN
      BY <1>0, <2>4 DEF WriteData, Inside, WriteCells
    <3>2. CASE sparse /\ length[iter[t]] > FSIZE
      <4>1. pc' = [pc EXCEPT ![t] = "loop"] /\ turn' = turn + 1 /\ terminate_for' \in BOOLEAN
        BY <2>4, <3>2 DEF WriteData, LeaveOrdered
      <4> QED BY <1>0, <3>1, <4>1, LeaveLoop
    <3>3. CASE ~(sparse /\ length[iter[t]] > FSIZE)
      <4>1. pc' = [pc EXCEPT ![t] = "sync"] /\ UNCHANGED <<phase, next, iter, turn>>
            /\ terminate_for' = terminate_for /\ "sync" \in Inside
        BY <2>4, <3>3 DEF WriteData, Inside
      <4> QED BY <1>0, <3>1, <4>1, MoveLoop
    <3> QED BY <3>2, <3>3
  <2>5. CASE Sync(t)
    <3>1. phase = "write" /\ pc[t] \in Inside /\ UNCHANGED <<phase, next, iter, turn>>
          /\ terminate_for' = terminate_for /\ UNCHANGED input /\ full' = full
          /\ pc' = [pc EXCEPT ![t] = "tell"] /\ "tell" \in Inside
      BY <2>5 DEF Sync, Inside
    <3> QED BY <1>0, <3>1, MoveLoop
  <2>6. CASE Tell(t)
    <3>1. phase = "write" /\ pc[t] \in Inside /\ UNCHANGED <<phase, next, iter>>
          /\ UNCHANGED input /\ full' = full
          /\ pc' = [pc EXCEPT ![t] = "loop"] /\ turn' = turn + 1 /\ terminate_for' \in BOOLEAN
      BY <1>0, <2>6 DEF Tell, LeaveOrdered, Inside
    <3> QED BY <1>0, <3>1, LeaveLoop
  <2> QED BY <1>8, <2>1, <2>2, <2>3, <2>4, <2>5, <2>6 DEF ThreadStep
<1> QED BY <1>1, <1>2, <1>3, <1>4, <1>5, <1>6, <1>7, <1>8 DEF Next

-----------------------------------------------------------------------------
(* What holds while nothing has gone wrong.                                 *)

(* The thread whose turn it is is alone in the ordered section.             *)
LEMMA AloneInside ==
    ASSUME LoopInv, NEW t \in Thread, pc[t] \in Busy, iter[t] = turn
    PROVE  /\ turn \in Fblock /\ turn \in 0..NumFblocks /\ turn + 1 \in 0..NumFblocks
           /\ \A u \in Thread : u # t => pc[u] \notin Inside
<1>1. turn \in turn..(next - 1) /\ next \in 0..NumFblocks /\ turn \in 0..next
  BY DEF LoopInv
<1>2. Inside \subseteq Busy
  BY DEF Busy
<1>3. \A u \in Thread : u # t => pc[u] \notin Inside
  BY <1>2 DEF LoopInv
<1> QED BY <1>1, <1>3, WriteFsParameters DEF Fblock

(* WriteHead.                                                               *)
LEMMA SafeWriteHead ==
    ASSUME LoopInv, SafeInv, WriteHead
    PROVE  SafeInv'
<1>0. /\ phase = "head" /\ phase' = "write" /\ out' = Cell(0, Superblock)
      /\ UNCHANGED <<length, sparse, next, iter, pc, turn, fblk_offset, synced, files, invited, kept, resume>>
      /\ UNCHANGED input
  BY DEF WriteHead, input, loopVars
<1>1. turn = 0 /\ \A f \in 0..(turn - 1) : FALSE
  BY <1>0 DEF LoopInv
<1>2. \A t \in Thread : pc[t] = "loop"
  BY <1>0 DEF LoopInv
<1>3. DOMAIN out' = {0}
  BY <1>0 DEF Cell
<1>4. OffsetInv'
  BY <1>0, SamePlaces DEF SafeInv, OffsetInv
<1>5. WrittenInv'
  BY <1>0, <1>1, <1>2, <1>3 DEF WrittenInv, Placed
<1>6. FilesInv'
  BY <1>0 DEF SafeInv, FilesInv
<1>7. ResumeInv'
  BY <1>0 DEF SafeInv, ResumeInv
<1> QED BY <1>4, <1>5, <1>6, <1>7 DEF SafeInv

(* TakeFblock.                                                              *)
LEMMA SafeTake ==
    ASSUME LoopInv, SafeInv, NEW t \in Thread, TakeFblock(t)
    PROVE  SafeInv'
<1>0. /\ phase = "write" /\ phase' = "write" /\ pc[t] = "loop"
      /\ UNCHANGED <<length, sparse, turn, fblk_offset, out, synced, files, invited, kept, resume>>
      /\ UNCHANGED input
  BY DEF TakeFblock, input
<1>1. pc \in [Thread -> Busy \cup {"loop", "end"}]
  BY DEF LoopInv
<1>2. \E c \in {"ordered", "end"} : pc' = [pc EXCEPT ![t] = c]
  BY DEF TakeFblock
<1>3. \A u \in Thread : u # t => pc'[u] = pc[u]
  BY <1>1, <1>2
<1>4. pc'[t] \in {"ordered", "end"}
  BY <1>1, <1>2
<1>5. \A u \in Thread : (pc[u] \in Inside \/ pc'[u] \in Inside) => pc'[u] = pc[u]
  BY <1>0, <1>3, <1>4 DEF Inside
<1>6. OffsetInv'
  BY <1>0, <1>5, SamePlaces DEF SafeInv, OffsetInv, Inside
<1>7. WrittenInv'
  <2>1. \A p : Placed(p)' <=> Placed(p)
    BY <1>0, SamePlaces DEF Placed
  <2>2. \A f : (PutInImage(out, f)' <=> PutInImage(out, f)) /\ (PutInImage(synced, f)' <=> PutInImage(synced, f))
             /\ (FitsFsize(f)' <=> FitsFsize(f))
    BY <1>0, SamePlaces
  <2>3. \A u \in Thread : pc'[u] \in {"data", "sync", "tell"} => pc'[u] = pc[u]
    BY <1>5 DEF Inside
  <2> QED BY <1>0, <2>1, <2>2, <2>3, SamePlaces DEF SafeInv, WrittenInv
<1>8. FilesInv'
  BY <1>0 DEF SafeInv, FilesInv
<1>9. ResumeInv'
  BY <1>0 DEF SafeInv, ResumeInv
<1> QED BY <1>6, <1>7, <1>8, <1>9 DEF SafeInv

(* Verify, if the fblock is good.                                           *)
LEMMA SafeVerify ==
    ASSUME LoopInv, SafeInv, Healthy', NEW t \in Thread, Verify(t)
    PROVE  SafeInv'
<1>0. /\ phase = "write" /\ phase' = "write" /\ pc[t] = "ordered" /\ iter[t] = turn
      /\ pc' = [pc EXCEPT ![t] = "length"]
      /\ UNCHANGED <<length, sparse, turn, fblk_offset, out, synced, files, invited, kept, resume>>
      /\ UNCHANGED input
  BY DEF Verify, input, LeaveOrdered, Healthy
<1>1. pc \in [Thread -> Busy \cup {"loop", "end"}] /\ pc[t] \in Busy
  BY <1>0 DEF LoopInv, Busy
<1>2. \A u \in Thread : u # t => pc'[u] = pc[u] /\ pc'[u] \notin Inside
  BY <1>0, <1>1, AloneInside
<1>3. pc'[t] = "length"
  BY <1>0, <1>1
<1>4. \A u \in Thread : pc[u] \notin Inside
  BY <1>0, <1>1, AloneInside DEF Inside
<1>5. \A u \in Thread : pc'[u] \notin {"data", "sync", "tell"}
  BY <1>2, <1>3 DEF Inside
<1>6. OffsetInv'
  <2>1. fblk_offset = FilePos[turn]
    BY <1>4 DEF SafeInv, OffsetInv
  <2> QED BY <1>0, <1>5, <2>1, SamePlaces DEF OffsetInv
<1>7. WrittenInv'
  <2>1. \A p : Placed(p)' <=> Placed(p)
    BY <1>0, SamePlaces DEF Placed
  <2>2. \A f : (PutInImage(out, f)' <=> PutInImage(out, f)) /\ (PutInImage(synced, f)' <=> PutInImage(synced, f))
             /\ (FitsFsize(f)' <=> FitsFsize(f))
    BY <1>0, SamePlaces
  <2> QED BY <1>0, <1>5, <2>1, <2>2, SamePlaces DEF SafeInv, WrittenInv
<1>8. FilesInv'
  BY <1>0 DEF SafeInv, FilesInv
<1>9. ResumeInv'
  BY <1>0 DEF SafeInv, ResumeInv
<1> QED BY <1>6, <1>7, <1>8, <1>9 DEF SafeInv

(* What is written behind the place of a later fblock leaves an earlier one.*)
LEMMA BeforeKept ==
    ASSUME InputOK, NEW f \in Fblock, NEW g \in Fblock, f < g, FitsFsize(f),
           NEW img, PutInImage(img, f),
           NEW cells, \A p \in DOMAIN cells : p \in Nat /\ FilePos[g] <= p
    PROVE  PutInImage(Over(cells, img), f)
<1>1. FilePos[f] + length[f] < FilePos[g]
  BY CellsApart
<1>2. FilePos[f] \in Nat /\ FilePos[g] \in Nat \ {0} /\ length[f] \in Nat
  BY FilePosType, StrideType, WriteFsParameters DEF Fblock
<1>3. \A p \in FilePos[f]..(FilePos[f] + length[f]) : p \notin DOMAIN cells
  BY <1>1, <1>2
<1>4. \A p \in FilePos[f]..(FilePos[f] + length[f]) :
        p \in DOMAIN img => p \in DOMAIN Over(cells, img) /\ Over(cells, img)[p] = img[p]
  BY <1>3 DEF Over
<1>5. 0 \in DOMAIN img => 0 \in DOMAIN Over(cells, img)
  BY DEF Over
<1>6. Kept(f, FilePos[f] + HeaderSize) \subseteq 0..(length[f] - 1)
  BY KeptBytes
<1>7. HasBytes(img, f, Kept(f, FilePos[f] + HeaderSize))
  BY DEF PutInImage
<1> HIDE DEF Kept
<1>8. HasBytes(Over(cells, img), f, Kept(f, FilePos[f] + HeaderSize))
  BY <1>4, <1>5, <1>6, <1>7, ImageKept
<1> QED BY <1>8 DEF PutInImage

(* WriteLength.                                                             *)
LEMMA SafeWriteLength ==
    ASSUME InputOK, LoopInv, SafeInv, Healthy', NEW t \in Thread, WriteLength(t)
    PROVE  SafeInv'
<1>0. /\ phase = "write" /\ phase' = "write" /\ pc[t] = "length" /\ iter[t] = turn
      /\ pc' = [pc EXCEPT ![t] = "data"] /\ fblk_offset' = fblk_offset + 1
      /\ out' = Over(Cell(fblk_offset, LengthWord(length[turn])), out)
      /\ UNCHANGED <<length, sparse, turn, synced, files, invited, kept, resume>>
      /\ UNCHANGED input
  BY WriteFsParameters DEF WriteLength, WriteCells, input, LoopInv, Inside, Healthy
<1>1. pc \in [Thread -> Busy \cup {"loop", "end"}] /\ pc[t] \in Busy
  BY <1>0 DEF LoopInv, Busy, Inside
<1>2. turn \in Fblock /\ turn \in 0..NumFblocks
  BY <1>0, <1>1, AloneInside
<1>3. \A u \in Thread : u # t => pc'[u] = pc[u] /\ pc'[u] \notin Inside
  BY <1>0, <1>1, AloneInside
<1>4. pc'[t] = "data"
  BY <1>0, <1>1
<1>5. \A u \in Thread : pc'[u] \notin {"length", "sync", "tell"}
  BY <1>3, <1>4 DEF Inside
<1>6. fblk_offset = FilePos[turn] /\ FilePos[turn] \in Nat \ {0}
  BY <1>0, <1>2, FilePosType DEF SafeInv, OffsetInv
<1>7. OffsetInv'
  BY <1>0, <1>4, <1>5, <1>6, SamePlaces DEF OffsetInv, Inside
<1>8. /\ DOMAIN out' = DOMAIN out \cup {FilePos[turn]}
      /\ out'[FilePos[turn]] = LengthWord(length[turn])
  BY <1>0, <1>6 DEF Over, Cell
<1>9. WrittenInv'
  <2>1. \A p \in DOMAIN out' : Placed(p)'
    <3>1. \A p : Placed(p)' <=> Placed(p)
      BY <1>0, SamePlaces DEF Placed
    <3>2. \A p \in DOMAIN out : Placed(p)
      BY DEF SafeInv, WrittenInv
    <3>3. Placed(FilePos[turn])
      <4>1. turn \in 0..turn /\ turn < NumFblocks
        BY <1>2, WriteFsParameters DEF Fblock
      <4> QED BY <4>1 DEF Placed
    <3> QED BY <1>8, <3>1, <3>2, <3>3
  <2>2. \A f \in 0..(turn - 1) : FitsFsize(f) /\ FitsFsize(f)'
    BY <1>0, SamePlaces DEF SafeInv, WrittenInv
  <2>3. ASSUME NEW f \in 0..(turn - 1) PROVE PutInImage(out', f)
    <3>1. f \in Fblock /\ f < turn /\ FitsFsize(f) /\ PutInImage(out, f)
      BY <1>0, <1>2, <2>2, WriteFsParameters DEF SafeInv, WrittenInv, Fblock
    <3>2. \A p \in DOMAIN Cell(fblk_offset, LengthWord(length[turn])) :
             p \in Nat /\ FilePos[turn] <= p
      BY <1>6 DEF Cell
    <3>3. PutInImage(Over(Cell(fblk_offset, LengthWord(length[turn])), out), f)
      BY <1>2, <3>1, <3>2, BeforeKept
    <3> QED BY <1>0, <3>3
  <2>4. \A f \in 0..(turn - 1) : PutInImage(synced', f)
    BY <1>0 DEF SafeInv, WrittenInv
  <2>5. 0 \in DOMAIN out'
    BY <1>0, <1>8 DEF SafeInv, WrittenInv
  <2> QED BY <1>0, <1>5, <1>8, <2>1, <2>2, <2>3, <2>4, <2>5, SamePlaces DEF WrittenInv
<1>10. FilesInv'
  BY <1>0 DEF SafeInv, FilesInv
<1>11. ResumeInv'
  BY <1>0 DEF SafeInv, ResumeInv
<1> QED BY <1>7, <1>9, <1>10, <1>11 DEF SafeInv

(* WriteData, if the fblock fits.                                           *)
LEMMA SafeWriteData ==
    ASSUME InputOK, LoopInv, SafeInv, Healthy', NEW t \in Thread, WriteData(t)
    PROVE  SafeInv'
<1>0. /\ phase = "write" /\ phase' = "write" /\ pc[t] = "data" /\ iter[t] = turn
      /\ ~(sparse /\ length[turn] > FSIZE)
      /\ pc' = [pc EXCEPT ![t] = "sync"]
      /\ fblk_offset' = fblk_offset + IF sparse THEN FSIZE ELSE length[turn]
      /\ out' = Over(DataCells(turn, fblk_offset), out)
      /\ UNCHANGED <<length, sparse, turn, synced, files, invited, kept, resume>>
      /\ UNCHANGED input
  BY DEF WriteData, WriteCells, input, LoopInv, Inside, Healthy, LeaveOrdered
<1>1. pc \in [Thread -> Busy \cup {"loop", "end"}] /\ pc[t] \in Busy
  BY <1>0 DEF LoopInv, Busy, Inside
<1>2. turn \in Fblock /\ turn \in 0..NumFblocks /\ turn \in Nat
  BY <1>0, <1>1, AloneInside DEF Fblock
<1>3. \A u \in Thread : u # t => pc'[u] = pc[u] /\ pc'[u] \notin Inside
  BY <1>0, <1>1, AloneInside
<1>4. pc'[t] = "sync"
  BY <1>0, <1>1
<1>5. \A u \in Thread : pc'[u] \notin {"length", "data", "tell"}
  BY <1>3, <1>4 DEF Inside
<1>6. fblk_offset = FilePos[turn] + 1 /\ FilePos[turn] \in Nat \ {0}
  BY <1>0, <1>2, FilePosType DEF SafeInv, OffsetInv
<1>7. FitsFsize(turn) /\ length[turn] \in Nat \ {0} /\ FSIZE \in Nat /\ sparse \in BOOLEAN
  <2>1. length[turn] \in Nat \ {0} /\ FSIZE \in Nat /\ sparse \in BOOLEAN
    BY <1>2, StrideType, WriteFsParameters DEF InputOK
  <2> QED BY <1>0, <2>1 DEF FitsFsize
<1>8. fblk_offset' = FilePos[turn + 1]
  <2>1. FilePos[turn + 1] = FilePos[turn] + Stride(turn)
    BY <1>2, FilePosEquation
  <2>2. CASE sparse
    <3>1. Stride(turn) = 1 + FSIZE /\ fblk_offset' = (FilePos[turn] + 1) + FSIZE
      BY <1>0, <1>6, <2>2, WriteFsParameters DEF Stride
    <3> QED BY <1>6, <1>7, <2>1, <3>1
  <2>3. CASE ~sparse
    <3>1. Stride(turn) = 1 + length[turn] /\ fblk_offset' = (FilePos[turn] + 1) + length[turn]
      BY <1>0, <1>6, <2>3, WriteFsParameters DEF Stride
    <3> QED BY <1>6, <1>7, <2>1, <3>1
  <2> QED BY <1>7, <2>2, <2>3
<1>9. OffsetInv'
  BY <1>0, <1>4, <1>5, <1>7, <1>8, SamePlaces DEF OffsetInv, Inside
<1> DEFINE cells == DataCells(turn, fblk_offset)
           kb == Kept(turn, FilePos[turn] + 1)
           data == {FilePos[turn] + 1 + i : i \in kb}
<1>20. kb \subseteq 0..(length[turn] - 1)
  BY KeptBytes
<1>10. DOMAIN cells = data /\ \A p \in data : cells[p] = DataByte(turn, p - (FilePos[turn] + 1))
  BY <1>6 DEF DataCells
<1> HIDE DEF cells, kb
<1>21. \A p \in data : p \in (FilePos[turn] + 1)..(FilePos[turn] + length[turn])
  BY <1>6, <1>7, <1>20
<1>11. DOMAIN out' = DOMAIN out \cup data
  BY <1>0, <1>10 DEF cells, Over
<1>12. \A p \in data : out'[p] = DataByte(turn, p - (FilePos[turn] + 1))
  BY <1>0, <1>10 DEF cells, Over
<1>13. FilePos[turn] \notin data
  BY <1>6, <1>7, <1>21
<1>14. FilePos[turn] \in DOMAIN out' /\ out'[FilePos[turn]] = LengthWord(length[turn])
  <2>1. FilePos[turn] \in DOMAIN out /\ out[FilePos[turn]] = LengthWord(length[turn])
    BY <1>0 DEF SafeInv, WrittenInv
  <2>2. FilePos[turn] \in DOMAIN out'
    BY <1>11, <2>1
  <2>3. FilePos[turn] \notin DOMAIN cells
    BY <1>10, <1>13
  <2> HIDE DEF data
  <2> QED BY <1>0, <2>1, <2>2, <2>3 DEF cells, Over
<1>15. 0 \in DOMAIN out'
  BY <1>0, <1>11 DEF SafeInv, WrittenInv
<1>16. PutInImage(out', turn)
  <2>1. ASSUME NEW i \in kb
        PROVE  /\ FilePos[turn] + 1 + i \in DOMAIN out'
               /\ out'[FilePos[turn] + 1 + i] = DataByte(turn, i)
    <3>1. /\ FilePos[turn] + 1 + i \in data
          /\ (FilePos[turn] + 1 + i) - (FilePos[turn] + 1) = i
      BY <1>6, <1>20
    <3> HIDE DEF data
    <3> QED BY <1>11, <1>12, <3>1
  <2>2. HasBytes(out', turn, kb)
    BY <1>2, <1>14, <1>15, <2>1, HasBytesCells
  <2>3. kb = Kept(turn, FilePos[turn] + HeaderSize)
    BY WriteFsParameters DEF kb
  <2> QED BY <2>2, <2>3 DEF PutInImage
<1>17. WrittenInv'
  <2>1. \A p \in DOMAIN out' : Placed(p)'
    <3>1. \A p : Placed(p)' <=> Placed(p)
      BY <1>0, SamePlaces DEF Placed
    <3>2. \A p \in DOMAIN out : Placed(p)
      BY DEF SafeInv, WrittenInv
    <3>3. \A p \in data : Placed(p)
      <4>1. turn \in 0..turn /\ turn < NumFblocks
        BY <1>2, WriteFsParameters DEF Fblock
      <4> QED BY <1>7, <1>21, <4>1 DEF Placed
    <3> HIDE DEF data
    <3> QED BY <1>11, <3>1, <3>2, <3>3
  <2>2. \A f \in 0..(turn - 1) : FitsFsize(f) /\ FitsFsize(f)'
    BY <1>0, SamePlaces DEF SafeInv, WrittenInv
  <2>3. ASSUME NEW f \in 0..(turn - 1) PROVE PutInImage(out', f)
    <3>1. f \in Fblock /\ f < turn /\ FitsFsize(f) /\ PutInImage(out, f)
      BY <1>0, <1>2, <2>2, WriteFsParameters DEF SafeInv, WrittenInv, Fblock
    <3>2. \A p \in DOMAIN cells : p \in Nat /\ FilePos[turn] <= p
      BY <1>6, <1>7, <1>10, <1>21
    <3>3. PutInImage(Over(cells, out), f)
      BY <1>2, <3>1, <3>2, BeforeKept
    <3> QED BY <1>0, <3>3 DEF cells
  <2>4. \A f \in 0..(turn - 1) : PutInImage(synced', f)
    BY <1>0 DEF SafeInv, WrittenInv
  <2> QED BY <1>0, <1>5, <1>15, <1>16, <2>1, <2>2, <2>3, <2>4, SamePlaces DEF WrittenInv
<1>18. FilesInv'
  BY <1>0 DEF SafeInv, FilesInv
<1>19. ResumeInv'
  BY <1>0 DEF SafeInv, ResumeInv
<1> QED BY <1>9, <1>17, <1>18, <1>19 DEF SafeInv

(* Sync.                                                                    *)
LEMMA SafeSync ==
    ASSUME LoopInv, SafeInv, NEW t \in Thread, Sync(t)
    PROVE  SafeInv'
<1>0. /\ phase = "write" /\ phase' = "write" /\ pc[t] = "sync" /\ iter[t] = turn
      /\ pc' = [pc EXCEPT ![t] = "tell"] /\ synced' = out
      /\ UNCHANGED <<length, sparse, turn, fblk_offset, out, files, invited, kept, resume>>
      /\ UNCHANGED input
  BY DEF Sync, DataSync, input, LoopInv, Inside
<1>1. pc \in [Thread -> Busy \cup {"loop", "end"}] /\ pc[t] \in Busy
  BY <1>0 DEF LoopInv, Busy, Inside
<1>2. \A u \in Thread : u # t => pc'[u] = pc[u] /\ pc'[u] \notin Inside
  BY <1>0, <1>1, AloneInside
<1>3. pc'[t] = "tell"
  BY <1>0, <1>1
<1>4. \A u \in Thread : pc'[u] \notin {"length", "data", "sync"}
  BY <1>2, <1>3 DEF Inside
<1>5. fblk_offset = FilePos[turn + 1] /\ FitsFsize(turn)
  BY <1>0 DEF SafeInv, OffsetInv
<1>6. OffsetInv'
  BY <1>0, <1>3, <1>4, <1>5, SamePlaces DEF OffsetInv, Inside
<1>7. WrittenInv'
  <2>1. \A p : Placed(p)' <=> Placed(p)
    BY <1>0, SamePlaces DEF Placed
  <2>2. \A p \in DOMAIN out : Placed(p)
    BY DEF SafeInv, WrittenInv
  <2>3. \A f \in 0..(turn - 1) : FitsFsize(f)' /\ PutInImage(out, f)
    BY <1>0, SamePlaces DEF SafeInv, WrittenInv
  <2>4. PutInImage(out, turn) /\ 0 \in DOMAIN out
    BY <1>0 DEF SafeInv, WrittenInv
  <2> QED BY <1>0, <1>4, <2>1, <2>2, <2>3, <2>4, SamePlaces DEF WrittenInv
<1>8. FilesInv'
  BY <1>0 DEF SafeInv, FilesInv
<1>9. ResumeInv'
  BY <1>0 DEF SafeInv, ResumeInv
<1> QED BY <1>6, <1>7, <1>8, <1>9 DEF SafeInv

(* Tell.                                                                    *)
LEMMA SafeTell ==
    ASSUME LoopInv, SafeInv, NEW t \in Thread, Tell(t)
    PROVE  SafeInv'
<1>0. /\ phase = "write" /\ phase' = "write" /\ pc[t] = "tell" /\ iter[t] = turn
      /\ pc' = [pc EXCEPT ![t] = "loop"] /\ turn' = turn + 1
      /\ invited' = invited \cup {turn}
      /\ UNCHANGED <<length, sparse, fblk_offset, out, synced, files, kept, resume>>
      /\ UNCHANGED input
  BY DEF Tell, LeaveOrdered, input, LoopInv, Inside
<1>1. pc \in [Thread -> Busy \cup {"loop", "end"}] /\ pc[t] \in Busy
  BY <1>0 DEF LoopInv, Busy, Inside
<1>2. \A u \in Thread : u # t => pc'[u] = pc[u] /\ pc'[u] \notin Inside
  BY <1>0, <1>1, AloneInside
<1>3. pc'[t] = "loop"
  BY <1>0, <1>1
<1>4. \A u \in Thread : pc'[u] \notin {"length", "data", "sync", "tell"}
  BY <1>2, <1>3 DEF Inside
<1>5. fblk_offset = FilePos[turn + 1] /\ FitsFsize(turn)
  BY <1>0 DEF SafeInv, OffsetInv
<1>6. turn \in Nat /\ turn + 1 - 1 = turn
  BY <1>0, <1>1, AloneInside, WriteFsParameters
<1>7. OffsetInv'
  BY <1>0, <1>4, <1>5, SamePlaces DEF OffsetInv, Inside
<1>8. WrittenInv'
  <2>1. ASSUME NEW p, Placed(p) PROVE Placed(p)'
    <3>1. 0..turn \subseteq 0..(turn + 1)
      BY <1>6
    <3> QED BY <1>0, <2>1, <3>1, SamePlaces DEF Placed
  <2>2. \A p \in DOMAIN out : Placed(p)
    BY DEF SafeInv, WrittenInv
  <2>3. \A f \in 0..(turn - 1) : FitsFsize(f)' /\ PutInImage(out, f) /\ PutInImage(synced, f)
    BY <1>0, SamePlaces DEF SafeInv, WrittenInv
  <2>4. PutInImage(out, turn) /\ PutInImage(synced, turn) /\ 0 \in DOMAIN out
    BY <1>0 DEF SafeInv, WrittenInv
  <2>5. \A f \in 0..turn : f = turn \/ f \in 0..(turn - 1)
    BY <1>6
  <2>6. \A f \in 0..(turn' - 1) : FitsFsize(f)' /\ PutInImage(out, f) /\ PutInImage(synced, f)
    <3>1. turn' - 1 = turn
      BY <1>0, <1>6
    <3>2. \A f \in 0..turn : FitsFsize(f)' <=> FitsFsize(f)
      BY <1>0, SamePlaces
    <3> QED BY <1>5, <2>3, <2>4, <2>5, <3>1, <3>2
  <2>7. \A u \in Thread : pc'[u] # "data" /\ pc'[u] \notin {"sync", "tell"} /\ pc'[u] # "tell"
    BY <1>4
  <2> QED BY <1>0, <2>1, <2>2, <2>4, <2>6, <2>7, SamePlaces DEF WrittenInv
<1>9. FilesInv'
  <2>1. invited \subseteq 0..(turn - 1) /\ Fblock \ files \subseteq invited
    BY <1>0 DEF SafeInv, FilesInv
  <2>2. invited' \subseteq 0..(turn' - 1)
    BY <1>0, <1>6, <2>1
  <2> QED BY <1>0, <2>1, <2>2 DEF FilesInv
<1>10. ResumeInv'
  BY <1>0 DEF SafeInv, ResumeInv
<1> QED BY <1>7, <1>8, <1>9, <1>10 DEF SafeInv

(* UserDeletes.                                                             *)
LEMMA SafeUserDeletes ==
    ASSUME SafeInv, NEW f \in Fblock, UserDeletes(f)
    PROVE  SafeInv'
<1>0. /\ phase' = phase /\ f \in invited /\ files' = files \ {f}
      /\ UNCHANGED <<length, sparse, pc, turn, fblk_offset, out, synced, invited, kept, resume>>
      /\ UNCHANGED input
  BY DEF UserDeletes, input, loopVars
<1>1. OffsetInv'
  BY <1>0, SamePlaces DEF SafeInv, OffsetInv
<1>2. WrittenInv'
  <2>1. \A p : Placed(p)' <=> Placed(p)
    BY <1>0, SamePlaces DEF Placed
  <2>2. \A g : (PutInImage(out, g)' <=> PutInImage(out, g)) /\ (PutInImage(synced, g)' <=> PutInImage(synced, g))
             /\ (FitsFsize(g)' <=> FitsFsize(g))
    BY <1>0, SamePlaces
  <2> QED BY <1>0, <2>1, <2>2, SamePlaces DEF SafeInv, WrittenInv
<1>3. FilesInv'
  BY <1>0 DEF SafeInv, FilesInv
<1>4. ResumeInv'
  BY <1>0, SamePlaces DEF SafeInv, ResumeInv, BehindOf, AtOneBefore, InHole
<1> QED BY <1>1, <1>2, <1>3, <1>4 DEF SafeInv

(* EndLoop.                                                                 *)
LEMMA SafeEndLoop ==
    ASSUME LoopInv, SafeInv, Healthy, EndLoop
    PROVE  SafeInv'
<1>0. /\ phase = "write" /\ phase' = "done" /\ \A t \in Thread : pc[t] = "end"
      /\ out' = [p \in {q \in DOMAIN out : q < fblk_offset} |-> out[p]]
      /\ UNCHANGED <<length, sparse, pc, turn, fblk_offset, synced, invited, kept, resume>>
      /\ UNCHANGED input
  BY DEF EndLoop, input, loopVars, Healthy
<1>1. turn = NumFblocks
  <2>1. next = NumFblocks
    BY <1>0, WriteFsParameters DEF LoopInv
  <2>2. turn \in 0..next /\ next \in Nat
    BY <2>1, WriteFsParameters DEF LoopInv
  <2>3. turn..(next - 1) = {}
    BY <1>0 DEF LoopInv, Busy, Inside
  <2>4. turn < next => turn \in turn..(next - 1)
    BY <2>2
  <2> QED BY <2>1, <2>2, <2>3, <2>4
<1>2. OffsetInv'
  BY <1>0, SamePlaces DEF SafeInv, OffsetInv
<1>3. WrittenInv'
  <2>1. \A p : Placed(p)' <=> Placed(p)
    BY <1>0, SamePlaces DEF Placed
  <2>2. \A g : (PutInImage(synced, g)' <=> PutInImage(synced, g)) /\ (FitsFsize(g)' <=> FitsFsize(g))
    BY <1>0, SamePlaces
  <2>3. DOMAIN out' \subseteq DOMAIN out
    BY <1>0
  <2> QED BY <1>0, <2>1, <2>2, <2>3 DEF SafeInv, WrittenInv
<1>4. FilesInv'
  BY <1>0, <1>1 DEF SafeInv, FilesInv
<1>5. ResumeInv'
  BY <1>0 DEF SafeInv, ResumeInv
<1> QED BY <1>2, <1>3, <1>4, <1>5 DEF SafeInv

(* What is in the image up to a fblock fits: its first data byte has a      *)
(* place, and that can only be its own.                                     *)
LEMMA KeptFits ==
    ASSUME InputOK, LoopInv, SafeInv, NEW f \in Fblock, Placed(FilePos[f] + 1)
    PROVE  FitsFsize(f)
<1>0. f \in Nat /\ f \in 0..NumFblocks /\ f < NumFblocks /\ FilePos[f] \in Nat \ {0}
      /\ turn \in Nat
  BY FilePosType, WriteFsParameters DEF Fblock, LoopInv
<1>1. CASE f < turn
  BY <1>0, <1>1 DEF SafeInv, WrittenInv
<1>2. CASE ~(f < turn)
  <2>1. PICK g \in 0..turn :
            /\ g < NumFblocks
            /\ \/ FilePos[f] + 1 = FilePos[g]
               \/ FitsFsize(g) /\ FilePos[f] + 1 \in (FilePos[g] + 1)..(FilePos[g] + length[g])
    <3>1. FilePos[f] + 1 # 0
      BY <1>0
    <3> QED BY <3>1 DEF Placed
  <2>2. g \in Fblock /\ g \in 0..NumFblocks /\ (g < f \/ g = f)
    BY <1>0, <1>2, <2>1, WriteFsParameters DEF Fblock
  <2>3. FilePos[g] \in Nat /\ length[g] \in Nat /\ Stride(g) \in Nat
    BY <2>2, FilePosType, StrideType
  <2>4. CASE g = f
    BY <1>0, <2>1, <2>4
  <2>5. CASE g < f
    <3>1. FilePos[g] + Stride(g) <= FilePos[f]
      BY <1>0, <2>2, <2>5, FilePosMono
    <3>2. FitsFsize(g) => FilePos[g] + length[g] < FilePos[f]
      BY <2>2, <2>5, CellsApart
    <3> QED BY <1>0, <2>1, <2>3, <3>1, <3>2
  <2> QED BY <2>2, <2>4, <2>5
<1> QED BY <1>1, <1>2

(* Crash.                                                                   *)
LEMMA SafeCrash ==
    ASSUME InputOK, LoopInv, SafeInv, Crash
    PROVE  SafeInv'
<1>0. /\ phase \in {"head", "write"} /\ phase' = "crashed" /\ out' = synced'
      /\ UNCHANGED <<length, sparse, pc, turn, fblk_offset, files, invited, resume>>
      /\ UNCHANGED input
      /\ kept' = {f \in Fblock : \A g \in 0..f : InImage(synced', g)}
  BY DEF Crash, input, loopVars
<1>1. PICK lost \in SUBSET {p \in DOMAIN out : p \notin DOMAIN synced \/ synced[p] # out[p]} :
          synced' = [p \in {q \in DOMAIN out : q \notin lost \/ q \in DOMAIN synced} |->
                            IF p \in lost THEN synced[p] ELSE out[p]]
  BY DEF Crash
<1>2. DOMAIN synced' \subseteq DOMAIN out
  BY <1>1
<1>3. \A p \in DOMAIN out : p \in DOMAIN synced /\ synced[p] = out[p] =>
          p \in DOMAIN synced' /\ synced'[p] = out[p]
  BY <1>1
<1>4. OffsetInv'
  BY <1>0, SamePlaces DEF SafeInv, OffsetInv
<1>5. ASSUME NEW f \in 0..(turn - 1) PROVE PutInImage(synced', f)
  <2> DEFINE kb == Kept(f, FilePos[f] + HeaderSize)
  <2>1. phase = "write" /\ f \in Fblock
    BY <1>0, WriteFsParameters DEF LoopInv, Fblock
  <2>2. HasBytes(out, f, kb) /\ HasBytes(synced, f, kb)
    BY <2>1 DEF SafeInv, WrittenInv, PutInImage
  <2> HIDE DEF kb
  <2>3. FilePos[f] \in DOMAIN synced' /\ synced'[FilePos[f]] = LengthWord(length[f])
    BY <1>3, <2>1, <2>2, HasBytesCells
  <2>4. ASSUME NEW i \in kb
        PROVE  /\ FilePos[f] + 1 + i \in DOMAIN synced'
               /\ synced'[FilePos[f] + 1 + i] = DataByte(f, i)
    BY <1>3, <2>1, <2>2, HasBytesCells
  <2>5. ASSUME 0 \notin DOMAIN synced' PROVE FALSE
    \* A cell at 0 that was synced is there whatever was lost.
    <3>1. 0 \in DOMAIN out /\ 0 \in DOMAIN synced
      BY <2>1, <2>2, HasBytesCells
    <3> QED BY <1>1, <2>5, <3>1
  <2>6. HasBytes(synced', f, kb)
    BY <2>1, <2>3, <2>4, <2>5, HasBytesCells
  <2> QED BY <2>6 DEF PutInImage, kb
<1>6. \A p \in DOMAIN out' : Placed(p)
  BY <1>0, <1>2 DEF SafeInv, WrittenInv
<1>7. WrittenInv'
  <2>1. \A p : Placed(p)' <=> Placed(p)
    BY <1>0, SamePlaces DEF Placed
  <2>2. \A f \in 0..(turn - 1) : FitsFsize(f)'
    BY <1>0, SamePlaces DEF SafeInv, WrittenInv
  <2> QED BY <1>0, <1>5, <1>6, <2>1, <2>2, SamePlaces DEF WrittenInv
<1>8. FilesInv'
  BY <1>0 DEF SafeInv, FilesInv
<1>9. ResumeInv'
  <2>1. ASSUME NEW f \in kept' PROVE 0..f \subseteq kept'
    <3>1. f \in Fblock /\ \A g \in 0..f : InImage(synced', g)
      BY <1>0
    <3>2. ASSUME NEW g \in 0..f PROVE g \in Fblock /\ 0..g \subseteq 0..f
      BY <3>1, WriteFsParameters DEF Fblock
    <3> QED BY <1>0, <3>1, <3>2
  <2>2. ASSUME NEW f \in kept' PROVE InImage(out', f) /\ FitsFsize(f)
    <3>1. f \in Fblock /\ f \in 0..f
      BY <1>0, WriteFsParameters DEF Fblock
    <3>2. InImage(out', f)
      BY <1>0, <3>1
    <3>3. FilePos[f] + 1 + 0 \in DOMAIN out' /\ 0 \in 0..(length[f] - 1)
      <4>1. 0 \in 0..(length[f] - 1)
        BY <3>1, StrideType
      <4> QED BY <3>1, <3>2, <4>1, HasBytesCells DEF InImage
    <3>4. FilePos[f] + 1 + 0 = FilePos[f] + 1
      <4>1. FilePos[f] \in Nat
        BY <3>1, FilePosType, WriteFsParameters DEF Fblock
      <4> QED BY <4>1
    <3>5. Placed(FilePos[f] + 1)
      BY <1>6, <3>3, <3>4
    <3> QED BY <3>1, <3>2, <3>5, KeptFits
  <2>3. kept' \subseteq Fblock
    BY <1>0
  <2> QED BY <1>0, <2>1, <2>2, <2>3, SamePlaces DEF ResumeInv
<1> QED BY <1>4, <1>7, <1>8, <1>9 DEF SafeInv

(* BeginResume.                                                             *)
LEMMA SafeBeginResume ==
    ASSUME SafeInv, BeginResume
    PROVE  SafeInv'
<1>0. /\ phase = "crashed" /\ phase' = "resume" /\ resume'.fblock_pos = fblktab_offs
      /\ UNCHANGED <<length, sparse, pc, turn, fblk_offset, out, synced, files, invited, kept>>
      /\ UNCHANGED input
  BY DEF BeginResume, input, loopVars
<1>1. OffsetInv'
  BY <1>0, SamePlaces DEF SafeInv, OffsetInv
<1>2. WrittenInv'
  <2>1. \A p : Placed(p)' <=> Placed(p)
    BY <1>0, SamePlaces DEF Placed
  <2>2. \A f : FitsFsize(f)' <=> FitsFsize(f)
    BY <1>0, SamePlaces
  <2> QED BY <1>0, <2>1, <2>2 DEF SafeInv, WrittenInv
<1>3. FilesInv'
  BY <1>0 DEF SafeInv, FilesInv
<1>4. ResumeInv'
  <2>1. ASSUME NEW f \in kept PROVE AtOneBefore(f)'
    <3>1. 0 \in 0..f
      BY WriteFsParameters DEF SafeInv, ResumeInv, Fblock
    <3>2. resume'.fblock_pos = FilePos[0]
      BY <1>0, FilePosEquation
    <3> QED BY <1>0, <3>1, <3>2, SamePlaces DEF AtOneBefore
  <2>2. resume'.fblock_pos \in Nat \ {0}
    BY <1>0 DEF fblktab_offs
  <2>3. /\ kept \subseteq Fblock /\ \A f \in kept : 0..f \subseteq kept
        /\ \A f \in kept : InImage(out, f) /\ FitsFsize(f)
    BY <1>0 DEF SafeInv, ResumeInv
  <2> QED BY <1>0, <2>1, <2>2, <2>3, SamePlaces DEF ResumeInv
<1> QED BY <1>1, <1>2, <1>3, <1>4 DEF SafeInv

(* The hole between the data of a fblock and the next one stays a hole.     *)
LEMMA HoleEmpty ==
    ASSUME InputOK, LoopInv, NEW k \in Fblock, NEW p \in Nat,
           FilePos[k] + length[k] < p, p < FilePos[k] + Stride(k)
    PROVE  ~Placed(p)
<1> SUFFICES ASSUME Placed(p) PROVE FALSE
  OBVIOUS
<1>0. FilePos[k] \in Nat \ {0} /\ length[k] \in Nat \ {0} /\ Stride(k) \in Nat /\ k \in Nat
      /\ k \in 0..NumFblocks
  BY FilePosType, StrideType, WriteFsParameters DEF Fblock
<1>1. PICK g \in 0..turn :
          /\ g < NumFblocks
          /\ \/ p = FilePos[g]
             \/ FitsFsize(g) /\ p \in (FilePos[g] + 1)..(FilePos[g] + length[g])
  <2>1. p # 0
    BY <1>0
  <2> QED BY <2>1 DEF Placed
<1>2. g \in Nat /\ g \in Fblock /\ g \in 0..NumFblocks
  BY <1>1, WriteFsParameters DEF LoopInv, Fblock
<1>3. FilePos[g] \in Nat \ {0} /\ length[g] \in Nat \ {0} /\ Stride(g) \in Nat
  BY <1>2, FilePosType, StrideType
<1>4. CASE g = k
  BY <1>0, <1>1, <1>4
<1>5. CASE g < k
  <2>1. FilePos[g] + Stride(g) <= FilePos[k]
    BY <1>0, <1>2, <1>5, FilePosMono
  <2>2. FitsFsize(g) => FilePos[g] + length[g] < FilePos[k]
    BY <1>2, <1>5, CellsApart
  <2> QED BY <1>0, <1>1, <1>3, <2>1, <2>2
<1>6. CASE k < g
  <2>1. FilePos[k] + Stride(k) <= FilePos[g]
    BY <1>2, <1>6, FilePosMono
  <2> QED BY <1>0, <1>1, <1>3, <2>1
<1> QED BY <1>0, <1>2, <1>4, <1>5, <1>6

(* ResumeFound: from the place of a fblock the walk goes to the next place  *)
(* or, in a sparse image, into the hole before it, where it is to stop.     *)
LEMMA SafeResumeFound ==
    ASSUME InputOK, LoopInv, SafeInv, ResumeFound
    PROVE  SafeInv'
<1>0. /\ phase = "resume" /\ phase' = "resume"
      /\ UNCHANGED <<length, sparse, pc, turn, fblk_offset, out, synced, files, invited, kept>>
      /\ UNCHANGED input
  BY DEF ResumeFound, input, loopVars
<1> DEFINE pos == resume.fblock_pos
<1>1. PICK g \in {h \in Fblock : LengthAt(out, h, pos)} : resume'.fblock_pos = pos + 1 + length[g]
  BY WriteFsParameters DEF ResumeFound
<1>2. /\ kept \subseteq Fblock /\ \A f \in kept : 0..f \subseteq kept
      /\ \A f \in kept : InImage(out, f) /\ FitsFsize(f)
      /\ pos \in Nat \ {0}
      /\ \A f \in kept : BehindOf(f) \/ AtOneBefore(f) \/ InHole(f)
  BY <1>0 DEF SafeInv, ResumeInv
<1>3. /\ g \in Fblock /\ length[g] \in Nat \ {0}
      /\ pos \in DOMAIN out /\ out[pos] = LengthWord(length[g])
  BY StrideType DEF LengthAt
<1>4. resume'.fblock_pos \in Nat \ {0} /\ resume'.fblock_pos > pos
  BY <1>1, <1>2, <1>3
<1>5. OffsetInv'
  BY <1>0, SamePlaces DEF SafeInv, OffsetInv
<1>6. WrittenInv'
  <2>1. \A p : Placed(p)' <=> Placed(p)
    BY <1>0, SamePlaces DEF Placed
  <2>2. \A f : FitsFsize(f)' <=> FitsFsize(f)
    BY <1>0, SamePlaces
  <2> QED BY <1>0, <2>1, <2>2 DEF SafeInv, WrittenInv
<1>7. FilesInv'
  BY <1>0 DEF SafeInv, FilesInv
<1>8. ASSUME NEW f \in kept PROVE BehindOf(f)' \/ AtOneBefore(f)' \/ InHole(f)'
  <2>0. /\ f \in Fblock /\ f \in Nat /\ f \in 0..NumFblocks /\ FilePos[f] \in Nat
        /\ length[f] \in Nat \ {0}
    BY <1>2, FilePosType, StrideType, WriteFsParameters DEF Fblock
  <2>1. CASE BehindOf(f)
    <3>1. resume'.fblock_pos >= FilePos[f] + 1 + length[f]
      BY <1>2, <1>4, <2>0, <2>1, WriteFsParameters DEF BehindOf
    <3> QED BY <1>0, <3>1, SamePlaces, WriteFsParameters DEF BehindOf
  <2>2. CASE AtOneBefore(f)
    <3>1. PICK k \in 0..f : pos = FilePos[k]
      BY <2>2 DEF AtOneBefore
    <3>2. k \in kept /\ k \in Fblock /\ k \in Nat /\ k \in 0..NumFblocks
      BY <1>2, <2>0, WriteFsParameters DEF Fblock
    <3>3. FilePos[k] \in Nat /\ length[k] \in Nat \ {0} /\ FitsFsize(k) /\ Stride(k) \in Nat
      BY <1>2, <3>2, FilePosType, StrideType
    <3>4. length[g] = length[k]
      <4>1. out[pos] = LengthWord(length[k])
        BY <1>2, <3>1, <3>2, HasBytesCells DEF InImage
      <4>2. LengthWord(length[g]).n = LengthWord(length[k]).n
        BY <1>3, <4>1
      <4> QED BY <4>2 DEF LengthWord
    <3>5. resume'.fblock_pos = FilePos[k] + 1 + length[k]
      BY <1>1, <3>1, <3>4
    <3>6. CASE k = f
      <4>1. resume'.fblock_pos >= FilePos[f] + 1 + length[f]
        BY <2>0, <3>5, <3>6
      <4> QED BY <1>0, <4>1, SamePlaces, WriteFsParameters DEF BehindOf
    <3>7. CASE k < f
      <4>1. FilePos[k] + Stride(k) <= FilePos[f]
        BY <2>0, <3>2, <3>7, FilePosMono
      <4>2. length[k] + 1 <= Stride(k)
        BY <3>2, <3>3, StrideType
      <4>3. CASE length[k] + 1 = Stride(k)
        <5>1. FilePos[k + 1] = FilePos[k] + Stride(k)
          BY <3>2, FilePosEquation
        <5>2. resume'.fblock_pos = FilePos[k + 1] /\ k + 1 \in 0..f
          BY <2>0, <3>2, <3>3, <3>5, <3>7, <4>3, <5>1
        <5> QED BY <1>0, <5>2, SamePlaces DEF AtOneBefore
      <4>4. CASE length[k] + 1 # Stride(k)
        <5>1. /\ FilePos[k] + length[k] < resume'.fblock_pos
              /\ resume'.fblock_pos < FilePos[k] + Stride(k)
              /\ resume'.fblock_pos < FilePos[f]
          BY <2>0, <3>3, <3>5, <4>1, <4>2, <4>4
        <5>2. ~Placed(resume'.fblock_pos)
          BY <1>4, <3>2, <5>1, HoleEmpty
        <5>3. resume'.fblock_pos \notin DOMAIN out
          BY <5>2 DEF SafeInv, WrittenInv
        <5> QED BY <1>0, <5>1, <5>3, SamePlaces DEF InHole
      <4> QED BY <4>3, <4>4
    <3> QED BY <2>0, <3>2, <3>6, <3>7
  <2>3. CASE InHole(f)
    BY <1>3, <2>3 DEF InHole
  <2> QED BY <1>2, <2>1, <2>2, <2>3
<1>9. ResumeInv'
  BY <1>0, <1>2, <1>4, <1>8, SamePlaces DEF ResumeInv
<1> QED BY <1>5, <1>6, <1>7, <1>9 DEF SafeInv

(* ResumeMissing: the image is cut behind all that is kept, or not at all.  *)
LEMMA SafeResumeMissing ==
    ASSUME InputOK, LoopInv, SafeInv, ResumeMissing
    PROVE  SafeInv'
<1>0. /\ phase = "resume" /\ phase' = "resumed"
      /\ UNCHANGED <<length, sparse, pc, turn, fblk_offset, invited, kept, resume>>
      /\ UNCHANGED input
  BY DEF ResumeMissing, input, loopVars
<1> DEFINE pos == resume.fblock_pos
<1>1. PICK error \in DecodeErrors(pos) : out' = IF error THEN out ELSE CutAt(pos)
  BY DEF ResumeMissing
<1>2. /\ kept \subseteq Fblock /\ \A f \in kept : 0..f \subseteq kept
      /\ \A f \in kept : InImage(out, f) /\ FitsFsize(f)
      /\ pos \in Nat \ {0}
      /\ \A f \in kept : BehindOf(f) \/ AtOneBefore(f) \/ InHole(f)
  BY <1>0 DEF SafeInv, ResumeInv
<1>3. error \in BOOLEAN
  BY DEF DecodeErrors
<1>4. DOMAIN out' \subseteq DOMAIN out
  BY <1>1, <1>3 DEF CutAt
<1>5. OffsetInv'
  BY <1>0, SamePlaces DEF SafeInv, OffsetInv
<1>6. WrittenInv'
  <2>1. \A p : Placed(p)' <=> Placed(p)
    BY <1>0, SamePlaces DEF Placed
  <2>2. \A f : FitsFsize(f)' <=> FitsFsize(f)
    BY <1>0, SamePlaces
  <2> QED BY <1>0, <1>4, <2>1, <2>2 DEF SafeInv, WrittenInv
<1>7. FilesInv'
  BY <1>0 DEF SafeInv, FilesInv
<1>8. ASSUME NEW f \in kept PROVE InImage(out', f)
  <2>0. /\ f \in Fblock /\ FilePos[f] \in Nat /\ length[f] \in Nat \ {0} /\ InImage(out, f)
        /\ f \in 0..f
    BY <1>2, FilePosType, StrideType, WriteFsParameters DEF Fblock
  <2>1. ~AtOneBefore(f)
    <3> SUFFICES ASSUME NEW k \in 0..f, pos = FilePos[k] PROVE FALSE
      BY DEF AtOneBefore
    <3>1. k \in kept /\ InImage(out, k)
      BY <1>2
    <3>2. k \in GoodFblocks(out, pos)
      <4>1. /\ k \in Fblock /\ LengthAt(out, k, pos)
            /\ DataIs(out, k, pos + HeaderSize, 0..(length[k] - 1))
        BY <1>2, <3>1 DEF InImage, HasBytes
      <4> QED BY <4>1 DEF GoodFblocks
    <3> QED BY <3>2 DEF ResumeMissing
  <2>2. CASE InHole(f)
    <3>1. FilePos[f] \in DOMAIN out /\ ~(FilePos[f] < pos)
      <4>1. FilePos[f] \in DOMAIN out
        BY <2>0, HasBytesCells DEF InImage
      <4> QED BY <1>2, <2>0, <2>2, <4>1 DEF InHole
    <3>2. DecodeErrors(pos) = {TRUE}
      BY <2>2, <3>1 DEF DecodeErrors, InHole
    <3>3. out' = out
      BY <1>1, <3>2
    <3> QED BY <2>0, <3>3
  <2>3. CASE BehindOf(f)
    <3>1. \A p \in FilePos[f]..(FilePos[f] + length[f]) : p < pos
      BY <1>2, <2>0, <2>3, WriteFsParameters DEF BehindOf
    <3>2. \A p \in FilePos[f]..(FilePos[f] + length[f]) :
             p \in DOMAIN out => p \in DOMAIN out' /\ out'[p] = out[p]
      BY <1>1, <1>3, <3>1 DEF CutAt
    <3>3. 0 \in DOMAIN out => 0 \in DOMAIN out'
      BY <1>1, <1>2, <1>3 DEF CutAt
    <3>4. HasBytes(out', f, 0..(length[f] - 1))
      BY <2>0, <3>2, <3>3, ImageKept DEF InImage
    <3> QED BY <3>4 DEF InImage
  <2> QED BY <1>2, <2>1, <2>2, <2>3
<1>9. ResumeInv'
  BY <1>0, <1>2, <1>8, SamePlaces DEF ResumeInv
<1> QED BY <1>5, <1>6, <1>7, <1>9 DEF SafeInv

-----------------------------------------------------------------------------
(* The invariant and what it gives.                                         *)

(* An error is never forgotten.                                             *)
LEMMA StaysUnhealthy ==
    ASSUME LoopInv, Next, Healthy'
    PROVE  Healthy
<1>1. terminate_for \in BOOLEAN /\ full \in BOOLEAN
  BY DEF LoopInv
<1>2. CASE \E t \in Thread : ThreadStep(t)
  <2>1. PICK t \in Thread : ThreadStep(t)
    BY <1>2
  <2> QED
    BY <1>1, <2>1 DEF ThreadStep, TakeFblock, Verify, WriteLength, WriteData, Sync, Tell,
                      LeaveOrdered, WriteCells, Healthy
<1>3. CASE ~ \E t \in Thread : ThreadStep(t)
  BY <1>3 DEF Next, WriteHead, EndLoop, Crash, BeginResume, ResumeFound, ResumeMissing,
              UserDeletes, loopVars, Healthy
<1> QED BY <1>2, <1>3

(* WriteFsInv holds always.                                                 *)
LEMMA WriteFsInvariant == Spec => []WriteFsInv
<1>1. Init => WriteFsInv
  <2> SUFFICES ASSUME Init PROVE WriteFsInv
    OBVIOUS
  <2>1. InputOK
    <3>1. PICK c \in Compressed : /\ length = [f \in Fblock |-> c[f].n]
                                 /\ zeros = [f \in Fblock |-> c[f].zeros]
      BY DEF Init
    <3>2. \A f \in Fblock : c[f].n \in Nat \ {0} /\ c[f].zeros \in SUBSET Nat
      BY WriteFsParameters DEF Fblock
    <3>3. sparse \in BOOLEAN
      BY WriteFsParameters DEF Init
    <3> QED BY <3>1, <3>2, <3>3 DEF InputOK
  <2>2. LoopInv
    <3>1. /\ phase = "head" /\ next = 0 /\ turn = 0 /\ terminate_for = FALSE /\ full = FALSE
          /\ iter \in [Thread -> Nat] /\ pc = [t \in Thread |-> "loop"]
      BY DEF Init
    <3>2. next \in 0..NumFblocks /\ turn \in 0..next /\ turn..(next - 1) = {}
      BY <3>1, WriteFsParameters
    <3>3. \A t \in Thread : pc[t] = "loop" /\ pc[t] \notin Busy /\ pc[t] \notin Inside /\ pc[t] # "end"
      BY <3>1 DEF Busy, Inside
    <3>4. pc \in [Thread -> Busy \cup {"loop", "end"}]
      BY <3>1
    <3> QED BY <3>1, <3>2, <3>3, <3>4 DEF LoopInv
  <2>3. OffsetInv
    BY FilePosEquation DEF Init, OffsetInv, Inside
  <2>4. WrittenInv
    <3>1. DOMAIN out = {} /\ 0..(turn - 1) = {} /\ phase = "head"
      BY DEF Init
    <3> QED BY <3>1 DEF WrittenInv
  <2>5. FilesInv
    BY DEF Init, FilesInv
  <2>6. ResumeInv
    BY DEF Init, ResumeInv
  <2> QED BY <2>1, <2>2, <2>3, <2>4, <2>5, <2>6 DEF WriteFsInv, SafeInv
<1>2. WriteFsInv /\ [Next]_vars => WriteFsInv'
  <2> SUFFICES ASSUME WriteFsInv, [Next]_vars PROVE WriteFsInv'
    OBVIOUS
  <2>1. CASE Next
    <3>1. LoopInv /\ InputOK
      BY DEF WriteFsInv
    <3>2. LoopInv' /\ UNCHANGED input
      BY <2>1, <3>1, LoopStep
    <3>3. InputOK'
      BY <3>1, <3>2 DEF InputOK, input
    <3>4. ASSUME Healthy' PROVE SafeInv'
      <4>1. Healthy /\ SafeInv
        BY <2>1, <3>1, <3>4, StaysUnhealthy DEF WriteFsInv
      <4>2. CASE WriteHead
        BY <3>1, <4>1, <4>2, SafeWriteHead
      <4>3. CASE EndLoop
        BY <3>1, <4>1, <4>3, SafeEndLoop
      <4>4. CASE Crash
        BY <3>1, <4>1, <4>4, SafeCrash
      <4>5. CASE BeginResume
        BY <4>1, <4>5, SafeBeginResume
      <4>6. CASE ResumeFound
        BY <3>1, <4>1, <4>6, SafeResumeFound
      <4>7. CASE ResumeMissing
        BY <3>1, <4>1, <4>7, SafeResumeMissing
      <4>8. ASSUME NEW f \in Fblock, UserDeletes(f) PROVE SafeInv'
        BY <4>1, <4>8, SafeUserDeletes
      <4>9. ASSUME NEW t \in Thread, ThreadStep(t) PROVE SafeInv'
        <5>1. CASE TakeFblock(t)
          BY <3>1, <4>1, <5>1, SafeTake
        <5>2. CASE Verify(t)
          BY <3>1, <3>4, <4>1, <5>2, SafeVerify
        <5>3. CASE WriteLength(t)
          BY <3>1, <3>4, <4>1, <5>3, SafeWriteLength
        <5>4. CASE WriteData(t)
          BY <3>1, <3>4, <4>1, <5>4, SafeWriteData
        <5>5. CASE Sync(t)
          BY <3>1, <4>1, <5>5, SafeSync
        <5>6. CASE Tell(t)
          BY <3>1, <4>1, <5>6, SafeTell
        <5> QED BY <4>9, <5>1, <5>2, <5>3, <5>4, <5>5, <5>6 DEF ThreadStep
      <4> QED BY <2>1, <4>2, <4>3, <4>4, <4>5, <4>6, <4>7, <4>8, <4>9 DEF Next
    <3> QED BY <3>2, <3>3, <3>4 DEF WriteFsInv
  <2>2. CASE UNCHANGED vars
    <3>0. UNCHANGED <<length, zeros, sparse, phase, next, iter, pc, turn, fblk_offset, terminate_for,
                      full, out, synced, files, invited, kept, resume>> /\ UNCHANGED input
      BY <2>2 DEF vars, input, loopVars
    <3>1. InputOK' /\ LoopInv' /\ (Healthy' <=> Healthy)
      BY <3>0 DEF WriteFsInv, InputOK, LoopInv, Healthy
    <3>2. \A f : /\ InImage(out, f)' <=> InImage(out, f)
                 /\ PutInImage(out, f)' <=> PutInImage(out, f)
                 /\ PutInImage(synced, f)' <=> PutInImage(synced, f)
                 /\ FitsFsize(f)' <=> FitsFsize(f)
      BY <3>0, SamePlaces
    <3>3. \A p : Placed(p)' <=> Placed(p)
      BY <3>0, SamePlaces DEF Placed
    <3>4. OffsetInv => OffsetInv'
      BY <3>0, SamePlaces DEF OffsetInv
    <3>5. WrittenInv => WrittenInv'
      BY <3>0, <3>2, <3>3, SamePlaces DEF WrittenInv
    <3>6. FilesInv => FilesInv'
      BY <3>0 DEF FilesInv
    <3>7. ResumeInv => ResumeInv'
      BY <3>0, <3>2, SamePlaces DEF ResumeInv, BehindOf, AtOneBefore, InHole
    <3> QED BY <3>1, <3>4, <3>5, <3>6, <3>7 DEF WriteFsInv, SafeInv
  <2> QED BY <2>1, <2>2
<1> QED BY <1>1, <1>2, PTL DEF Spec

(* CreateAndWriteFs, whenever it is interrupted: of what the user was told  *)
(* he may delete every byte that SparseWrite writes is on the disk, where   *)
(* the reader of the image looks for it, and so of all fblocks when the     *)
(* program is done.                                                         *)
THEOREM NoFblockLost == Spec => []NothingLost
<1>1. WriteFsInv => NothingLost
  <2> SUFFICES ASSUME WriteFsInv, Healthy, phase \in {"head", "write", "done", "crashed"},
                      NEW f \in Fblock, f \notin files
               PROVE  PutInImage(synced, f)
    BY DEF NothingLost
  <2>1. LoopInv /\ WrittenInv /\ FilesInv
    BY DEF WriteFsInv, SafeInv
  <2>2. f \in 0..(turn - 1)
    <3>1. CASE phase = "done"
      BY <2>1, <3>1 DEF FilesInv, Fblock
    <3>2. CASE phase \in {"head", "write", "crashed"}
      BY <2>1, <3>2 DEF FilesInv
    <3> QED BY <3>1, <3>2
  <2>3. phase # "head"
    <3>1. turn = 0 => f \notin 0..(turn - 1)
      OBVIOUS
    <3> QED BY <2>1, <2>2, <3>1 DEF LoopInv
  <2> QED BY <2>1, <2>2, <2>3 DEF WrittenInv
<1> QED BY <1>1, WriteFsInvariant, PTL

(* ResumeWritingFs: the fblocks in the image when --finish-interrupted      *)
(* begins are in it when it ends, in an image with sparse fblocks too.      *)
THEOREM ResumeHarmless == Spec => []ResumeKeepsImage
<1>1. WriteFsInv => ResumeKeepsImage
  BY DEF WriteFsInv, SafeInv, ResumeInv, ResumeKeepsImage
<1> QED BY <1>1, WriteFsInvariant, PTL
=============================================================================
