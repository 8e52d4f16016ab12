--------------------------- MODULE ReadFileProofs ---------------------------
(***************************************************************************)
(* What is proved of read_file_data: a read returns the bytes of the file   *)
(* (ReadsWhole), and the fblock cache keeps to its limit and serves a read  *)
(* with one thread (CacheWorks).                                            *)
(***************************************************************************)
EXTENDS ReadFile, TLAPS, SequenceTheorems, FiniteSetTheorems, WellFoundedInduction

-----------------------------------------------------------------------------
(* The inductive invariant.                                                 *)

(* The fblock that holds file position q.                                   *)
FblockAt(q) == BlockAt(q).fblocknum

(* Position q is still to be copied: its fblock is still to come in the     *)
(* work of a thread, or the thread that has it in hand is not behind q yet. *)
Pending(q) ==
    \E t \in Reader : \E i \in 1..Len(work[t]) :
        work[t][i] = FblockAt(q) /\ (i > 1 \/ q >= pos[t])

TypeInv ==
    /\ image \in Images /\ readers \in 1..Threads
    /\ request \in [offset : Nat, size : Nat]
    /\ stage \in {"idle", "parallel", "age"}
    /\ work \in [Reader -> Seq(Nat)] /\ pos \in [Reader -> Nat]
    /\ loading \in [Reader -> BOOLEAN]

(* A fblock is in the work of one thread only, and there only once.         *)
WorkDistinct ==
    \A t, u \in Reader : \A i \in 1..Len(work[t]) : \A j \in 1..Len(work[u]) :
        work[t][i] = work[u][j] => t = u /\ i = j

(* A thread stays at its place while it decompresses the fblock of it.      *)
ThreadInv ==
    \A t \in Reader :
      /\ stage = "parallel" => pos[t] \in StartPos..EndPos
      /\ loading[t] => /\ stage = "parallel" /\ work[t] # <<>> /\ pos[t] < EndPos
                       /\ FblockAt(pos[t]) = Head(work[t])

(* The buffer has the bytes that are not pending, each from its place, and  *)
(* result counts them.                                                      *)
TargetInv ==
    /\ stage = "parallel" => DOMAIN target = {q \in StartPos..(EndPos - 1) : ~Pending(q)}
    /\ stage = "age" => DOMAIN target = StartPos..(EndPos - 1)
    /\ stage # "idle" => /\ target = [q \in DOMAIN target |-> FileByte(q)]
                         /\ IsFiniteSet(DOMAIN target)
                         /\ result = Cardinality(DOMAIN target)

BaseInv == TypeInv /\ ThreadInv

ReadInv == BaseInv /\ WorkDistinct /\ TargetInv

(* The cache: what a team of one decompressed for a read stays in it until  *)
(* the read is over.                                                        *)
AloneInv ==
    /\ \A t \in Reader : t > 1 => work[t] = <<>> /\ ~loading[t]
    /\ LoadedOnce
    /\ stage = "parallel" =>
         \A i \in 1..Len(loads) :
            loads[i] \in cache \/ (loading[1] /\ i = Len(loads))
    /\ loading[1] => /\ loads # <<>> /\ loads[Len(loads)] = Head(work[1])

CacheInv ==
    /\ BaseInv
    /\ IsFiniteSet(cache) /\ CacheTrimmed
    /\ loads \in Seq(Nat)
    /\ readers = 1 => AloneInv

-----------------------------------------------------------------------------
(* Blocks and the positions in them.                                        *)

LEMMA TimesMonotone ==
    ASSUME NEW a \in Nat, NEW b \in Nat, NEW n \in Nat, a < b
    PROVE  a * n + n <= b * n /\ a * n \in Nat /\ b * n \in Nat
<1>1. (b - a - 1) * n \in Nat
  OBVIOUS
<1>2. b * n = a * n + n + (b - a - 1) * n
  OBVIOUS
<1>3. a * n \in Nat /\ b * n \in Nat
  OBVIOUS
<1> QED BY <1>1, <1>2, <1>3

(* Positions up to the end of the block that p is in.                       *)
LEMMA SameBlock ==
    ASSUME NEW b \in Nat \ {0}, NEW p \in Nat, NEW q \in Nat, p <= q, q - p < b - (p % b)
    PROVE  /\ p \div b \in Nat /\ p % b \in 0..(b - 1)
           /\ p = (p \div b) * b + (p % b)
           /\ q \div b = p \div b
           /\ q % b = (p % b) + (q - p)
<1>1. PICK k \in Nat, r \in Nat : k = p \div b /\ r = p % b /\ r < b /\ p = k * b + r
  OBVIOUS
<1>2. PICK m \in Nat, s \in Nat : m = q \div b /\ s = q % b /\ s < b /\ q = m * b + s
  OBVIOUS
<1>3. k * b \in Nat /\ m * b \in Nat
  OBVIOUS
<1>4. ~(m < k)
  <2>1. SUFFICES ASSUME m < k PROVE FALSE
    OBVIOUS
  <2>2. m * b + b <= k * b
    BY <2>1, TimesMonotone
  <2> QED BY <1>1, <1>2, <1>3, <2>2
<1>5. ~(k < m)
  <2>1. SUFFICES ASSUME k < m PROVE FALSE
    OBVIOUS
  <2>2. k * b + b <= m * b
    BY <2>1, TimesMonotone
  <2> QED BY <1>1, <1>2, <1>3, <2>2
<1>6. m = k
  BY <1>4, <1>5
<1>7. PICK x \in Nat : x = k * b
  BY <1>3
<1>8. p = x + r /\ q = x + s
  BY <1>1, <1>2, <1>6, <1>7
<1>9. s = r + (q - p)
  BY <1>8
<1>10. r \in 0..(b - 1)
  BY <1>1
<1> QED BY <1>1, <1>2, <1>6, <1>9, <1>10

(* What a request covers.                                                   *)
LEMMA RangeType ==
    ASSUME image \in Images, NEW r \in [offset : Nat, size : Nat]
    PROVE  /\ SoundImage(image)
           /\ StartOf(r) \in Nat /\ EndOf(r) \in Nat
           /\ StartOf(r) <= EndOf(r) /\ EndOf(r) <= image.bytesize
<1>1. SoundImage(image) /\ image.bytesize \in Nat
  BY ReadParameters DEF SoundImage
<1>2. r.offset \in Nat /\ r.size \in Nat
  OBVIOUS
<1> QED BY <1>1, <1>2 DEF StartOf, EndOf, Min2

(* The locator of a block of the file.                                      *)
LEMMA LocatorType ==
    ASSUME image \in Images, NEW k \in 0..(Len(image.blocklist) - 1)
    PROVE  /\ BlockOf(k).fblocknum \in 0..(Len(image.fblktab) - 1)
           /\ BlockOf(k).fblocknum \in Nat
           /\ BlockOf(k).startoffs \in Nat
           /\ Len(image.fblktab[BlockOf(k).fblocknum + 1]) \in Nat
           /\ BlockOf(k).startoffs + Min2(image.bsize, image.bytesize - k * image.bsize)
                <= Len(image.fblktab[BlockOf(k).fblocknum + 1])
<1>1. SoundImage(image)
  BY ReadParameters
<1>2. image.blocklist[k + 1] \in 1..Len(image.blktab)
  <2>1. image.blocklist \in Seq(1..Len(image.blktab)) /\ k + 1 \in 1..Len(image.blocklist)
    BY <1>1 DEF SoundImage
  <2> QED BY <2>1, ElementOfSeq
<1>3. BlockOf(k) \in [fblocknum : 0..(Len(image.fblktab) - 1), startoffs : Nat]
  <2>1. image.blktab \in Seq([fblocknum : 0..(Len(image.fblktab) - 1), startoffs : Nat])
    BY <1>1 DEF SoundImage
  <2> QED BY <1>2, <2>1, ElementOfSeq DEF BlockOf
<1>4. Len(image.fblktab) \in Nat /\ image.fblktab \in Seq(Seq(Nat))
  <2>1. image.fblktab \in Seq(Seq(Nat))
    BY <1>1 DEF SoundImage
  <2> QED BY <2>1, LenProperties
<1>5. BlockOf(k).fblocknum \in 0..(Len(image.fblktab) - 1) /\ BlockOf(k).startoffs \in Nat
  BY <1>3
<1>6. image.fblktab[BlockOf(k).fblocknum + 1] \in Seq(Nat)
  BY <1>4, <1>5, ElementOfSeq
<1>7. BlockOf(k).startoffs + Min2(image.bsize, image.bytesize - k * image.bsize)
        <= Len(image.fblktab[BlockOf(k).fblocknum + 1])
  BY <1>1 DEF SoundImage, BlockOf
<1> QED BY <1>4, <1>5, <1>6, <1>7

(* A position of the file is in a block of the list.                        *)
LEMMA BlockExists ==
    ASSUME image \in Images, NEW q \in Nat, q < image.bytesize
    PROVE  /\ image.bsize \in Nat \ {0} /\ image.bytesize \in Nat
           /\ q \div image.bsize \in 0..(Len(image.blocklist) - 1)
           /\ q % image.bsize \in 0..(image.bsize - 1)
           /\ q = (q \div image.bsize) * image.bsize + (q % image.bsize)
<1>1. SoundImage(image)
  BY ReadParameters
<1>a. Len(image.blocklist) \in Nat
  <2>1. image.blocklist \in Seq(1..Len(image.blktab))
    BY <1>1 DEF SoundImage
  <2> QED BY <2>1, LenProperties
<1>2. PICK b \in Nat \ {0}, n \in Nat : b = image.bsize /\ n = Len(image.blocklist)
  BY <1>1, <1>a DEF SoundImage
<1>3. image.bytesize \in Nat /\ image.bytesize <= n * b
  BY <1>1, <1>2 DEF SoundImage
<1>4. PICK k \in Nat, r \in Nat : k = q \div b /\ r = q % b /\ r < b /\ q = k * b + r
  OBVIOUS
<1>5. k * b \in Nat /\ n * b \in Nat
  OBVIOUS
<1>6. k < n
  <2>1. SUFFICES ASSUME ~(k < n) PROVE FALSE
    OBVIOUS
  <2>2. n * b <= k * b
    <3>1. CASE n = k
      BY <3>1, <1>5
    <3>2. CASE n < k
      BY <3>2, <1>5, TimesMonotone
    <3> QED BY <2>1, <3>1, <3>2
  <2> QED BY <1>3, <1>4, <1>5, <2>2
<1>7. k \in 0..(n - 1) /\ r \in 0..(b - 1)
  BY <1>4, <1>6
<1> QED BY <1>2, <1>3, <1>4, <1>7

(* read_block copies the bytes of the file from p to the end of its block,  *)
(* or of the request.                                                       *)
LEMMA CopyRight ==
    ASSUME image \in Images, request \in [offset : Nat, size : Nat],
           NEW p \in Nat, p < EndPos
    PROVE  /\ Consume(p) \in 1..(EndPos - p)
           /\ Copy(p) = [q \in p..(p + Consume(p) - 1) |-> FileByte(q)]
           /\ \A q \in p..(p + Consume(p) - 1) : FblockAt(q) = FblockAt(p)
<1>1. EndPos \in Nat /\ EndPos <= image.bytesize
  BY RangeType DEF EndPos
<1>b. p < image.bytesize /\ image.bytesize \in Nat
  BY <1>1, RangeType DEF SoundImage
<1>2. PICK b \in Nat \ {0}, k, r \in Nat :
        /\ b = image.bsize /\ k = p \div image.bsize /\ r = p % image.bsize
        /\ r < b /\ p = k * b + r
  <2>1. image.bsize \in Nat \ {0} /\ p \div image.bsize \in Nat
    BY <1>b, BlockExists
  <2>2. p % image.bsize \in Nat /\ p % image.bsize < image.bsize
    BY <1>b, <2>1, BlockExists
  <2> QED BY <1>b, <2>1, <2>2, BlockExists
<1>3. k \in 0..(Len(image.blocklist) - 1)
  BY <1>b, <1>2, BlockExists
<1>4. PICK n \in Nat : n = Consume(p) /\ n \in 1..(EndPos - p) /\ n <= b - r
  <2>1. Consume(p) = IF EndPos - p <= b - r THEN EndPos - p ELSE b - r
    BY <1>2 DEF Consume, Min2
  <2>2. b - r \in Nat \ {0}
    <3>1. r < b
      BY <1>2
    <3> QED BY <3>1
  <2>3. EndPos - p \in Nat \ {0}
    BY <1>1
  <2> QED BY <2>1, <2>2, <2>3
<1>a. PICK h : h = image.fblktab[BlockOf(k).fblocknum + 1]
  OBVIOUS
<1>5. PICK o \in Nat, l \in Nat : /\ o = BlockOf(k).startoffs /\ l = Len(h)
                                  /\ o + Min2(b, image.bytesize - k * b) <= l
  BY <1>2, <1>3, <1>a, LocatorType
<1>6. l - (o + r) >= n
  <2>1. PICK x \in Nat : x = k * b
    OBVIOUS
  <2>2. p = x + r
    BY <1>2, <2>1
  <2>3. o + (IF b <= image.bytesize - x THEN b ELSE image.bytesize - x) <= l
    BY <1>5, <2>1 DEF Min2
  <2> QED BY <1>1, <1>b, <1>2, <1>4, <2>2, <2>3
<1>7. ASSUME NEW q \in p..(p + n - 1)
      PROVE  q \div b = k /\ q % b = r + (q - p)
  <2>1. q \in Nat /\ p <= q /\ q - p < b - (p % b)
    BY <1>2, <1>4
  <2> QED BY <1>2, <2>1, SameBlock, ZenonT(40)
<1>8. BlockAt(p) = BlockOf(k)
  BY <1>2 DEF BlockAt
<1>9. ASSUME NEW q \in p..(p + n - 1)
      PROVE  BlockAt(q) = BlockOf(k) /\ FileByte(q) = h[o + r + q - p + 1]
  <2>1. BlockAt(q) = BlockOf(k)
    BY <1>2, <1>7 DEF BlockAt
  <2>2. o + (q % b) + 1 = o + r + q - p + 1
    BY <1>2, <1>7
  <2> QED BY <1>2, <1>a, <1>5, <2>1, <2>2 DEF FileByte
<1>10. Copy(p) = [q \in p..(p + n - 1) |-> h[o + r + q - p + 1]]
  <2>1. Min2(l - (o + r), n) = n
    BY <1>6 DEF Min2
  <2> QED BY <1>2, <1>4, <1>a, <1>5, <1>8, <2>1 DEF Copy
<1> QED BY <1>4, <1>8, <1>9, <1>10 DEF FblockAt

-----------------------------------------------------------------------------
(* The shares of the threads.                                               *)

(* A nonempty set of natural numbers has a least element.                   *)
LEMMA Least ==
    ASSUME NEW S, S \subseteq Nat, S # {}
    PROVE  \E x \in S : \A y \in S : x <= y
<1>1. PICK x \in S : \A y \in S : ~(<<y, x>> \in OpToRel(<, Nat))
  BY WFMin, NatLessThanWellFounded, Zenon
<1>2. ASSUME NEW y \in S PROVE x <= y
  <2>1. ~(<<y, x>> \in Nat \X Nat /\ <<y, x>>[1] < <<y, x>>[2])
    BY <1>1 DEF OpToRel
  <2> QED BY <2>1
<1> QED BY <1>2

(* The cuts go from the first iteration to the last, in order.              *)
LEMMA CutsInOrder ==
    ASSUME readers \in Nat \ {0}, NEW n \in Nat
    PROVE  /\ \A t \in 0..readers : Cut(n, t) \in 0..n /\ Cut(n, t) \in Nat
           /\ \A t, u \in 0..readers : t <= u => Cut(n, t) <= Cut(n, u)
           /\ Cut(n, 0) = 0 /\ Cut(n, readers) = n
<1>1. PICK q \in Nat, r \in Nat : q = n \div readers /\ r = n % readers /\ r < readers /\ n = readers * q + r
  OBVIOUS
<1>2. ASSUME NEW t \in 0..readers, NEW u \in 0..readers, t <= u
      PROVE  Cut(n, t) \in Nat /\ Cut(n, t) <= Cut(n, u)
  <2>1. PICK x \in Nat, y \in Nat : x = t * q /\ y = u * q
    OBVIOUS
  <2>2. x <= y
    <3>1. CASE t = u
      BY <3>1, <2>1
    <3>2. CASE t < u
      BY <3>2, <2>1, TimesMonotone
    <3> QED BY <1>2, <3>1, <3>2
  <2>3. Cut(n, t) = x + Min2(t, r) /\ Cut(n, u) = y + Min2(u, r)
    BY <1>1, <2>1 DEF Cut
  <2>4. t \in Nat /\ u \in Nat
    OBVIOUS
  <2>5. Min2(t, r) \in Nat /\ Min2(u, r) \in Nat /\ Min2(t, r) <= Min2(u, r)
    BY <1>2, <2>4 DEF Min2
  <2> QED BY <2>2, <2>3, <2>5
<1>3. Cut(n, 0) = 0
  <2>1. 0 * q = 0 /\ Min2(0, r) = 0
    BY DEF Min2
  <2> QED BY <1>1, <2>1 DEF Cut
<1>4. Cut(n, readers) = n
  <2>1. Min2(readers, r) = r
    BY <1>1 DEF Min2
  <2> QED BY <1>1, <2>1 DEF Cut
<1>5. readers \in 0..readers /\ 0 \in 0..readers
  OBVIOUS
<1>6. ASSUME NEW t \in 0..readers PROVE Cut(n, t) \in 0..n /\ Cut(n, t) \in Nat
  <2>1. Cut(n, t) \in Nat /\ Cut(n, t) <= Cut(n, readers)
    BY <1>2, <1>5
  <2> QED BY <1>4, <2>1
<1> QED BY <1>2, <1>3, <1>4, <1>6

(* Element i of thread t's share is element At of the list.                 *)
At(n, t, i) == Cut(n, t - 1) + i

(* A share is a piece of the list.                                          *)
LEMMA ShareElements ==
    ASSUME readers \in Nat \ {0}, NEW s \in Seq(Nat), NEW t \in 1..readers
    PROVE  /\ Share(s, t) \in Seq(Nat)
           /\ Len(Share(s, t)) = Cut(Len(s), t) - Cut(Len(s), t - 1)
           /\ \A i \in 1..Len(Share(s, t)) :
                 /\ At(Len(s), t, i) \in 1..Len(s)
                 /\ At(Len(s), t, i) <= Cut(Len(s), t)
                 /\ Cut(Len(s), t - 1) < At(Len(s), t, i)
                 /\ Share(s, t)[i] = s[At(Len(s), t, i)]
<1>1. PICK a \in Nat, b \in Nat, n \in Nat :
         a = Cut(Len(s), t - 1) /\ b = Cut(Len(s), t) /\ n = Len(s) /\ a <= b /\ b <= n
  <2>1. Len(s) \in Nat /\ t - 1 \in 0..readers /\ t \in 0..readers /\ t - 1 <= t
    OBVIOUS
  <2>2. Cut(Len(s), t - 1) \in 0..Len(s) /\ Cut(Len(s), t) \in 0..Len(s)
    BY <2>1, CutsInOrder
  <2>3. Cut(Len(s), t - 1) <= Cut(Len(s), t)
    BY <2>1, CutsInOrder
  <2> QED BY <2>1, <2>2, <2>3
<1>2. Share(s, t) = SubSeq(s, a + 1, b)
  BY <1>1 DEF Share
<1>3. \A i \in (a + 1)..b : s[i] \in Nat
  BY <1>1, ElementOfSeq
<1>4. /\ Share(s, t) \in Seq(Nat) /\ Len(Share(s, t)) = b - a
      /\ \A i \in 1..(b - a) : Share(s, t)[i] = s[a + 1 + i - 1]
  <2>1. /\ SubSeq(s, a + 1, b) \in Seq(Nat)
        /\ Len(SubSeq(s, a + 1, b)) = IF a + 1 <= b THEN b - (a + 1) + 1 ELSE 0
        /\ \A i \in 1..(b - (a + 1) + 1) : SubSeq(s, a + 1, b)[i] = s[a + 1 + i - 1]
    BY <1>3, SubSeqProperties
  <2>2. b - (a + 1) + 1 = b - a /\ (~(a + 1 <= b) => b - a = 0)
    BY <1>1
  <2> QED BY <1>2, <2>1, <2>2
<1>5. ASSUME NEW i \in 1..(b - a)
      PROVE  a + 1 + i - 1 = a + i /\ a + i \in 1..n /\ a + i <= b /\ a < a + i
  BY <1>1, SMTT(40)
<1> QED BY <1>1, <1>4, <1>5 DEF At

(* Every element of a list is in a share ...                                *)
LEMMA EveryShared ==
    ASSUME readers \in Nat \ {0}, NEW s \in Seq(Nat), NEW e \in 1..Len(s)
    PROVE  \E t \in 1..readers : \E i \in 1..Len(Share(s, t)) : Share(s, t)[i] = s[e]
<1>1. PICK n \in Nat : n = Len(s)
  OBVIOUS
<1> DEFINE S == {t \in 0..readers : e <= Cut(n, t)}
<1>2. readers \in S
  BY <1>1, CutsInOrder
<1>a. S \subseteq Nat /\ S # {}
  BY <1>2
<1>3. PICK t \in S : \A u \in S : t <= u
  <2> HIDE DEF S
  <2> QED BY <1>a, Least
<1>4. t # 0
  BY <1>1, <1>3, CutsInOrder
<1>5. t \in 1..readers /\ t - 1 \in 0..readers /\ t - 1 \notin S
  BY <1>3, <1>4
<1>6. PICK a \in Nat, b \in Nat : a = Cut(n, t - 1) /\ b = Cut(n, t)
  <2>1. t \in 0..readers
    BY <1>3
  <2> QED BY <1>5, <2>1, CutsInOrder
<1>7. a < e /\ e <= b
  BY <1>1, <1>3, <1>5, <1>6
<1>8. PICK i \in Nat : i = e - a /\ i \in 1..(b - a)
  BY <1>1, <1>6, <1>7
<1>9. Len(Share(s, t)) = b - a /\ At(n, t, i) = e
  BY <1>1, <1>5, <1>6, <1>8, ShareElements, SMTT(40) DEF At
<1>10. i \in 1..Len(Share(s, t)) /\ Share(s, t)[i] = s[At(n, t, i)]
  BY <1>1, <1>5, <1>8, <1>9, ShareElements
<1> QED BY <1>5, <1>9, <1>10

(* ... and in one only.                                                     *)
LEMMA SharedOnce ==
    ASSUME readers \in Nat \ {0}, NEW s \in Seq(Nat),
           NEW t \in 1..readers, NEW u \in 1..readers,
           NEW i \in 1..Len(Share(s, t)), NEW j \in 1..Len(Share(s, u)),
           At(Len(s), t, i) = At(Len(s), u, j)
    PROVE  t = u /\ i = j
<1>1. PICK n \in Nat : n = Len(s)
  OBVIOUS
<1>2. \A v \in 0..readers : Cut(n, v) \in Nat
  BY <1>1, CutsInOrder
<1>a. t - 1 \in 0..readers /\ u - 1 \in 0..readers /\ t \in 0..readers /\ u \in 0..readers
  OBVIOUS
<1>b. Len(Share(s, t)) \in Nat /\ Len(Share(s, u)) \in Nat
  BY ShareElements
<1>3. /\ Cut(n, t - 1) < Cut(n, u - 1) + j /\ Cut(n, u - 1) < Cut(n, t - 1) + i
      /\ Cut(n, t - 1) + i <= Cut(n, t) /\ Cut(n, u - 1) + j <= Cut(n, u)
      /\ Cut(n, t - 1) + i = Cut(n, u - 1) + j
  BY <1>1, ShareElements DEF At
<1>4. ~(t < u)
  <2>1. SUFFICES ASSUME t < u PROVE FALSE
    OBVIOUS
  <2>2. Cut(n, t) <= Cut(n, u - 1)
    BY <1>a, <2>1, CutsInOrder
  <2> QED BY <1>2, <1>3, <1>a, <1>b, <2>2, SMTT(40)
<1>5. ~(u < t)
  <2>1. SUFFICES ASSUME u < t PROVE FALSE
    OBVIOUS
  <2>2. Cut(n, u) <= Cut(n, t - 1)
    BY <1>a, <2>1, CutsInOrder
  <2> QED BY <1>2, <1>3, <1>a, <1>b, <2>2, SMTT(40)
<1>6. t = u
  BY <1>4, <1>5
<1> QED BY <1>2, <1>3, <1>6, <1>a, <1>b

-----------------------------------------------------------------------------
(* The fblocks a read needs.                                                *)

(* Fblocks whose numbers leave the upper bits of an unsigned long alone are *)
(* told apart: all of them where it is no longer than an unsigned int.      *)
LEMMA LowBitsTell ==
    ASSUME image \in Images,
           NEW f \in 0..(Len(image.fblktab) - 1), NEW g \in 0..(Len(image.fblktab) - 1),
           f % LongBits < UnsignedBits, g % LongBits < UnsignedBits
    PROVE  FblockBit(f) # {} /\ (FblockBit(f) = FblockBit(g) => f = g)
<1>1. /\ FblockBit(f) = {<<f \div LongBits, f % LongBits>>}
      /\ FblockBit(g) = {<<g \div LongBits, g % LongBits>>}
  BY DEF FblockBit
<1>2. f \in Nat /\ g \in Nat /\ LongBits \in Nat \ {0}
  BY ReadParameters
<1>3. /\ f = LongBits * (f \div LongBits) + (f % LongBits)
      /\ g = LongBits * (g \div LongBits) + (g % LongBits)
  BY <1>2
<1>4. FblockBit(f) = FblockBit(g) => f \div LongBits = g \div LongBits /\ f % LongBits = g % LongBits
  <2>1. FblockBit(f) = FblockBit(g)
          => <<f \div LongBits, f % LongBits>> = <<g \div LongBits, g % LongBits>>
    BY <1>1, Zenon
  <2> QED BY <2>1
<1>5. FblockBit(f) # {}
  BY <1>1, Zenon
<1>6. f \div LongBits = g \div LongBits /\ f % LongBits = g % LongBits => f = g
  BY <1>3
<1> QED BY <1>4, <1>5, <1>6

(* A block in the range of a request is touched, and in the block list.     *)
LEMMA TouchedBlocks ==
    ASSUME image \in Images, NEW r \in [offset : Nat, size : Nat]
    PROVE  /\ Touched(r) \subseteq 0..(Len(image.blocklist) - 1)
           /\ \A q \in StartOf(r)..(EndOf(r) - 1) : q \div image.bsize \in Touched(r)
<1>1. PICK a \in Nat, e \in Nat : a = StartOf(r) /\ e = EndOf(r) /\ a <= e /\ e <= image.bytesize
  BY RangeType
<1>2. image.bytesize \in Nat /\ image.bsize \in Nat \ {0}
  BY RangeType DEF SoundImage
<1>3. ASSUME NEW p \in Nat, NEW q \in Nat, p <= q
      PROVE  p \div image.bsize <= q \div image.bsize
  <2>a. PICK b \in Nat \ {0} : b = image.bsize
    BY <1>2
  <2>b. PICK k \in Nat, x \in Nat : k = p \div b /\ x < b /\ p = k * b + x
    OBVIOUS
  <2>c. PICK m \in Nat, y \in Nat : m = q \div b /\ y < b /\ q = m * b + y
    OBVIOUS
  <2>2. ~(m < k)
    <3>1. SUFFICES ASSUME m < k PROVE FALSE
      OBVIOUS
    <3>2. m * b + b <= k * b /\ m * b \in Nat /\ k * b \in Nat
      BY <3>1, TimesMonotone
    <3> QED BY <1>3, <2>b, <2>c, <3>2
  <2>3. k <= m
    BY <2>2
  <2> QED BY <2>a, <2>b, <2>c, <2>3
<1>4. CASE a >= e
  <2>1. Touched(r) = {} /\ a..(e - 1) = {}
    BY <1>1, <1>4 DEF Touched
  <2> QED BY <1>1, <2>1
<1>5. CASE a < e
  <2>1. Touched(r) = (a \div image.bsize)..((e - 1) \div image.bsize)
    BY <1>1, <1>5 DEF Touched
  <2>2. /\ a < image.bytesize /\ e - 1 < image.bytesize /\ e - 1 \in Nat
    BY <1>1, <1>2, <1>5
  <2>3. /\ a \div image.bsize \in 0..(Len(image.blocklist) - 1)
        /\ (e - 1) \div image.bsize \in 0..(Len(image.blocklist) - 1)
    BY <2>2, BlockExists
  <2>4. ASSUME NEW q \in a..(e - 1) PROVE q \div image.bsize \in Touched(r)
    <3>1. q \in Nat /\ a <= q /\ q <= e - 1
      BY <1>1
    <3>2. a \div image.bsize <= q \div image.bsize /\ q \div image.bsize <= (e - 1) \div image.bsize
      BY <1>3, <2>2, <3>1
    <3>3. q \div image.bsize \in Nat
      BY <1>2, <3>1
    <3> QED BY <2>1, <2>3, <3>2, <3>3
  <2>5. Touched(r) \subseteq 0..(Len(image.blocklist) - 1)
    BY <2>1, <2>3
  <2> QED BY <1>1, <2>4, <2>5
<1> QED BY <1>1, <1>4, <1>5

(* The loop lists every fblock that is touched, and none twice.             *)
LEMMA PushedOnce ==
    ASSUME image \in Images, NEW r \in [offset : Nat, size : Nat], BitsTellApart(r)
    PROVE  /\ \A j, k \in Pushed(r) : BlockOf(j).fblocknum = BlockOf(k).fblocknum => j = k
           /\ \A k \in Touched(r) : \E j \in Pushed(r) :
                 BlockOf(j).fblocknum = BlockOf(k).fblocknum
<1>1. \A k \in Touched(r) : /\ k \in Nat
                            /\ BlockOf(k).fblocknum \in 0..(Len(image.fblktab) - 1)
  BY TouchedBlocks, LocatorType
<1>2. \A j, k \in Touched(r) :
         FblockBit(BlockOf(j).fblocknum) = FblockBit(BlockOf(k).fblocknum)
           => BlockOf(j).fblocknum = BlockOf(k).fblocknum
  BY DEF BitsTellApart
<1>3. \A k \in Touched(r) : FblockBit(BlockOf(k).fblocknum) # {}
  BY DEF BitsTellApart
<1>4. ASSUME NEW j \in Pushed(r), NEW k \in Pushed(r),
             BlockOf(j).fblocknum = BlockOf(k).fblocknum
      PROVE  j = k
  <2>1. j \in Touched(r) /\ k \in Touched(r) /\ j \in Nat /\ k \in Nat
    BY <1>1 DEF Pushed
  <2>2. ~(j < k) /\ ~(k < j)
    BY <1>3, <1>4, <2>1 DEF Pushed
  <2> QED BY <2>1, <2>2
<1>5. ASSUME NEW k \in Touched(r)
      PROVE  \E j \in Pushed(r) : BlockOf(j).fblocknum = BlockOf(k).fblocknum
  <2> DEFINE S == {j \in Touched(r) : BlockOf(j).fblocknum = BlockOf(k).fblocknum}
  <2>1. S \subseteq Nat /\ k \in S
    BY <1>1
  <2>2. PICK j \in S : \A i \in S : j <= i
    <3> HIDE DEF S
    <3> QED BY <2>1, Least
  <2>3. j \in Touched(r) /\ BlockOf(j).fblocknum = BlockOf(k).fblocknum
    OBVIOUS
  <2>4. ASSUME NEW i \in Touched(r), i < j
        PROVE  FblockBit(BlockOf(i).fblocknum) # FblockBit(BlockOf(j).fblocknum)
    <3>1. i \notin S
      BY <1>1, <2>2, <2>3, <2>4
    <3> QED BY <1>2, <2>3, <3>1
  <2>5. j \in Pushed(r)
    BY <2>3, <2>4 DEF Pushed
  <2> QED BY <2>3, <2>5
<1> QED BY <1>4, <1>5

(* A list of fblocks and the blocks it is made of.                          *)
MadeOf(l, K) ==
    /\ l \in Seq(Nat)
    /\ \A k \in K : \E i \in 1..Len(l) : l[i] = BlockOf(k).fblocknum
    /\ \A i \in 1..Len(l) : \E k \in K : l[i] = BlockOf(k).fblocknum
    /\ (\A j, k \in K : BlockOf(j).fblocknum = BlockOf(k).fblocknum => j = k) =>
          \A i, j \in 1..Len(l) : l[i] = l[j] => i = j

LEMMA ListElements ==
    ASSUME image \in Images, NEW K, K \subseteq 0..(Len(image.blocklist) - 1),
           NEW l \in FblockLists(K)
    PROVE  MadeOf(l, K)
<1>1. Cardinality(K) \in Nat
  <2>1. Len(image.blocklist) \in Nat
    <3>1. image.blocklist \in Seq(1..Len(image.blktab))
      BY ReadParameters DEF SoundImage
    <3> QED BY <3>1, LenProperties
  <2>2. IsFiniteSet(0..(Len(image.blocklist) - 1))
    BY <2>1, FS_Interval
  <2> QED BY <2>2, FS_Subset, FS_CardinalityType
<1>2. PICK n \in Nat : n = Cardinality(K)
  BY <1>1
<1>3. PICK ks \in [1..n -> K] : /\ \A k \in K : \E i \in 1..n : ks[i] = k
                                /\ \A i, j \in 1..n : i < j => ks[i] < ks[j]
                                /\ l = [i \in 1..n |-> BlockOf(ks[i]).fblocknum]
  BY <1>2 DEF FblockLists
<1>4. \A i \in 1..n : ks[i] \in K /\ BlockOf(ks[i]).fblocknum \in Nat /\ ks[i] \in Nat
  <2>1. \A k \in K : BlockOf(k).fblocknum \in Nat
    BY LocatorType
  <2>2. \A k \in K : k \in Nat
    OBVIOUS
  <2> QED BY <1>3, <2>1, <2>2
<1>5. l \in Seq(Nat) /\ Len(l) = n /\ \A i \in 1..n : l[i] = BlockOf(ks[i]).fblocknum
  <2>1. l \in [1..n -> Nat]
    BY <1>3, <1>4
  <2> QED BY <1>3, <2>1
<1>6. ASSUME \A j, k \in K : BlockOf(j).fblocknum = BlockOf(k).fblocknum => j = k,
             NEW i \in 1..n, NEW j \in 1..n, l[i] = l[j]
      PROVE  i = j
  <2>1. ks[i] = ks[j]
    BY <1>4, <1>5, <1>6
  <2>2. ~(i < j) /\ ~(j < i)
    BY <1>3, <1>4, <2>1
  <2> QED BY <2>2
<1>7. \A k \in K : \E i \in 1..n : l[i] = BlockOf(k).fblocknum
  BY <1>3, <1>5
<1>8. \A i \in 1..n : \E k \in K : l[i] = BlockOf(k).fblocknum
  BY <1>4, <1>5
<1>9. (\A j, k \in K : BlockOf(j).fblocknum = BlockOf(k).fblocknum => j = k) =>
         \A i, j \in 1..n : l[i] = l[j] => i = j
  BY <1>6
<1> QED BY <1>5, <1>7, <1>8, <1>9 DEF MadeOf

-----------------------------------------------------------------------------
(* The lists a read begins with.                                            *)

Lists(r, cached, uncached) ==
    /\ cached \in FblockLists(CachedBlocks(r))
    /\ uncached \in FblockLists(Pushed(r) \ CachedBlocks(r))
    /\ work' = [t \in Reader |-> IF t > readers THEN <<>> ELSE Share(cached, t) \o Share(uncached, t)]

(* What the two lists are made of.                                          *)
LEMMA ListFacts ==
    ASSUME image \in Images, NEW r \in [offset : Nat, size : Nat],
           NEW cached, NEW uncached, Lists(r, cached, uncached)
    PROVE  /\ cached \in Seq(Nat) /\ uncached \in Seq(Nat)
           /\ \A i \in 1..Len(cached) : cached[i] \in cache
           /\ \A i \in 1..Len(uncached) : uncached[i] \notin cache
           /\ BitsTellApart(r) =>
                /\ \A i, j \in 1..Len(cached) : cached[i] = cached[j] => i = j
                /\ \A i, j \in 1..Len(uncached) : uncached[i] = uncached[j] => i = j
                /\ \A k \in Touched(r) :
                      \/ \E i \in 1..Len(cached) : cached[i] = BlockOf(k).fblocknum
                      \/ \E i \in 1..Len(uncached) : uncached[i] = BlockOf(k).fblocknum
<1> DEFINE C == CachedBlocks(r)
           U == Pushed(r) \ CachedBlocks(r)
<1>1. C \subseteq Touched(r) /\ U \subseteq Touched(r)
  BY DEF CachedBlocks, Pushed
<1>2. C \subseteq 0..(Len(image.blocklist) - 1) /\ U \subseteq 0..(Len(image.blocklist) - 1)
  BY <1>1, TouchedBlocks
<1>3. C \subseteq Pushed(r) /\ U \subseteq Pushed(r) /\ \A k \in Pushed(r) : k \in C \/ k \in U
  BY DEF CachedBlocks
<1>4. \A k \in C : BlockOf(k).fblocknum \in cache
  BY DEF CachedBlocks
<1>5. \A k \in U : BlockOf(k).fblocknum \notin cache
  BY DEF CachedBlocks
<1>6. cached \in FblockLists(C) /\ uncached \in FblockLists(U)
  BY DEF Lists
<1> HIDE DEF C, U
<1>7. MadeOf(cached, C)
  BY <1>2, <1>6, ListElements
<1>8. MadeOf(uncached, U)
  BY <1>2, <1>6, ListElements
<1>9. /\ \A i \in 1..Len(cached) : cached[i] \in cache
      /\ \A i \in 1..Len(uncached) : uncached[i] \notin cache
  BY <1>4, <1>5, <1>7, <1>8 DEF MadeOf
<1>10. ASSUME BitsTellApart(r)
       PROVE  /\ \A i, j \in 1..Len(cached) : cached[i] = cached[j] => i = j
              /\ \A i, j \in 1..Len(uncached) : uncached[i] = uncached[j] => i = j
  <2>1. \A j, k \in Pushed(r) : BlockOf(j).fblocknum = BlockOf(k).fblocknum => j = k
    BY <1>10, PushedOnce
  <2> QED BY <1>3, <1>7, <1>8, <2>1 DEF MadeOf
<1>11. ASSUME BitsTellApart(r), NEW k \in Touched(r)
       PROVE  \/ \E i \in 1..Len(cached) : cached[i] = BlockOf(k).fblocknum
              \/ \E i \in 1..Len(uncached) : uncached[i] = BlockOf(k).fblocknum
  <2>1. PICK j \in Pushed(r) : BlockOf(j).fblocknum = BlockOf(k).fblocknum
    BY <1>11, PushedOnce
  <2> QED BY <1>3, <1>7, <1>8, <2>1 DEF MadeOf
<1> QED BY <1>7, <1>8, <1>9, <1>10, <1>11 DEF MadeOf

(* w is a, with b behind it.                                                *)
Joined(w, a, b) ==
    /\ Len(a) \in Nat /\ Len(b) \in Nat /\ Len(w) = Len(a) + Len(b)
    /\ \A i \in 1..Len(w) : w[i] = IF i <= Len(a) THEN a[i] ELSE b[i - Len(a)]

(* The work of a thread: its shares of both lists.                          *)
LEMMA WorkElements ==
    ASSUME image \in Images, readers \in 1..Threads, NEW r \in [offset : Nat, size : Nat],
           NEW cached, NEW uncached, Lists(r, cached, uncached), NEW t \in Reader
    PROVE  /\ work'[t] \in Seq(Nat)
           /\ t > readers => work'[t] = <<>>
           /\ t \in 1..readers => Joined(work'[t], Share(cached, t), Share(uncached, t))
<1>1. work'[t] = IF t > readers THEN <<>> ELSE Share(cached, t) \o Share(uncached, t)
  BY DEF Lists
<1>2. readers \in Nat \ {0} /\ t \in Nat \ {0}
  BY ReadParameters DEF Reader
<1>3. CASE t > readers
  BY <1>1, <1>2, <1>3
<1>4. CASE t \in 1..readers
  <2>1. cached \in Seq(Nat) /\ uncached \in Seq(Nat)
    BY ListFacts
  <2>2. Share(cached, t) \in Seq(Nat) /\ Share(uncached, t) \in Seq(Nat)
    BY <1>2, <1>4, <2>1, ShareElements
  <2>3. work'[t] = Share(cached, t) \o Share(uncached, t)
    BY <1>1, <1>2, <1>4
  <2> HIDE DEF Share
  <2>4. /\ Share(cached, t) \o Share(uncached, t) \in Seq(Nat)
        /\ Len(Share(cached, t) \o Share(uncached, t)) = Len(Share(cached, t)) + Len(Share(uncached, t))
        /\ \A i \in 1..(Len(Share(cached, t)) + Len(Share(uncached, t))) :
              (Share(cached, t) \o Share(uncached, t))[i]
                = IF i <= Len(Share(cached, t)) THEN Share(cached, t)[i]
                  ELSE Share(uncached, t)[i - Len(Share(cached, t))]
    BY <2>2, ConcatProperties
  <2>5. Len(Share(cached, t)) \in Nat /\ Len(Share(uncached, t)) \in Nat
    BY <2>2, LenProperties
  <2>6. ~(t > readers)
    BY <1>2, <1>4
  <2> QED BY <2>3, <2>4, <2>5, <2>6 DEF Joined
<1> QED BY <1>2, <1>3, <1>4

(* Where an element of the work comes from.                                 *)
LEMMA WorkSource ==
    ASSUME image \in Images, readers \in 1..Threads, NEW r \in [offset : Nat, size : Nat],
           NEW cached, NEW uncached, Lists(r, cached, uncached),
           NEW t \in Reader, NEW i \in 1..Len(work'[t])
    PROVE  /\ t \in 1..readers
           /\ i <= Len(Share(cached, t)) =>
                /\ i \in 1..Len(Share(cached, t))
                /\ At(Len(cached), t, i) \in 1..Len(cached)
                /\ work'[t][i] = cached[At(Len(cached), t, i)]
           /\ ~(i <= Len(Share(cached, t))) =>
                /\ i - Len(Share(cached, t)) \in 1..Len(Share(uncached, t))
                /\ At(Len(uncached), t, i - Len(Share(cached, t))) \in 1..Len(uncached)
                /\ work'[t][i] = uncached[At(Len(uncached), t, i - Len(Share(cached, t)))]
<1>1. readers \in Nat \ {0} /\ t \in Nat \ {0}
  BY ReadParameters DEF Reader
<1>2. t \in 1..readers
  <2>1. SUFFICES ASSUME t > readers PROVE FALSE
    BY <1>1
  <2>2. work'[t] = <<>>
    BY <2>1, WorkElements
  <2> QED BY <2>2
<1>3. cached \in Seq(Nat) /\ uncached \in Seq(Nat)
  BY ListFacts
<1>a. Joined(work'[t], Share(cached, t), Share(uncached, t))
  BY <1>2, WorkElements
<1>4. PICK a \in Nat, b \in Nat : /\ a = Len(Share(cached, t)) /\ b = Len(Share(uncached, t))
                                  /\ Len(work'[t]) = a + b
  BY <1>a DEF Joined
<1>5. work'[t][i] = IF i <= a THEN Share(cached, t)[i] ELSE Share(uncached, t)[i - a]
  BY <1>4, <1>a DEF Joined
<1>6. CASE i <= a
  <2>1. i \in 1..a
    BY <1>4, <1>6
  <2>2. /\ At(Len(cached), t, i) \in 1..Len(cached)
        /\ Share(cached, t)[i] = cached[At(Len(cached), t, i)]
    BY <1>1, <1>2, <1>3, <1>4, <2>1, ShareElements
  <2> QED BY <1>2, <1>4, <1>5, <1>6, <2>1, <2>2
<1>7. CASE ~(i <= a)
  <2>1. i - a \in 1..b
    BY <1>4, <1>7
  <2>2. /\ At(Len(uncached), t, i - a) \in 1..Len(uncached)
        /\ Share(uncached, t)[i - a] = uncached[At(Len(uncached), t, i - a)]
    BY <1>1, <1>2, <1>3, <1>4, <2>1, ShareElements
  <2> QED BY <1>2, <1>4, <1>5, <1>7, <2>1, <2>2
<1> QED BY <1>6, <1>7

(* The work of the first list is cached.                                    *)
LEMMA WorkCached ==
    ASSUME image \in Images, readers \in 1..Threads, NEW r \in [offset : Nat, size : Nat],
           NEW cached, NEW uncached, Lists(r, cached, uncached),
           NEW t \in Reader, NEW i \in 1..Len(work'[t])
    PROVE  work'[t][i] \in cache <=> i <= Len(Share(cached, t))
<1>1. \A e \in 1..Len(cached) : cached[e] \in cache
  BY ListFacts
<1>2. \A e \in 1..Len(uncached) : uncached[e] \notin cache
  BY ListFacts
<1>3. CASE i <= Len(Share(cached, t))
  <2>1. /\ At(Len(cached), t, i) \in 1..Len(cached)
        /\ work'[t][i] = cached[At(Len(cached), t, i)]
    BY <1>3, WorkSource
  <2> QED BY <1>1, <1>3, <2>1
<1>4. CASE ~(i <= Len(Share(cached, t)))
  <2>1. PICK e \in 1..Len(uncached) : work'[t][i] = uncached[e]
    BY <1>4, WorkSource, SMTT(40)
  <2> QED BY <1>2, <1>4, <2>1
<1> QED BY <1>3, <1>4

(* No fblock is in the work twice, and all that are needed are in it.       *)
LEMMA WorkBegins ==
    ASSUME image \in Images, readers \in 1..Threads,
           NEW r \in [offset : Nat, size : Nat], BitsTellApart(r),
           NEW cached, NEW uncached, Lists(r, cached, uncached)
    PROVE  /\ WorkDistinct'
           /\ \A q \in StartOf(r)..(EndOf(r) - 1) :
                 \E t \in Reader : \E i \in 1..Len(work'[t]) : work'[t][i] = FblockAt(q)
<1>1. readers \in Nat \ {0} /\ \A t \in 1..readers : t \in Reader
  BY ReadParameters DEF Reader
<1>2. /\ cached \in Seq(Nat) /\ uncached \in Seq(Nat)
      /\ \A i \in 1..Len(cached) : cached[i] \in cache
      /\ \A i \in 1..Len(uncached) : uncached[i] \notin cache
      /\ \A i, j \in 1..Len(cached) : cached[i] = cached[j] => i = j
      /\ \A i, j \in 1..Len(uncached) : uncached[i] = uncached[j] => i = j
  BY ListFacts
<1>3. ASSUME NEW t \in Reader, NEW u \in Reader,
             NEW i \in 1..Len(work'[t]), NEW j \in 1..Len(work'[u]),
             work'[t][i] = work'[u][j]
      PROVE  t = u /\ i = j
  <2>1. t \in 1..readers /\ u \in 1..readers
    BY WorkSource
  <2>2. PICK a \in Nat, b \in Nat : a = Len(Share(cached, t)) /\ b = Len(Share(cached, u))
    BY <2>1, WorkElements DEF Joined
  <2>a. Len(work'[t]) \in Nat /\ Len(work'[u]) \in Nat
    BY WorkElements, LenProperties
  <2>3. CASE i <= a /\ j <= b
    <3>1. /\ i \in 1..a /\ At(Len(cached), t, i) \in 1..Len(cached)
          /\ work'[t][i] = cached[At(Len(cached), t, i)]
      BY <2>2, <2>3, WorkSource
    <3>2. /\ j \in 1..b /\ At(Len(cached), u, j) \in 1..Len(cached)
          /\ work'[u][j] = cached[At(Len(cached), u, j)]
      BY <2>2, <2>3, WorkSource
    <3>3. At(Len(cached), t, i) = At(Len(cached), u, j)
      BY <1>2, <1>3, <3>1, <3>2
    <3> QED BY <1>1, <1>2, <2>1, <2>2, <3>1, <3>2, <3>3, SharedOnce
  <2>4. CASE ~(i <= a) /\ ~(j <= b)
    <3>1. /\ i - a \in 1..Len(Share(uncached, t))
          /\ At(Len(uncached), t, i - a) \in 1..Len(uncached)
          /\ work'[t][i] = uncached[At(Len(uncached), t, i - a)]
      BY <2>2, <2>4, WorkSource
    <3>2. /\ j - b \in 1..Len(Share(uncached, u))
          /\ At(Len(uncached), u, j - b) \in 1..Len(uncached)
          /\ work'[u][j] = uncached[At(Len(uncached), u, j - b)]
      BY <2>2, <2>4, WorkSource
    <3>3. At(Len(uncached), t, i - a) = At(Len(uncached), u, j - b)
      BY <1>2, <1>3, <3>1, <3>2
    <3>a. PICK x, y : x = i - a /\ y = j - b
      OBVIOUS
    <3>b. /\ x \in 1..Len(Share(uncached, t)) /\ y \in 1..Len(Share(uncached, u))
          /\ At(Len(uncached), t, x) = At(Len(uncached), u, y)
      BY <3>1, <3>2, <3>3, <3>a
    <3>4. t = u /\ i - a = j - b
      BY <1>1, <1>2, <2>1, <3>a, <3>b, SharedOnce, ZenonT(40)
    <3>5. a = b
      BY <2>2, <3>4
    <3> QED BY <2>2, <2>a, <3>4, <3>5
  <2>5. CASE i <= a /\ ~(j <= b)
    <3>1. work'[t][i] \in cache
      BY <2>2, <2>5, WorkCached
    <3>2. work'[u][j] \notin cache
      BY <2>2, <2>5, WorkCached
    <3> QED BY <1>3, <3>1, <3>2
  <2>6. CASE ~(i <= a) /\ j <= b
    <3>1. work'[t][i] \notin cache
      BY <2>2, <2>6, WorkCached
    <3>2. work'[u][j] \in cache
      BY <2>2, <2>6, WorkCached
    <3> QED BY <1>3, <3>1, <3>2
  <2> QED BY <2>3, <2>4, <2>5, <2>6
<1>4. ASSUME NEW q \in StartOf(r)..(EndOf(r) - 1)
      PROVE  \E t \in Reader : \E i \in 1..Len(work'[t]) : work'[t][i] = FblockAt(q)
  <2>1. q \div image.bsize \in Touched(r)
    BY TouchedBlocks
  <2>2. FblockAt(q) = BlockOf(q \div image.bsize).fblocknum
    BY DEF FblockAt, BlockAt
  <2>3. ASSUME NEW e \in 1..Len(cached), cached[e] = FblockAt(q)
        PROVE  \E t \in Reader : \E i \in 1..Len(work'[t]) : work'[t][i] = FblockAt(q)
    <3>1. PICK t \in 1..readers : \E i \in 1..Len(Share(cached, t)) : Share(cached, t)[i] = cached[e]
      BY <1>1, <1>2, EveryShared
    <3>2. PICK i \in 1..Len(Share(cached, t)) : Share(cached, t)[i] = cached[e]
      BY <3>1
    <3>a. t \in Reader
      BY <1>1
    <3>b. Joined(work'[t], Share(cached, t), Share(uncached, t))
      BY <3>a, WorkElements
    <3>3. PICK a \in Nat, b \in Nat : /\ a = Len(Share(cached, t)) /\ b = Len(Share(uncached, t))
                                      /\ Len(work'[t]) = a + b
      BY <3>b DEF Joined
    <3>4. i \in 1..(a + b) /\ i <= a
      BY <3>3
    <3>5. work'[t][i] = Share(cached, t)[i]
      BY <3>b, <3>3, <3>4 DEF Joined
    <3> QED BY <3>a, <2>3, <3>2, <3>3, <3>4, <3>5
  <2>4. ASSUME NEW e \in 1..Len(uncached), uncached[e] = FblockAt(q)
        PROVE  \E t \in Reader : \E i \in 1..Len(work'[t]) : work'[t][i] = FblockAt(q)
    <3>1. PICK t \in 1..readers : \E i \in 1..Len(Share(uncached, t)) : Share(uncached, t)[i] = uncached[e]
      BY <1>1, <1>2, EveryShared
    <3>2. PICK i \in 1..Len(Share(uncached, t)) : Share(uncached, t)[i] = uncached[e]
      BY <3>1
    <3>a. t \in Reader
      BY <1>1
    <3>b. Joined(work'[t], Share(cached, t), Share(uncached, t))
      BY <3>a, WorkElements
    <3>3. PICK a \in Nat, b \in Nat : /\ a = Len(Share(cached, t)) /\ b = Len(Share(uncached, t))
                                      /\ Len(work'[t]) = a + b
      BY <3>b DEF Joined
    <3>4. PICK x \in 1..(a + b) : ~(x <= a) /\ x - a = i
      <4>1. a + i \in 1..(a + b) /\ ~(a + i <= a) /\ (a + i) - a = i
        BY <3>3
      <4> QED BY <4>1
    <3>5. work'[t][x] = Share(uncached, t)[x - a]
      BY <3>b, <3>3, <3>4 DEF Joined
    <3> QED BY <3>a, <2>4, <3>2, <3>3, <3>4, <3>5
  <2> QED BY <2>1, <2>2, <2>3, <2>4, ListFacts
<1> QED BY <1>3, <1>4 DEF WorkDistinct

-----------------------------------------------------------------------------
(* Types and places, whatever the bits are.                                 *)

LEMMA BaseInitial ==
    ASSUME ReadInit PROVE BaseInv
<1>1. TypeInv
  <2>1. <<>> \in Seq(Nat) /\ 0 \in Nat /\ FALSE \in BOOLEAN
    OBVIOUS
  <2> QED BY <2>1 DEF ReadInit, TypeInv
<1> QED BY <1>1 DEF ReadInit, BaseInv, ThreadInv

(* The places of a request stay while it is the same.                       *)
LEMMA SamePlaces ==
    ASSUME image' = image, request' = request
    PROVE  /\ StartPos' = StartPos /\ EndPos' = EndPos
           /\ \A q : FblockAt(q)' = FblockAt(q) /\ FileByte(q)' = FileByte(q)
  BY DEF StartPos, EndPos, StartOf, EndOf, FblockAt, BlockAt, BlockOf, FileByte

(* BeginRead.                                                               *)
LEMMA BaseBegin ==
    ASSUME BaseInv, NEW r \in Requests, BeginRead(r)
    PROVE  /\ BaseInv' /\ image' = image /\ readers' = readers
           /\ StartPos' = StartOf(r) /\ EndPos' = EndOf(r)
           /\ \E cached, uncached : Lists(r, cached, uncached)
<1>1. /\ image' = image /\ readers' = readers /\ request' = r /\ stage' = "parallel" /\ stage = "idle"
      /\ loading' = loading /\ pos' = [t \in Reader |-> StartOf(r)]
  BY DEF BeginRead
<1>2. r \in [offset : Nat, size : Nat]
  BY ReadParameters
<1>3. image \in Images /\ readers \in 1..Threads /\ loading \in [Reader -> BOOLEAN]
  BY DEF BaseInv, TypeInv
<1>4. StartPos' = StartOf(r) /\ EndPos' = EndOf(r)
  BY <1>1 DEF StartPos, EndPos, StartOf, EndOf
<1>5. StartOf(r) \in Nat /\ EndOf(r) \in Nat /\ StartOf(r) <= EndOf(r)
  BY <1>2, <1>3, RangeType
<1>6. PICK cached, uncached : Lists(r, cached, uncached)
  BY DEF BeginRead, Lists
<1>7. \A t \in Reader : work'[t] \in Seq(Nat)
  BY <1>2, <1>3, <1>6, WorkElements
<1>8. work' \in [Reader -> Seq(Nat)]
  <2>1. work' = [t \in Reader |-> work'[t]]
    BY <1>6 DEF Lists
  <2> QED BY <1>7, <2>1
<1>9. pos' \in [Reader -> Nat] /\ \A t \in Reader : pos'[t] \in StartPos'..EndPos'
  BY <1>1, <1>4, <1>5
<1>10. TypeInv'
  BY <1>1, <1>2, <1>3, <1>8, <1>9 DEF TypeInv
<1>11. \A t \in Reader : ~loading'[t]
  BY <1>1 DEF BaseInv, ThreadInv
<1>12. ThreadInv'
  BY <1>9, <1>11 DEF ThreadInv
<1> QED BY <1>1, <1>4, <1>6, <1>10, <1>12 DEF BaseInv

(* SkipBlock.                                                               *)
LEMMA BaseSkip ==
    ASSUME BaseInv, NEW t \in Reader, SkipBlock(t)
    PROVE  BaseInv' /\ image' = image /\ request' = request /\ stage' = "parallel"
<1>1. /\ image' = image /\ readers' = readers /\ request' = request /\ loading' = loading
      /\ stage = "parallel" /\ stage' = stage /\ work[t] # <<>> /\ ~loading[t]
  BY DEF SkipBlock
<1>2. /\ image \in Images /\ request \in [offset : Nat, size : Nat]
      /\ work \in [Reader -> Seq(Nat)] /\ pos \in [Reader -> Nat]
  BY DEF BaseInv, TypeInv
<1>3. StartPos' = StartPos /\ EndPos' = EndPos /\ \A q : FblockAt(q)' = FblockAt(q)
  BY <1>1, SamePlaces
<1>4. StartPos \in Nat /\ EndPos \in Nat /\ StartPos <= EndPos
  BY <1>2, RangeType DEF StartPos, EndPos
<1>5. pos[t] \in StartPos..EndPos
  BY <1>1 DEF BaseInv, ThreadInv
<1>6. CASE pos[t] < EndPos
  <2>1. work' = work /\ pos' = [pos EXCEPT ![t] = pos[t] + Consume(pos[t])]
    BY <1>6 DEF SkipBlock
  <2>2. pos[t] + Consume(pos[t]) \in StartPos..EndPos
    <3>1. Consume(pos[t]) \in 1..(EndPos - pos[t])
      BY <1>2, <1>6, CopyRight
    <3> QED BY <1>4, <1>5, <3>1
  <2>3. pos' \in [Reader -> Nat]
    BY <1>2, <1>4, <2>1, <2>2
  <2>4. TypeInv'
    BY <1>1, <2>1, <2>3 DEF BaseInv, TypeInv
  <2>5. \A u \in Reader : pos'[u] = IF u = t THEN pos[t] + Consume(pos[t]) ELSE pos[u]
    BY <1>2, <2>1
  <2>6. ThreadInv'
    BY <1>1, <1>3, <2>1, <2>2, <2>5 DEF BaseInv, ThreadInv
  <2> QED BY <1>1, <2>4, <2>6 DEF BaseInv
<1>7. CASE ~(pos[t] < EndPos)
  <2>1. work' = [work EXCEPT ![t] = Tail(work[t])] /\ pos' = [pos EXCEPT ![t] = StartPos]
    BY <1>7 DEF SkipBlock
  <2>2. Tail(work[t]) \in Seq(Nat)
    BY <1>1, <1>2, HeadTailProperties
  <2>3. work' \in [Reader -> Seq(Nat)] /\ pos' \in [Reader -> Nat]
    BY <1>2, <1>4, <2>1, <2>2
  <2>4. TypeInv'
    BY <1>1, <2>3 DEF BaseInv, TypeInv
  <2>5. \A u \in Reader : /\ pos'[u] = IF u = t THEN StartPos ELSE pos[u]
                          /\ u # t => work'[u] = work[u]
    BY <1>2, <2>1
  <2>6. StartPos \in StartPos..EndPos
    BY <1>4
  <2>7. ThreadInv'
    BY <1>1, <1>3, <2>5, <2>6 DEF BaseInv, ThreadInv
  <2> QED BY <1>1, <2>4, <2>7 DEF BaseInv
<1> QED BY <1>6, <1>7

(* A block is copied.                                                       *)
LEMMA BaseCopy ==
    ASSUME BaseInv, NEW t \in Reader, CopyBlock(t), image' = image, readers' = readers,
           request' = request, stage = "parallel", stage' = stage, work' = work,
           loading' \in [Reader -> BOOLEAN], pos[t] < EndPos,
           \A u \in Reader : loading'[u] => u # t /\ loading[u]
    PROVE  BaseInv'
<1>2. /\ image \in Images /\ request \in [offset : Nat, size : Nat] /\ pos \in [Reader -> Nat]
  BY DEF BaseInv, TypeInv
<1>3. StartPos' = StartPos /\ EndPos' = EndPos /\ \A q : FblockAt(q)' = FblockAt(q)
  BY SamePlaces
<1>4. StartPos \in Nat /\ EndPos \in Nat
  BY <1>2, RangeType DEF StartPos, EndPos
<1>5. pos[t] \in StartPos..EndPos
  BY DEF BaseInv, ThreadInv
<1>6. pos' = [pos EXCEPT ![t] = pos[t] + Consume(pos[t])]
  BY DEF CopyBlock
<1>7. pos[t] + Consume(pos[t]) \in StartPos..EndPos
  <2>1. Consume(pos[t]) \in 1..(EndPos - pos[t])
    BY <1>2, CopyRight
  <2> QED BY <1>4, <1>5, <2>1
<1>8. pos' \in [Reader -> Nat]
  BY <1>2, <1>4, <1>6, <1>7
<1>9. TypeInv'
  BY <1>8 DEF BaseInv, TypeInv
<1>10. \A u \in Reader : pos'[u] = IF u = t THEN pos[t] + Consume(pos[t]) ELSE pos[u]
  BY <1>2, <1>6
<1>11. ThreadInv'
  BY <1>3, <1>7, <1>10 DEF BaseInv, ThreadInv
<1> QED BY <1>9, <1>11 DEF BaseInv

(* FindFblock: the fblock is there, or it is to be decompressed.            *)
FoundIn(t) ==
    /\ CopyBlock(t) /\ UNCHANGED <<loading, loads>> /\ Head(work[t]) \in cache

Missed(t) ==
    /\ Head(work[t]) \notin cache \/ Racing(t)
    /\ loading' = [loading EXCEPT ![t] = TRUE] /\ loads' = Append(loads, Head(work[t]))
    /\ UNCHANGED <<target, pos, result>>

LEMMA BaseFind ==
    ASSUME BaseInv, NEW t \in Reader, FindFblock(t)
    PROVE  /\ BaseInv' /\ (FoundIn(t) \/ Missed(t))
           /\ image' = image /\ readers' = readers /\ request' = request /\ stage = "parallel" /\ stage' = stage
           /\ work' = work /\ cache' = cache
           /\ work[t] # <<>> /\ ~loading[t] /\ pos[t] < EndPos /\ FblockAt(pos[t]) = Head(work[t])
<1>1. /\ image' = image /\ readers' = readers /\ request' = request /\ stage = "parallel" /\ stage' = stage
      /\ work' = work /\ cache' = cache
      /\ work[t] # <<>> /\ ~loading[t] /\ pos[t] < EndPos /\ FblockAt(pos[t]) = Head(work[t])
  BY DEF FindFblock, FblockAt
<1>2. FoundIn(t) \/ Missed(t)
  BY DEF FindFblock, FoundIn, Missed
<1>3. loading \in [Reader -> BOOLEAN]
  BY DEF BaseInv, TypeInv
<1>4. CASE FoundIn(t)
  <2>1. CopyBlock(t) /\ loading' = loading
    BY <1>4 DEF FoundIn
  <2>2. \A u \in Reader : loading'[u] => u # t /\ loading[u]
    BY <1>1, <2>1
  <2>3. BaseInv'
    BY <1>1, <1>3, <2>1, <2>2, BaseCopy
  <2> QED BY <1>1, <1>2, <2>3
<1>5. CASE Missed(t)
  <2>1. loading' = [loading EXCEPT ![t] = TRUE] /\ pos' = pos
    BY <1>5 DEF Missed
  <2>2. \A u \in Reader : loading'[u] => u = t \/ loading[u]
    BY <1>3, <2>1
  <2>3. StartPos' = StartPos /\ EndPos' = EndPos /\ \A q : FblockAt(q)' = FblockAt(q)
    BY <1>1, SamePlaces
  <2>4. loading' \in [Reader -> BOOLEAN]
    BY <1>3, <2>1
  <2>5. TypeInv'
    BY <1>1, <2>1, <2>4 DEF BaseInv, TypeInv
  <2>6. ThreadInv'
    BY <1>1, <2>1, <2>2, <2>3 DEF BaseInv, ThreadInv
  <2> QED BY <1>1, <1>2, <2>5, <2>6 DEF BaseInv
<1> QED BY <1>2, <1>4, <1>5

(* PutFblock.                                                               *)
LEMMA BasePut ==
    ASSUME BaseInv, NEW t \in Reader, PutFblock(t)
    PROVE  /\ BaseInv' /\ CopyBlock(t)
           /\ image' = image /\ readers' = readers /\ request' = request /\ stage = "parallel" /\ stage' = stage
           /\ work' = work /\ loads' = loads /\ cache' = cache \cup {Head(work[t])}
           /\ \A u \in Reader : loading'[u] <=> u # t /\ loading[u]
           /\ work[t] # <<>> /\ loading[t] /\ pos[t] < EndPos /\ FblockAt(pos[t]) = Head(work[t])
<1>1. /\ image' = image /\ readers' = readers /\ request' = request /\ stage = "parallel" /\ stage' = stage
      /\ work' = work /\ loads' = loads /\ cache' = cache \cup {Head(work[t])} /\ loading[t]
      /\ loading' = [loading EXCEPT ![t] = FALSE] /\ CopyBlock(t)
  BY DEF PutFblock, Put
<1>2. loading \in [Reader -> BOOLEAN]
  BY DEF BaseInv, TypeInv
<1>3. /\ loading' \in [Reader -> BOOLEAN]
      /\ \A u \in Reader : loading'[u] <=> u # t /\ loading[u]
  BY <1>1, <1>2
<1>4. work[t] # <<>> /\ pos[t] < EndPos /\ FblockAt(pos[t]) = Head(work[t])
  BY <1>1 DEF BaseInv, ThreadInv
<1>5. BaseInv'
  BY <1>1, <1>3, <1>4, BaseCopy
<1> QED BY <1>1, <1>3, <1>4, <1>5

(* The end of the parallel region, CheckAges, or nothing.                   *)
LEMMA BaseEnd ==
    ASSUME BaseInv, EndParallel \/ CheckAges \/ UNCHANGED readVars
    PROVE  BaseInv'
<1>1. /\ image' = image /\ readers' = readers /\ request' = request
      /\ work' = work /\ pos' = pos /\ loading' = loading
  BY DEF EndParallel, CheckAges, readVars, threadVars
<1>2. StartPos' = StartPos /\ EndPos' = EndPos /\ \A q : FblockAt(q)' = FblockAt(q)
  BY <1>1, SamePlaces
<1>3. stage' = stage \/ (stage' # "parallel" /\ stage' \in {"idle", "age"})
  BY DEF EndParallel, CheckAges, readVars
<1>4. (\E u \in Reader : loading[u]) => stage' = stage
  <2>1. ASSUME NEW u \in Reader, loading[u] PROVE stage' = stage
    <3>1. stage = "parallel" /\ work[u] # <<>>
      BY <2>1 DEF BaseInv, ThreadInv
    <3> QED BY <3>1 DEF EndParallel, CheckAges, readVars
  <2> QED BY <2>1
<1>5. TypeInv'
  BY <1>1, <1>3 DEF BaseInv, TypeInv
<1>6. ThreadInv'
  BY <1>1, <1>2, <1>3, <1>4 DEF BaseInv, ThreadInv
<1> QED BY <1>5, <1>6 DEF BaseInv

-----------------------------------------------------------------------------
(* The buffer.                                                              *)

(* BeginRead: all is pending.                                               *)
LEMMA ReadBegin ==
    ASSUME BaseInv, NEW r \in Requests, BeginRead(r), BitsTellApart(r)
    PROVE  ReadInv'
<1>1. /\ BaseInv' /\ image' = image /\ readers' = readers
      /\ StartPos' = StartOf(r) /\ EndPos' = EndOf(r)
  BY BaseBegin
<1>2. PICK cached, uncached : Lists(r, cached, uncached)
  BY BaseBegin
<1>3. r \in [offset : Nat, size : Nat] /\ image \in Images /\ readers \in 1..Threads
  BY ReadParameters DEF BaseInv, TypeInv
<1>4. /\ WorkDistinct'
      /\ \A q \in StartOf(r)..(EndOf(r) - 1) :
            \E t \in Reader : \E i \in 1..Len(work'[t]) : work'[t][i] = FblockAt(q)
  BY <1>2, <1>3, WorkBegins
<1>5. \A q : FblockAt(q)' = FblockAt(q)
  BY <1>1 DEF FblockAt, BlockAt, BlockOf
<1>6. \A t \in Reader : pos'[t] = StartOf(r)
  BY DEF BeginRead
<1>7. \A q \in StartOf(r)..(EndOf(r) - 1) : q >= StartOf(r)
  <2>1. StartOf(r) \in Nat /\ EndOf(r) \in Nat
    BY <1>3, RangeType
  <2> QED BY <2>1
<1>8. \A q \in StartOf(r)..(EndOf(r) - 1) : Pending(q)'
  BY <1>4, <1>5, <1>6, <1>7 DEF Pending
<1>9. target' = <<>> /\ result' = 0 /\ stage' = "parallel"
  BY DEF BeginRead
<1>10. DOMAIN target' = {}
  BY <1>9
<1>11. target' = [q \in DOMAIN target' |-> FileByte(q)']
  BY <1>9, <1>10
<1>12. IsFiniteSet(DOMAIN target') /\ result' = Cardinality(DOMAIN target')
  BY <1>9, <1>10, FS_EmptySet
<1>13. DOMAIN target' = {q \in StartPos'..(EndPos' - 1) : ~Pending(q)'}
  BY <1>1, <1>8, <1>10
<1>14. TargetInv'
  BY <1>9, <1>11, <1>12, <1>13 DEF TargetInv
<1> QED BY <1>1, <1>4, <1>14 DEF ReadInv

(* SkipBlock: nothing that was pending is left out.                         *)
LEMMA ReadSkip ==
    ASSUME ReadInv, NEW t \in Reader, SkipBlock(t)
    PROVE  ReadInv'
<1>1. BaseInv' /\ image' = image /\ request' = request /\ stage' = "parallel"
  BY BaseSkip DEF ReadInv
<1>2. /\ stage = "parallel" /\ work[t] # <<>> /\ target' = target /\ result' = result
  BY DEF SkipBlock
<1>3. /\ image \in Images /\ request \in [offset : Nat, size : Nat]
      /\ work \in [Reader -> Seq(Nat)] /\ pos \in [Reader -> Nat]
  BY DEF ReadInv, BaseInv, TypeInv
<1>4. /\ StartPos' = StartPos /\ EndPos' = EndPos
      /\ \A q : FblockAt(q)' = FblockAt(q) /\ FileByte(q)' = FileByte(q)
  BY <1>1, SamePlaces
<1>5. StartPos \in Nat /\ EndPos \in Nat /\ pos[t] \in Nat /\ pos[t] \in StartPos..EndPos
  BY <1>2, <1>3, RangeType DEF StartPos, EndPos, ReadInv, BaseInv, ThreadInv
<1>6. /\ Len(work[t]) \in Nat \ {0} /\ Head(work[t]) = work[t][1]
  BY <1>2, <1>3
<1>7. ASSUME WorkDistinct', \A q \in StartPos..(EndPos - 1) : Pending(q)' <=> Pending(q)
      PROVE  ReadInv'
  <2>1. DOMAIN target' = {q \in StartPos'..(EndPos' - 1) : ~Pending(q)'}
    <3>1. DOMAIN target = {q \in StartPos..(EndPos - 1) : ~Pending(q)}
      BY <1>2 DEF ReadInv, TargetInv
    <3>2. {q \in StartPos..(EndPos - 1) : ~Pending(q)} = {q \in StartPos..(EndPos - 1) : ~Pending(q)'}
      BY <1>7
    <3> QED BY <1>2, <1>4, <3>1, <3>2
  <2>2. target' = [q \in DOMAIN target' |-> FileByte(q)']
    BY <1>2, <1>4 DEF ReadInv, TargetInv
  <2>3. TargetInv'
    BY <1>1, <1>2, <2>1, <2>2 DEF ReadInv, TargetInv
  <2> QED BY <1>1, <1>7, <2>3 DEF ReadInv
<1>8. CASE pos[t] < EndPos
  <2>1. /\ work' = work /\ pos' = [pos EXCEPT ![t] = pos[t] + Consume(pos[t])]
        /\ FblockAt(pos[t]) # work[t][1]
    BY <1>6, <1>8 DEF SkipBlock, FblockAt
  <2>2. PICK n \in Nat : n = Consume(pos[t])
    BY <1>3, <1>5, <1>8, CopyRight
  <2>3. \A q \in pos[t]..(pos[t] + n - 1) : FblockAt(q) = FblockAt(pos[t])
    BY <1>3, <1>5, <1>8, <2>2, CopyRight
  <2>4. \A u \in Reader : pos'[u] = IF u = t THEN pos[t] + n ELSE pos[u]
    BY <1>3, <2>1, <2>2
  <2>5. ASSUME NEW q \in StartPos..(EndPos - 1), NEW u \in Reader, NEW i \in 1..Len(work[u]),
               work[u][i] = FblockAt(q)
        PROVE  (i > 1 \/ q >= pos'[u]) <=> (i > 1 \/ q >= pos[u])
    <3>1. CASE u # t
      BY <3>1, <2>4
    <3>2. CASE u = t /\ i = 1
      <4>1. q \notin pos[t]..(pos[t] + n - 1)
        BY <2>1, <2>3, <2>5, <3>2
      <4>2. q >= pos[t] + n <=> q >= pos[t]
        BY <1>5, <4>1
      <4> QED BY <2>4, <3>2, <4>2
    <3>3. CASE u = t /\ i # 1
      <4>1. i > 1
        BY <1>6, <3>3
      <4> QED BY <4>1
    <3> QED BY <3>1, <3>2, <3>3
  <2>6. \A q \in StartPos..(EndPos - 1) : Pending(q)' <=> Pending(q)
    BY <1>4, <2>1, <2>5 DEF Pending
  <2>7. WorkDistinct'
    BY <2>1 DEF ReadInv, WorkDistinct
  <2> QED BY <1>7, <2>6, <2>7
<1>9. CASE ~(pos[t] < EndPos)
  <2>1. work' = [work EXCEPT ![t] = Tail(work[t])] /\ pos' = [pos EXCEPT ![t] = StartPos]
    BY <1>9 DEF SkipBlock
  <2>2. \A u \in Reader : /\ work'[u] = IF u = t THEN Tail(work[t]) ELSE work[u]
                          /\ pos'[u] = IF u = t THEN StartPos ELSE pos[u]
    BY <1>3, <2>1
  <2>3. PICK m \in Nat : m = Len(work[t]) - 1 /\ Len(work'[t]) = m
    <3>1. work[t] \in Seq(Nat) /\ work'[t] = Tail(work[t])
      BY <1>3, <2>2
    <3>2. Len(Tail(work[t])) = Len(work[t]) - 1
      BY <1>2, <3>1, HeadTailProperties
    <3>3. Len(work[t]) - 1 \in Nat
      BY <1>6
    <3> QED BY <3>1, <3>2, <3>3
  <2>4. \A i \in 1..m : work'[t][i] = work[t][i + 1]
    <3>1. work[t] \in Seq(Nat) /\ work'[t] = Tail(work[t])
      BY <1>3, <2>2
    <3>2. \A i \in 1..Len(Tail(work[t])) : Tail(work[t])[i] = work[t][i + 1]
      BY <1>2, <3>1, HeadTailProperties
    <3> QED BY <2>3, <3>1, <3>2
  <2>5. ASSUME NEW q \in StartPos..(EndPos - 1) PROVE Pending(q)' <=> Pending(q)
    <3>1. ASSUME Pending(q) PROVE Pending(q)'
      <4>a. PICK u \in Reader : \E i \in 1..Len(work[u]) :
               work[u][i] = FblockAt(q) /\ (i > 1 \/ q >= pos[u])
        BY <3>1 DEF Pending
      <4>1. PICK i \in 1..Len(work[u]) : work[u][i] = FblockAt(q) /\ (i > 1 \/ q >= pos[u])
        BY <4>a
      <4>2. CASE u # t
        BY <1>4, <2>2, <4>1, <4>2 DEF Pending
      <4>3. CASE u = t
        <5>1. i > 1
          BY <1>5, <1>9, <4>1, <4>3
        <5>2. i - 1 \in 1..m /\ (i - 1) + 1 = i
          BY <1>6, <2>3, <4>3, <5>1
        <5>3. work'[t][i - 1] = FblockAt(q)
          BY <2>4, <4>1, <4>3, <5>2
        <5>4. q >= pos'[t]
          BY <1>5, <2>2
        <5> QED BY <1>4, <2>3, <5>2, <5>3, <5>4 DEF Pending
      <4> QED BY <4>2, <4>3
    <3>2. ASSUME Pending(q)' PROVE Pending(q)
      <4>a. PICK u \in Reader : \E i \in 1..Len(work'[u]) :
               work'[u][i] = FblockAt(q) /\ (i > 1 \/ q >= pos'[u])
        BY <1>4, <3>2 DEF Pending
      <4>1. PICK i \in 1..Len(work'[u]) : work'[u][i] = FblockAt(q) /\ (i > 1 \/ q >= pos'[u])
        BY <4>a
      <4>2. CASE u # t
        BY <2>2, <4>1, <4>2 DEF Pending
      <4>3. CASE u = t
        <5>1. i + 1 \in 1..Len(work[t]) /\ i + 1 > 1 /\ i \in 1..m
          BY <1>6, <2>3, <4>3
        <5>2. work[t][i + 1] = FblockAt(q)
          BY <2>4, <4>1, <4>3, <5>1
        <5> QED BY <5>1, <5>2 DEF Pending
      <4> QED BY <4>2, <4>3
    <3> QED BY <3>1, <3>2
  <2>6. WorkDistinct'
    <3>1. ASSUME NEW u \in Reader, NEW v \in Reader, NEW i \in 1..Len(work'[u]), NEW j \in 1..Len(work'[v]),
                 work'[u][i] = work'[v][j]
          PROVE  u = v /\ i = j
      <4>1. PICK x : x \in 1..Len(work[u]) /\ x = (IF u = t THEN i + 1 ELSE i) /\ work'[u][i] = work[u][x]
        BY <1>6, <2>2, <2>3, <2>4
      <4>2. PICK y : y \in 1..Len(work[v]) /\ y = (IF v = t THEN j + 1 ELSE j) /\ work'[v][j] = work[v][y]
        BY <1>6, <2>2, <2>3, <2>4
      <4>3. u = v /\ x = y
        <5>1. work[u][x] = work[v][y]
          BY <3>1, <4>1, <4>2
        <5>2. WorkDistinct
          BY DEF ReadInv
        <5> QED BY <4>1, <4>2, <5>1, <5>2 DEF WorkDistinct
      <4>4. i \in Int /\ j \in Int
        OBVIOUS
      <4> QED BY <4>1, <4>2, <4>3, <4>4
    <3> QED BY <3>1 DEF WorkDistinct
  <2> QED BY <1>7, <2>5, <2>6
<1> QED BY <1>8, <1>9

(* A block is copied: what was pending there is in the buffer now.          *)
LEMMA ReadCopy ==
    ASSUME ReadInv, BaseInv', NEW t \in Reader, CopyBlock(t), image' = image,
           request' = request, stage = "parallel", stage' = stage, work' = work,
           work[t] # <<>>, pos[t] < EndPos, FblockAt(pos[t]) = Head(work[t])
    PROVE  ReadInv'
<1>3. /\ image \in Images /\ request \in [offset : Nat, size : Nat]
      /\ work \in [Reader -> Seq(Nat)] /\ pos \in [Reader -> Nat]
  BY DEF ReadInv, BaseInv, TypeInv
<1>4. /\ StartPos' = StartPos /\ EndPos' = EndPos
      /\ \A q : FblockAt(q)' = FblockAt(q) /\ FileByte(q)' = FileByte(q)
  BY SamePlaces
<1>5. StartPos \in Nat /\ EndPos \in Nat /\ pos[t] \in Nat /\ pos[t] \in StartPos..EndPos
  BY <1>3, RangeType DEF StartPos, EndPos, ReadInv, BaseInv, ThreadInv
<1>6. Len(work[t]) \in Nat \ {0} /\ FblockAt(pos[t]) = work[t][1]
  BY <1>3
<1>7. PICK p \in Nat : p = pos[t]
  BY <1>5
<1>8. PICK n \in Nat : n = Consume(p) /\ n \in 1..(EndPos - p)
  BY <1>3, <1>5, <1>7, CopyRight
<1>9. \A q \in p..(p + n - 1) : FblockAt(q) = work[t][1]
  BY <1>3, <1>6, <1>7, <1>8, CopyRight
<1>10. Copy(p) = [q \in p..(p + n - 1) |-> FileByte(q)]
  BY <1>3, <1>7, <1>8, CopyRight
<1>11. \A u \in Reader : pos'[u] = IF u = t THEN p + n ELSE pos[u]
  BY <1>3, <1>7, <1>8 DEF CopyBlock
<1>12. \A q \in p..(p + n - 1) : q \in StartPos..(EndPos - 1)
  BY <1>5, <1>7, <1>8
<1>13. ASSUME NEW q \in p..(p + n - 1) PROVE Pending(q) /\ ~Pending(q)'
  <2>1. Pending(q)
    <3>1. 1 \in 1..Len(work[t]) /\ work[t][1] = FblockAt(q) /\ q >= pos[t]
      BY <1>6, <1>7, <1>9
    <3> QED BY <3>1 DEF Pending
  <2>2. ASSUME NEW u \in Reader, NEW i \in 1..Len(work[u]), work[u][i] = FblockAt(q),
               i > 1 \/ q >= pos'[u]
        PROVE  FALSE
    <3>1. u = t /\ i = 1
      BY <1>6, <1>9, <2>2 DEF ReadInv, WorkDistinct
    <3>2. ~(q >= p + n)
      OBVIOUS
    <3> QED BY <1>11, <2>2, <3>1, <3>2
  <2> QED BY <1>4, <2>1, <2>2 DEF Pending
<1>14. ASSUME NEW q \in StartPos..(EndPos - 1), q \notin p..(p + n - 1)
       PROVE  Pending(q)' <=> Pending(q)
  <2>1. q >= p + n <=> q >= p
    BY <1>5, <1>14
  <2>2. \A u \in Reader : q >= pos'[u] <=> q >= pos[u]
    BY <1>7, <1>11, <2>1
  <2> QED BY <1>4, <2>2 DEF Pending
<1> DEFINE D == {q \in StartPos..(EndPos - 1) : ~Pending(q)}
           N == p..(p + n - 1)
<1>15. DOMAIN target = D /\ IsFiniteSet(D) /\ result = Cardinality(D)
       /\ target = [q \in D |-> FileByte(q)]
  BY DEF ReadInv, TargetInv
<1>16. D \cap N = {}
  BY <1>13
<1>17. {q \in StartPos'..(EndPos' - 1) : ~Pending(q)'} = N \cup D
  BY <1>4, <1>12, <1>13, <1>14
<1>18. IsFiniteSet(N) /\ Cardinality(N) = n
  <2>1. p \in Int /\ p + n - 1 \in Int /\ ~(p > p + n - 1) /\ (p + n - 1) - p + 1 = n
    BY <1>8
  <2> QED BY <2>1, FS_Interval
<1> HIDE DEF D, N
<1>19. IsFiniteSet(N \cup D) /\ Cardinality(N \cup D) = result + n
  <2>1. N \cap D = {}
    BY <1>16
  <2>2. Cardinality(N \cup D) = Cardinality(N) + Cardinality(D) - Cardinality(N \cap D)
    BY <1>15, <1>18, FS_Union
  <2>3. Cardinality(N \cap D) = 0
    BY <2>1, FS_EmptySet
  <2>4. Cardinality(D) \in Nat
    BY <1>15, FS_CardinalityType
  <2>5. Cardinality(N) + Cardinality(D) - 0 = result + n
    BY <1>15, <1>18, <2>4
  <2>6. IsFiniteSet(N \cup D)
    BY <1>15, <1>18, FS_Union
  <2> QED BY <2>2, <2>3, <2>5, <2>6
<1>20. DOMAIN Copy(p) = N /\ \A q \in N : Copy(p)[q] = FileByte(q)
  BY <1>10 DEF N
<1>21. target' = [q \in N \cup D |-> FileByte(q)]
  <2>1. target' = [q \in N \cup D |-> IF q \in N THEN Copy(p)[q] ELSE target[q]]
    BY <1>7, <1>15, <1>20 DEF CopyBlock, Over
  <2>2. \A q \in N \cup D : (IF q \in N THEN Copy(p)[q] ELSE target[q]) = FileByte(q)
    BY <1>15, <1>20
  <2> QED BY <2>1, <2>2
<1>22. result' = result + n
  BY <1>7, <1>8 DEF CopyBlock
<1>23. DOMAIN target' = N \cup D
  BY <1>21
<1>24. target' = [q \in DOMAIN target' |-> FileByte(q)']
  BY <1>4, <1>21, <1>23
<1>25. TargetInv'
  BY <1>17, <1>19, <1>22, <1>23, <1>24 DEF TargetInv
<1>26. WorkDistinct'
  BY DEF ReadInv, WorkDistinct
<1> QED BY <1>25, <1>26 DEF ReadInv

(* A step that leaves the buffer and the threads' places as they are.       *)
LEMMA ReadSame ==
    ASSUME ReadInv, BaseInv', image' = image, request' = request, work' = work, pos' = pos,
           target' = target, result' = result,
           stage' = stage \/ stage' = "idle" \/ (stage = "parallel" /\ stage' = "age" /\ \A t \in Reader : work[t] = <<>>)
    PROVE  ReadInv'
<1>1. /\ StartPos' = StartPos /\ EndPos' = EndPos
      /\ \A q : FblockAt(q)' = FblockAt(q) /\ FileByte(q)' = FileByte(q)
  BY SamePlaces
<1>2. \A q : Pending(q)' <=> Pending(q)
  BY <1>1 DEF Pending
<1>3. WorkDistinct'
  BY DEF ReadInv, WorkDistinct
<1>4. stage' # "idle" => /\ target' = [q \in DOMAIN target' |-> FileByte(q)']
                         /\ IsFiniteSet(DOMAIN target')
                         /\ result' = Cardinality(DOMAIN target')
  <2>1. stage' # "idle" => stage # "idle"
    OBVIOUS
  <2> QED BY <1>1, <2>1 DEF ReadInv, TargetInv
<1>5. stage' = "parallel" => DOMAIN target' = {q \in StartPos'..(EndPos' - 1) : ~Pending(q)'}
  BY <1>1, <1>2 DEF ReadInv, TargetInv
<1>6. stage' = "age" => DOMAIN target' = StartPos'..(EndPos' - 1)
  <2>1. CASE stage' = stage
    BY <1>1, <2>1 DEF ReadInv, TargetInv
  <2>2. CASE stage = "parallel" /\ \A t \in Reader : work[t] = <<>>
    <3>1. \A t \in Reader : Len(work[t]) = 0
      BY <2>2
    <3>2. \A q : ~Pending(q)
      BY <3>1 DEF Pending
    <3>3. DOMAIN target = {q \in StartPos..(EndPos - 1) : ~Pending(q)}
      BY <2>2 DEF ReadInv, TargetInv
    <3> QED BY <1>1, <3>2, <3>3
  <2> QED BY <2>1, <2>2
<1> QED BY <1>3, <1>4, <1>5, <1>6 DEF ReadInv, TargetInv

(* Every step of a read keeps the invariant.                                *)
LEMMA ReadStep ==
    ASSUME ReadInv,
           (\E t \in Reader : ThreadStep(t)) \/ EndParallel \/ CheckAges \/ UNCHANGED readVars
    PROVE  ReadInv'
<1>0. BaseInv
  BY DEF ReadInv
<1>2. ASSUME NEW t \in Reader, SkipBlock(t) PROVE ReadInv'
  BY <1>2, ReadSkip
<1>3. ASSUME NEW t \in Reader, FindFblock(t) PROVE ReadInv'
  <2>1. /\ BaseInv' /\ (FoundIn(t) \/ Missed(t))
        /\ image' = image /\ request' = request /\ stage = "parallel" /\ stage' = stage /\ work' = work
        /\ work[t] # <<>> /\ pos[t] < EndPos /\ FblockAt(pos[t]) = Head(work[t])
    BY <1>0, <1>3, BaseFind
  <2>2. CASE FoundIn(t)
    BY <2>1, <2>2, ReadCopy DEF FoundIn
  <2>3. CASE Missed(t)
    <3>1. pos' = pos /\ target' = target /\ result' = result
      BY <2>3 DEF Missed
    <3> QED BY <2>1, <3>1, ReadSame
  <2> QED BY <2>1, <2>2, <2>3
<1>4. ASSUME NEW t \in Reader, PutFblock(t) PROVE ReadInv'
  BY <1>0, <1>4, BasePut, ReadCopy
<1>5. CASE EndParallel
  <2>1. BaseInv'
    BY <1>0, <1>5, BaseEnd
  <2>2. /\ image' = image /\ request' = request /\ work' = work /\ pos' = pos
        /\ target' = target /\ result' = result
        /\ stage = "parallel" /\ stage' = "age" /\ \A t \in Reader : work[t] = <<>>
    BY <1>5 DEF EndParallel, threadVars
  <2> QED BY <2>1, <2>2, ReadSame
<1>6. CASE CheckAges
  <2>1. BaseInv'
    BY <1>0, <1>6, BaseEnd
  <2>2. /\ image' = image /\ request' = request /\ work' = work /\ pos' = pos
        /\ target' = target /\ result' = result /\ stage' = "idle"
    BY <1>6 DEF CheckAges, threadVars
  <2> QED BY <2>1, <2>2, ReadSame
<1>7. CASE UNCHANGED readVars
  <2>1. BaseInv'
    BY <1>0, <1>7, BaseEnd
  <2>2. /\ image' = image /\ request' = request /\ work' = work /\ pos' = pos
        /\ target' = target /\ result' = result /\ stage' = stage
    BY <1>7 DEF readVars, threadVars
  <2> QED BY <2>1, <2>2, ReadSame
<1> QED BY <1>2, <1>3, <1>4, <1>5, <1>6, <1>7 DEF ThreadStep

(* Every step keeps the types and places, and what arrives belongs there.   *)
RightInv == BaseInv /\ ReadRight

LEMMA CopyKeepsRight ==
    ASSUME RightInv, NEW t \in Reader, CopyBlock(t), stage = "parallel", pos[t] < EndPos,
           image' = image, request' = request
    PROVE  ReadRight'
<1>1. /\ image \in Images /\ request \in [offset : Nat, size : Nat] /\ pos \in [Reader -> Nat]
      /\ pos[t] \in StartPos..EndPos
  BY DEF RightInv, BaseInv, TypeInv, ThreadInv
<1>2. StartPos \in Nat /\ EndPos \in Nat
  BY <1>1, RangeType DEF StartPos, EndPos
<1>3. PICK p \in Nat : p = pos[t] /\ p \in StartPos..EndPos
  BY <1>1, <1>2
<1>4. PICK n \in Nat : n = Consume(p) /\ n \in 1..(EndPos - p)
  BY <1>1, <1>3, <1>2, CopyRight
<1>5. Copy(p) = [q \in p..(p + n - 1) |-> FileByte(q)]
  BY <1>1, <1>3, <1>4, CopyRight
<1>6. \A q \in p..(p + n - 1) : q \in StartPos..(EndPos - 1)
  BY <1>2, <1>3, <1>4
<1>7. target' = Over(Copy(p), target)
  BY <1>3 DEF CopyBlock
<1>8. /\ DOMAIN target' = p..(p + n - 1) \cup DOMAIN target
      /\ \A q \in DOMAIN target' : target'[q] = IF q \in p..(p + n - 1) THEN FileByte(q) ELSE target[q]
  <2>1. DOMAIN Copy(p) = p..(p + n - 1) /\ \A q \in p..(p + n - 1) : Copy(p)[q] = FileByte(q)
    BY <1>5
  <2> QED BY <1>7, <2>1 DEF Over
<1>9. \A q \in DOMAIN target : q \in StartPos..(EndPos - 1) /\ target[q] = FileByte(q)
  BY DEF RightInv, ReadRight
<1>10. \A q \in DOMAIN target' : q \in StartPos..(EndPos - 1) /\ target'[q] = FileByte(q)
  BY <1>6, <1>8, <1>9
<1> QED BY <1>10, SamePlaces DEF ReadRight

LEMMA RightStep ==
    ASSUME RightInv, [ReadNext]_readVars PROVE RightInv'
<1>0. BaseInv /\ ReadRight
  BY DEF RightInv
<1>a. ASSUME image' = image, request' = request, target' = target, stage' # "idle" => stage # "idle"
      PROVE  ReadRight'
  <2>1. StartPos' = StartPos /\ EndPos' = EndPos /\ \A q : FileByte(q)' = FileByte(q)
    BY <1>a, SamePlaces
  <2> QED BY <1>0, <1>a, <2>1 DEF ReadRight
<1>1. ASSUME NEW r \in Requests, BeginRead(r) PROVE RightInv'
  <2>1. BaseInv'
    BY <1>0, <1>1, BaseBegin
  <2>2. target' = <<>>
    BY <1>1 DEF BeginRead
  <2>3. DOMAIN target' = {}
    BY <2>2
  <2> QED BY <2>1, <2>3 DEF RightInv, ReadRight
<1>2. ASSUME NEW t \in Reader, SkipBlock(t) PROVE RightInv'
  <2>1. BaseInv' /\ image' = image /\ request' = request /\ stage' = "parallel"
    BY <1>0, <1>2, BaseSkip
  <2>2. target' = target /\ stage = "parallel"
    BY <1>2 DEF SkipBlock
  <2> QED BY <1>a, <2>1, <2>2 DEF RightInv
<1>3. ASSUME NEW t \in Reader, FindFblock(t) PROVE RightInv'
  <2>1. /\ BaseInv' /\ (FoundIn(t) \/ Missed(t)) /\ pos[t] < EndPos
        /\ image' = image /\ request' = request /\ stage = "parallel" /\ stage' = stage
    BY <1>0, <1>3, BaseFind
  <2>2. CASE FoundIn(t)
    BY <2>1, <2>2, CopyKeepsRight DEF FoundIn, RightInv
  <2>3. CASE Missed(t)
    <3>1. target' = target
      BY <2>3 DEF Missed
    <3> QED BY <1>a, <2>1, <3>1 DEF RightInv
  <2> QED BY <2>1, <2>2, <2>3
<1>4. ASSUME NEW t \in Reader, PutFblock(t) PROVE RightInv'
  <2>1. /\ BaseInv' /\ CopyBlock(t) /\ pos[t] < EndPos
        /\ image' = image /\ request' = request /\ stage = "parallel" /\ stage' = stage
    BY <1>0, <1>4, BasePut
  <2> QED BY <2>1, CopyKeepsRight DEF RightInv
<1>5. CASE EndParallel \/ CheckAges \/ UNCHANGED readVars
  <2>1. BaseInv'
    BY <1>0, <1>5, BaseEnd
  <2>2. image' = image /\ request' = request /\ target' = target /\ (stage' # "idle" => stage # "idle")
    BY <1>5 DEF EndParallel, CheckAges, readVars, threadVars
  <2> QED BY <1>a, <2>1, <2>2 DEF RightInv
<1> QED BY <1>1, <1>2, <1>3, <1>4, <1>5 DEF ReadNext, ThreadStep

(* A read that can tell its fblocks apart is complete, whatever the reads   *)
(* before it were.                                                          *)
TellInv == RightInv /\ (BitsTellApart(request) => ReadInv)

LEMMA SameTell ==
    ASSUME image' = image, shift' = shift, NEW r, request' = r
    PROVE  BitsTellApart(request)' <=> BitsTellApart(r)
<1>1. \A k : BlockOf(k)' = BlockOf(k)
  BY DEF BlockOf
<1>2. \A f : FblockBit(f)' = FblockBit(f)
  BY DEF FblockBit
<1>3. Touched(request)' = Touched(r)
  BY DEF Touched, StartOf, EndOf
<1> QED BY <1>1, <1>2, <1>3 DEF BitsTellApart

LEMMA TellStep ==
    ASSUME TellInv, [ReadNext]_readVars PROVE TellInv'
<1>0. RightInv /\ RightInv' /\ BaseInv
  BY RightStep DEF TellInv, RightInv
<1>1. ASSUME NEW r \in Requests, BeginRead(r) PROVE BitsTellApart(request)' => ReadInv'
  <2>1. image' = image /\ request' = r /\ shift' = shift
    BY <1>1 DEF BeginRead
  <2>2. BitsTellApart(request)' => BitsTellApart(r)
    BY <2>1, SameTell
  <2> QED BY <1>0, <1>1, <2>2, ReadBegin
<1>2. ASSUME (\E t \in Reader : ThreadStep(t)) \/ EndParallel \/ CheckAges \/ UNCHANGED readVars
      PROVE  BitsTellApart(request)' => ReadInv'
  <2>1. image' = image /\ request' = request /\ shift' = shift
    BY <1>2 DEF ThreadStep, SkipBlock, FindFblock, PutFblock, EndParallel, CheckAges, readVars
  <2>2. PICK r : r = request
    OBVIOUS
  <2>3. BitsTellApart(request)' => BitsTellApart(request)
    BY <2>1, <2>2, SameTell
  <2> QED BY <1>2, <2>3, ReadStep DEF TellInv
<1>3. BitsTellApart(request)' => ReadInv'
  BY <1>1, <1>2 DEF ReadNext
<1> QED BY <1>0, <1>3 DEF TellInv

(* read_file_data, with any team, any cache and any build: no byte in the   *)
(* buffer is wrong, and if the bits tell the fblocks of a read apart, the   *)
(* buffer has all the bytes that were asked for and the count is theirs.    *)
(* Whether they do: LowBitsTell.                                            *)
THEOREM ReadsWhole == ReadSpec => []ReadComplete
<1>1. ReadInit => TellInv
  <2>1. ReadInit => WorkDistinct
    BY DEF ReadInit, WorkDistinct
  <2>2. ReadInit => TargetInv
    BY DEF ReadInit, TargetInv
  <2>3. ReadInit => ReadRight
    BY DEF ReadInit, ReadRight
  <2> QED BY <2>1, <2>2, <2>3, BaseInitial DEF ReadInv, TellInv, RightInv
<1>2. TellInv /\ [ReadNext]_readVars => TellInv'
  BY TellStep
<1>3. TellInv => ReadComplete
  BY DEF TellInv, RightInv, ReadInv, TargetInv, ReadComplete, ReadExact
<1> QED BY <1>1, <1>2, <1>3, PTL DEF ReadSpec

-----------------------------------------------------------------------------
(* The cache.                                                               *)

(* Appending to the list what is not in it yet.                             *)
LEMMA LoadedNew ==
    ASSUME loads \in Seq(Nat), NEW f \in Nat, loads' = Append(loads, f), readers' = readers,
           LoadedOnce, \A i \in 1..Len(loads) : loads[i] # f
    PROVE  LoadedOnce'
<1>1. PICK n \in Nat : n = Len(loads)
  OBVIOUS
<1>2. /\ DOMAIN loads = 1..n /\ DOMAIN loads' = 1..(n + 1)
      /\ \A i \in 1..(n + 1) : loads'[i] = IF i = n + 1 THEN f ELSE loads[i]
  BY <1>1
<1>3. ASSUME NEW i \in 1..(n + 1), NEW j \in 1..(n + 1), loads'[i] = loads'[j], readers = 1
      PROVE  i = j
  <2>1. CASE i = n + 1 /\ j = n + 1
    BY <2>1
  <2>2. CASE i # n + 1 /\ j = n + 1
    <3>1. i \in 1..n
      BY <2>2
    <3> QED BY <1>1, <1>2, <1>3, <2>2, <3>1
  <2>3. CASE i = n + 1 /\ j # n + 1
    <3>1. j \in 1..n
      BY <2>3
    <3> QED BY <1>1, <1>2, <1>3, <2>3, <3>1
  <2>4. CASE i # n + 1 /\ j # n + 1
    <3>1. i \in 1..n /\ j \in 1..n
      BY <2>4
    <3>2. loads[i] = loads[j]
      BY <1>2, <1>3, <2>4
    <3> QED BY <1>2, <1>3, <3>1, <3>2 DEF LoadedOnce
  <2> QED BY <2>1, <2>2, <2>3, <2>4
<1> QED BY <1>2, <1>3 DEF LoadedOnce

(* BeginRead.                                                               *)
LEMMA CacheBegin ==
    ASSUME CacheInv, NEW r \in Requests, BeginRead(r)
    PROVE  CacheInv'
<1>1. BaseInv' /\ image' = image /\ readers' = readers
  BY BaseBegin DEF CacheInv
<1>2. /\ stage = "idle" /\ stage' = "parallel" /\ loading' = loading /\ loads' = <<>> /\ cache' = cache
  BY DEF BeginRead
<1>3. \A t \in Reader : t > readers => work'[t] = <<>>
  BY DEF BeginRead
<1>4. \A t \in Reader : ~loading'[t]
  BY <1>2 DEF CacheInv, BaseInv, ThreadInv
<1>5. loads' \in Seq(Nat) /\ Len(loads') = 0 /\ DOMAIN loads' = {}
  BY <1>2
<1>6. LoadedOnce'
  BY <1>5 DEF LoadedOnce
<1>7. 1 \in Reader
  BY ReadParameters DEF Reader
<1>8. ASSUME readers' = 1 PROVE AloneInv'
  <2>1. ASSUME NEW i \in 1..Len(loads') PROVE FALSE
    BY <1>5, <2>1
  <2> QED BY <1>1, <1>3, <1>4, <1>6, <1>7, <1>8, <2>1 DEF AloneInv
<1>9. CacheTrimmed' /\ IsFiniteSet(cache')
  BY <1>2 DEF CacheInv, CacheTrimmed
<1> QED BY <1>1, <1>5, <1>8, <1>9 DEF CacheInv

(* SkipBlock.                                                               *)
LEMMA CacheSkip ==
    ASSUME CacheInv, NEW t \in Reader, SkipBlock(t)
    PROVE  CacheInv'
<1>1. BaseInv' /\ stage' = "parallel"
  BY BaseSkip DEF CacheInv
<1>2. /\ stage = "parallel" /\ work[t] # <<>> /\ ~loading[t]
      /\ readers' = readers /\ loading' = loading /\ loads' = loads /\ cache' = cache
  BY DEF SkipBlock
<1>3. \A u \in Reader : u # t => work'[u] = work[u]
  BY DEF SkipBlock, CacheInv, BaseInv, TypeInv
<1>4. LoadedOnce <=> LoadedOnce'
  BY <1>2 DEF LoadedOnce
<1>5. 1 \in Reader
  BY ReadParameters DEF Reader
<1>6. ASSUME readers = 1 PROVE AloneInv'
  <2>1. AloneInv
    BY <1>6 DEF CacheInv
  <2>2. ~(t > 1)
    BY <1>2, <2>1 DEF AloneInv
  <2>3. t = 1
    BY <2>2 DEF Reader
  <2>4. ~loading[1]
    BY <1>2, <2>3
  <2>5. \A u \in Reader : u > 1 => work'[u] = <<>> /\ ~loading'[u]
    BY <1>2, <1>3, <2>1, <2>3 DEF AloneInv
  <2> QED BY <1>1, <1>2, <1>4, <2>1, <2>4, <2>5 DEF AloneInv
<1>7. CacheTrimmed'
  BY <1>1 DEF CacheTrimmed
<1> QED BY <1>1, <1>2, <1>6, <1>7 DEF CacheInv

(* FindFblock: a team of one misses only what is not in the cache.          *)
LEMMA CacheFind ==
    ASSUME CacheInv, NEW t \in Reader, FindFblock(t)
    PROVE  CacheInv'
<1>1. /\ BaseInv' /\ (FoundIn(t) \/ Missed(t))
      /\ readers' = readers /\ stage = "parallel" /\ stage' = stage /\ work' = work /\ cache' = cache
      /\ work[t] # <<>> /\ ~loading[t]
  BY BaseFind DEF CacheInv
<1>2. CacheTrimmed' /\ IsFiniteSet(cache')
  BY <1>1 DEF CacheInv, CacheTrimmed
<1>3. CASE FoundIn(t)
  <2>1. loading' = loading /\ loads' = loads
    BY <1>3 DEF FoundIn
  <2>2. LoadedOnce <=> LoadedOnce'
    BY <1>1, <2>1 DEF LoadedOnce
  <2>3. AloneInv => AloneInv'
    BY <1>1, <2>1, <2>2 DEF AloneInv
  <2> QED BY <1>1, <1>2, <2>1, <2>3 DEF CacheInv
<1>4. CASE Missed(t)
  <2>1. /\ Head(work[t]) \notin cache \/ Racing(t)
        /\ loading' = [loading EXCEPT ![t] = TRUE] /\ loads' = Append(loads, Head(work[t]))
    BY <1>4 DEF Missed
  <2>2. PICK f \in Nat : f = Head(work[t])
    <3>1. work[t] \in Seq(Nat)
      BY DEF CacheInv, BaseInv, TypeInv
    <3> QED BY <1>1, <3>1, HeadTailProperties
  <2>3. PICK n \in Nat : n = Len(loads)
    BY DEF CacheInv
  <2>4. loads \in Seq(Nat) /\ loading \in [Reader -> BOOLEAN]
    BY DEF CacheInv, BaseInv, TypeInv
  <2>5. /\ loads' \in Seq(Nat) /\ Len(loads') = n + 1 /\ loads' # <<>>
        /\ \A i \in 1..n : loads'[i] = loads[i]
        /\ loads'[n + 1] = f
    BY <2>1, <2>2, <2>3, <2>4, AppendProperties
  <2>6. ASSUME readers = 1 PROVE AloneInv'
    <3>1. AloneInv
      BY <2>6 DEF CacheInv
    <3>2. t = 1
      <4>1. ~(t > 1)
        BY <1>1, <3>1 DEF AloneInv
      <4> QED BY <4>1 DEF Reader
    <3>3. ~Racing(t)
      <4>1. \A u \in Reader \ {t} : u > 1
        BY <3>2 DEF Reader
      <4> QED BY <3>1, <4>1 DEF AloneInv, Racing
    <3>4. f \notin cache
      BY <2>1, <2>2, <3>3
    <3>5. \A i \in 1..n : loads[i] \in cache
      BY <1>1, <2>3, <3>1, <3>2 DEF AloneInv
    <3>6. LoadedOnce'
      <4>1. \A i \in 1..Len(loads) : loads[i] # f
        BY <2>3, <3>4, <3>5
      <4>2. LoadedOnce
        BY <3>1 DEF AloneInv
      <4> QED BY <1>1, <2>1, <2>2, <2>4, <4>1, <4>2, LoadedNew
    <3>7. loading'[1] /\ \A u \in Reader : u > 1 => work'[u] = <<>> /\ ~loading'[u]
      BY <1>1, <2>1, <2>4, <3>1, <3>2 DEF AloneInv
    <3>8. ASSUME NEW i \in 1..Len(loads')
          PROVE  loads'[i] \in cache' \/ (loading'[1] /\ i = Len(loads'))
      <4>1. i \in 1..n \/ i = n + 1
        BY <2>5
      <4> QED BY <1>1, <2>5, <3>5, <3>7, <4>1
    <3>9. loads'[Len(loads')] = Head(work'[1])
      BY <1>1, <2>2, <2>5, <3>2
    <3> QED BY <2>5, <3>6, <3>7, <3>8, <3>9 DEF AloneInv
  <2> QED BY <1>1, <1>2, <2>5, <2>6 DEF CacheInv
<1> QED BY <1>1, <1>3, <1>4

(* PutFblock: what was decompressed is in the cache.                        *)
LEMMA CachePut ==
    ASSUME CacheInv, NEW t \in Reader, PutFblock(t)
    PROVE  CacheInv'
<1>1. /\ BaseInv' /\ readers' = readers /\ stage = "parallel" /\ stage' = stage
      /\ work' = work /\ loads' = loads /\ cache' = cache \cup {Head(work[t])}
      /\ \A u \in Reader : loading'[u] <=> u # t /\ loading[u]
      /\ loading[t]
  BY BasePut DEF CacheInv
<1>2. CacheTrimmed' /\ IsFiniteSet(cache')
  BY <1>1, FS_AddElement DEF CacheInv, CacheTrimmed
<1>3. LoadedOnce <=> LoadedOnce'
  BY <1>1 DEF LoadedOnce
<1>4. ASSUME readers = 1 PROVE AloneInv'
  <2>1. AloneInv
    BY <1>4 DEF CacheInv
  <2>2. t = 1
    <3>1. ~(t > 1)
      BY <1>1, <2>1 DEF AloneInv
    <3> QED BY <3>1 DEF Reader
  <2>3. loads[Len(loads)] \in cache'
    BY <1>1, <2>1, <2>2 DEF AloneInv
  <2>4. \A i \in 1..Len(loads) : loads[i] \in cache'
    BY <1>1, <2>1, <2>3 DEF AloneInv
  <2> QED BY <1>1, <1>3, <2>1, <2>2, <2>4 DEF AloneInv
<1> QED BY <1>1, <1>2, <1>4 DEF CacheInv

(* The end of the parallel region, CheckAges, or nothing.                   *)
LEMMA CacheEnd ==
    ASSUME CacheMaxSize # 1, CacheInv, EndParallel \/ CheckAges \/ UNCHANGED readVars
    PROVE  CacheInv'
<1>1. BaseInv'
  BY BaseEnd DEF CacheInv
<1>2. readers' = readers /\ work' = work /\ loading' = loading /\ loads' = loads
  BY DEF EndParallel, CheckAges, readVars, threadVars
<1>3. LoadedOnce <=> LoadedOnce'
  BY <1>2 DEF LoadedOnce
<1>4. (stage' = "parallel" => stage = "parallel" /\ cache' = cache)
  BY DEF EndParallel, CheckAges, readVars
<1>5. AloneInv => AloneInv'
  BY <1>2, <1>3, <1>4 DEF AloneInv
<1>6. IsFiniteSet(cache') /\ CacheTrimmed'
  <2>1. IsFiniteSet(cache) /\ CacheTrimmed
    BY DEF CacheInv
  <2>2. CASE EndParallel \/ UNCHANGED readVars
    BY <2>1, <2>2 DEF EndParallel, readVars, CacheTrimmed
  <2>3. CASE CheckAges
    <3>1. PICK m \in Nat : m = EffectiveMaxSize /\ m # 0 /\ m < CacheMaxSize
      BY ReadParameters DEF EffectiveMaxSize
    <3>2. PICK c \in Nat : c = Cardinality(cache)
      BY <2>1, FS_CardinalityType
    <3>3. CASE c > m
      <4>1. cache' \in SUBSET cache /\ Cardinality(cache') = m
        BY <2>3, <3>1, <3>2, <3>3 DEF CheckAges
      <4>2. IsFiniteSet(cache')
        BY <2>1, <4>1, FS_Subset
      <4> QED BY <3>1, <4>1, <4>2 DEF CacheTrimmed
    <3>4. CASE ~(c > m)
      <4>1. cache' = cache
        BY <2>3, <3>1, <3>2, <3>4 DEF CheckAges
      <4>2. c < CacheMaxSize
        BY <3>1, <3>4, ReadParameters
      <4> QED BY <2>1, <3>2, <4>1, <4>2 DEF CacheTrimmed
    <3> QED BY <3>3, <3>4
  <2> QED BY <2>2, <2>3
<1> QED BY <1>1, <1>2, <1>5, <1>6 DEF CacheInv

(* The fblock cache keeps to its limit between reads, and a read with one   *)
(* thread decompresses no fblock twice.  The limit must not be 1:           *)
(* CheckAges(-1) takes what is left of that for no limit.                   *)
THEOREM CacheWorks ==
    ASSUME CacheMaxSize # 1
    PROVE  ReadSpec => []CacheServes
<1>1. ReadInit => CacheInv
  <2>1. SUFFICES ASSUME ReadInit PROVE CacheInv
    OBVIOUS
  <2>2. IsFiniteSet(cache) /\ CacheTrimmed
    <3>1. cache = {} /\ Cardinality({}) = 0 /\ IsFiniteSet({})
      BY <2>1, FS_EmptySet DEF ReadInit
    <3> QED BY <3>1, ReadParameters DEF CacheTrimmed
  <2>3. loads = <<>> /\ loads \in Seq(Nat) /\ DOMAIN loads = {} /\ Len(loads) = 0
    BY <2>1 DEF ReadInit
  <2>4. AloneInv
    <3>1. 1 \in Reader
      BY ReadParameters DEF Reader
    <3>2. LoadedOnce
      BY <2>3 DEF LoadedOnce
    <3> QED BY <2>1, <2>3, <3>1, <3>2 DEF ReadInit, AloneInv
  <2> QED BY <2>1, <2>2, <2>3, <2>4, BaseInitial DEF CacheInv
<1>2. CacheInv /\ [ReadNext]_readVars => CacheInv'
  BY CacheBegin, CacheSkip, CacheFind, CachePut, CacheEnd DEF ReadNext, ThreadStep
<1>3. CacheInv => CacheServes
  BY DEF CacheInv, CacheServes, AloneInv, LoadedOnce
<1> QED BY <1>1, <1>2, <1>3, PTL DEF ReadSpec
=============================================================================
