-------------------------- MODULE FblockFileProofs --------------------------
(***************************************************************************)
(* What is proved of the temporary fblock files: they always amount to the  *)
(* bytes that were put into them (ContentsStay), readers see those bytes as *)
(* long as they use a buffer (ReadersSafe), and with --decompresslookups    *)
(* the image gets them (ImageRight).                                        *)
(***************************************************************************)
EXTENDS FblockFile, TLAPS, SequenceTheorems, FiniteSetTheorems, WellFoundedInduction

-----------------------------------------------------------------------------
(* What the cells of a file and the data of a fblock may be; junk is        *)
(* compressed as well when FinalCompressFblock takes a wrong length.        *)
Contents == {d \in Seq(Byte \cup {Junk}) : Len(d) <= FSIZE}

FileCell == (Byte \cup {Junk}) \cup (Contents \X Nat)

Fblock ==
    [file : Seq(FileCell), filesize : Nat, mapped : Nat \cup {NotMapped},
     refd : BOOLEAN, fd : BOOLEAN, is_compressed : BOOLEAN]

(* What is on the disk when a fblock has the contents d.                    *)
OnDisk(d, compressed) == IF compressed THEN LZMACompress(d) ELSE d

(* The fblock r has the contents d, and its mapping covers its file.        *)
Amounts(r, d) ==
    /\ r.filesize <= Len(r.file)
    /\ r.mapped \in {NotMapped, r.filesize}
    /\ SubSeq(r.file, 1, r.filesize) = OnDisk(d, r.is_compressed)

Files(s) == s \in Seq(Fblock) /\ Cardinality(OpenFiles(s)) <= MaxOpen

(* The fblocks s have the contents c. *)
Sound(s, c) ==
    /\ Files(s)
    /\ c \in Seq(Contents) /\ Len(c) = Len(s)
    /\ \A g \in 1..Len(s) : Amounts(s[g], c[g])

(* Fblocks that differ in their descriptors at most.                        *)
SameButOpen(r, q) ==
    /\ r.file = q.file /\ r.filesize = q.filesize /\ r.mapped = q.mapped
    /\ r.refd = q.refd /\ r.is_compressed = q.is_compressed

(* Of the fblocks besides f, t has the descriptors of s closed at most.     *)
Others(s, t, f) ==
    /\ Len(t) = Len(s)
    /\ \A g \in 1..Len(s) : g # f => SameButOpen(t[g], s[g])

(* The outcomes e when an operation on the fblock f of n begins: the order  *)
(* has all others.                                                          *)
Fits(e, n, f) ==
    /\ e.map \in BOOLEAN /\ e.write \in BOOLEAN
    /\ \E k \in 0..n : e.order \in [1..k -> 1..k]
    /\ \A g \in 1..n : g # f => \E i \in DOMAIN e.order : e.order[i] = g

(* The contents by the history: right as long as FinalCompressFblock cannot *)
(* have taken a wrong length.                                               *)
ContentsInv ==
    \E c : /\ Sound(fb, c)
           /\ \A f \in 1..Len(fb) : lookup \/ f \notin done => c[f] = stored[f]

HistoryInv ==
    /\ stored \in Seq(Contents) /\ Len(stored) <= MaxFblocks
    /\ IF pc = "end" THEN fb = <<>> ELSE Len(fb) = Len(stored)
    /\ done \subseteq 1..Len(stored)
    /\ pc \in {"plan", "index"} => done = {} /\ image = <<>>

RestInv ==
    /\ idle \subseteq 1..Len(fb)
    /\ counter \in 0..RandomCompressPeriod
    /\ pc \in {"plan", "index", "final", "end"}
    /\ lookup \in BOOLEAN

(* What a buffer b shows of the fblock f among s, with the contents d;      *)
(* what it refers to is raw and mapped.                                     *)
Shows(s, f, b, offset, size, d) ==
    /\ Seen(s, f, b) = SubSeq(d, offset + 1, Plan!Smaller(offset + size, Len(d)))
    /\ b.ref => s[f].mapped # NotMapped /\ ~s[f].is_compressed

(* The buffer b serves its reader, with the contents c.                     *)
Serves(b, s, c) ==
    /\ b.f \in 1..Len(s)
    /\ Shows(s, b.f, b, b.offset, b.request, c[b.f])
    /\ b.ref => s[b.f].refd
    /\ b.size \in {Unset, Len(c[b.f])}

BufferInv ==
    buffer # NoBuffer => pc \in {"plan", "index"} /\ Serves(buffer, fb, stored)

ImageInv ==
    /\ image \in Seq([ok : BOOLEAN, data : Contents]) /\ Len(image) <= Len(stored)
    /\ ImageFaithfulWithLookup

FblockInv == ContentsInv /\ HistoryInv /\ RestInv /\ BufferInv /\ ImageInv

-----------------------------------------------------------------------------
(* Sequences.                                                               *)

(* Data is a sequence of cells.                                             *)
LEMMA ContentsCells ==
    ASSUME NEW d \in Contents
    PROVE  d \in Seq(FileCell) /\ Len(d) \in 0..FSIZE
  BY FblockFileParameters DEF Contents, FileCell

(* Two sequences with the same elements are the same.                       *)
LEMMA SameSequence ==
    ASSUME NEW S, NEW q \in Seq(S), NEW r \in Seq(S), Len(q) = Len(r),
           \A i \in 1..Len(q) : q[i] = r[i]
    PROVE  q = r
  OBVIOUS

(* A sequence with one element replaced.                                    *)
LEMMA ReplaceOne ==
    ASSUME NEW S, NEW q \in Seq(S), NEW k \in 1..Len(q), NEW r \in S,
           NEW t, t = [q EXCEPT ![k] = r]
    PROVE  /\ t \in Seq(S) /\ Len(t) = Len(q) /\ t[k] = r
           /\ \A g \in 1..Len(q) : g # k => t[g] = q[g]
  OBVIOUS

(* A sequence is a prefix of another.                                       *)
LEMMA PrefixIs ==
    ASSUME NEW S, NEW q \in Seq(S), NEW d \in Seq(S), Len(d) <= Len(q),
           \A i \in 1..Len(d) : q[i] = d[i]
    PROVE  SubSeq(q, 1, Len(d)) = d
  <1>1. \A i \in 1..Len(d) : q[i] \in S
    OBVIOUS
  <1>2. /\ SubSeq(q, 1, Len(d)) \in Seq(S)
        /\ Len(SubSeq(q, 1, Len(d))) = Len(d)
        /\ \A i \in 1..Len(d) : SubSeq(q, 1, Len(d))[i] = q[i]
    BY <1>1, SubSeqProperties, SMTT(30)
  <1> QED  BY <1>2, SameSequence

LEMMA PrefixHas ==
    ASSUME NEW S, NEW q \in Seq(S), NEW n \in Nat, n <= Len(q),
           NEW d, SubSeq(q, 1, n) = d
    PROVE  /\ d \in Seq(S) /\ Len(d) = n
           /\ \A i \in 1..n : d[i] = q[i]
  <1>1. \A i \in 1..n : q[i] \in S
    OBVIOUS
  <1>2. /\ SubSeq(q, 1, n) \in Seq(S)
        /\ Len(SubSeq(q, 1, n)) = IF 1 <= n THEN n - 1 + 1 ELSE 0
        /\ \A i \in 1..(n - 1 + 1) : SubSeq(q, 1, n)[i] = q[1 + i - 1]
    <2>1. 1 \in Int /\ n \in Int
      OBVIOUS
    <2> QED  BY <1>1, <2>1, SubSeqProperties
  <1> QED  BY <1>2, SMTT(40)

(* The codec gets back what it compressed.                                  *)
LEMMA Codec ==
    ASSUME NEW d \in Contents
    PROVE  /\ LZMACompress(d) \in Seq(FileCell)
           /\ Len(LZMACompress(d)) \in Nat \ {0}
           /\ LZMADeCompress(LZMACompress(d)) = d
  <1>1. LzmaSize(d) \in Nat \ {0}
    <2>1. Len(d) \in 0..FSIZE /\ d \in [1..Len(d) -> Byte \cup {Junk}]
      BY FblockFileParameters DEF Contents
    <2> QED  BY <2>1, FblockFileParameters
  <1> DEFINE c == LZMACompress(d)
  <1>2. c = [i \in 1..LzmaSize(d) |-> <<d, i>>]
    BY DEF LZMACompress
  <1>3. \A i \in 1..LzmaSize(d) : <<d, i>> \in FileCell
    BY <1>1 DEF FileCell
  <1>4. c \in Seq(FileCell) /\ Len(c) = LzmaSize(d)
    BY <1>1, <1>2, <1>3
  <1>5. c[1] = <<d, 1>>
    BY <1>1, <1>2
  <1>6. c # <<>>
    BY <1>1, <1>4
  <1>7. Len(c[1]) = 2 /\ c[1][1] = d
    BY <1>5
  <1>8. c = LZMACompress(c[1][1])
    BY <1>7
  <1>9. IsLZMA(c)
    BY <1>6, <1>7, <1>8 DEF IsLZMA
  <1> QED  BY <1>1, <1>4, <1>7, <1>9 DEF LZMADeCompress

(* What is on the disk is a sequence of cells.                              *)
LEMMA DiskCells ==
    ASSUME NEW d \in Contents, NEW compressed \in BOOLEAN
    PROVE  OnDisk(d, compressed) \in Seq(FileCell)
  BY Codec, ContentsCells DEF OnDisk

-----------------------------------------------------------------------------
(* The members that do not touch the contents.                              *)

(* The least element of a set of numbers is one of them.                    *)
LEMMA FirstIsIn ==
    ASSUME NEW T \in SUBSET Nat, T # {}
    PROVE  Plan!FirstOf(T, 0) \in T
  <1>1. PICK m \in T : \A k \in T : m <= k
    <2> DEFINE R == OpToRel(<, Nat)
    <2>1. IsWellFoundedOn(R, Nat)
      BY NatLessThanWellFounded
    <2>2. PICK m \in T : ~ \E y \in T : <<y, m>> \in R
      BY <2>1, WFMin
    <2> QED  BY <2>2 DEF OpToRel
  <1> QED  BY <1>1 DEF Plan!FirstOf

(* Close, Unmap and SetMap change one record.                               *)
LEMMA CloseRecord ==
    ASSUME NEW s \in Seq(Fblock), NEW f \in 1..Len(s)
    PROVE  /\ Close(s, f) \in Seq(Fblock) /\ Len(Close(s, f)) = Len(s)
           /\ ~Close(s, f)[f].fd
           /\ SameButOpen(Close(s, f)[f], s[f])
           /\ \A g \in 1..Len(s) : g # f => Close(s, f)[g] = s[g]
  <1> DEFINE r == [s[f] EXCEPT !.fd = FALSE]
  <1>1. s[f] \in Fblock
    OBVIOUS
  <1>2. r \in Fblock /\ ~r.fd /\ SameButOpen(r, s[f])
    BY <1>1 DEF Fblock, SameButOpen
  <1>3. Close(s, f) = [s EXCEPT ![f] = r]
    BY DEF Close
  <1> HIDE DEF r
  <1>4. /\ Close(s, f) \in Seq(Fblock) /\ Len(Close(s, f)) = Len(s)
        /\ Close(s, f)[f] = r
        /\ \A g \in 1..Len(s) : g # f => Close(s, f)[g] = s[g]
    BY <1>2, <1>3, ReplaceOne
  <1> QED  BY <1>2, <1>4

LEMMA UnmapRecord ==
    ASSUME NEW s \in Seq(Fblock), NEW f \in 1..Len(s)
    PROVE  /\ Unmap(s, f) \in Seq(Fblock) /\ Len(Unmap(s, f)) = Len(s)
           /\ Unmap(s, f)[f] = [s[f] EXCEPT !.mapped = NotMapped, !.refd = FALSE]
           /\ \A g \in 1..Len(s) : g # f => Unmap(s, f)[g] = s[g]
  <1> DEFINE r == [s[f] EXCEPT !.mapped = NotMapped, !.refd = FALSE]
  <1>1. s[f] \in Fblock
    OBVIOUS
  <1>2. r \in Fblock
    BY <1>1 DEF Fblock
  <1>3. Unmap(s, f) = [s EXCEPT ![f] = r]
    BY DEF Unmap
  <1> HIDE DEF r
  <1>4. /\ Unmap(s, f) \in Seq(Fblock) /\ Len(Unmap(s, f)) = Len(s)
        /\ Unmap(s, f)[f] = r
        /\ \A g \in 1..Len(s) : g # f => Unmap(s, f)[g] = s[g]
    BY <1>2, <1>3, ReplaceOne
  <1> QED  BY <1>4 DEF r

(* The number of open files of fblocks with the same descriptors.           *)
LEMMA SameOpen ==
    ASSUME NEW s \in Seq(Fblock), NEW t \in Seq(Fblock), Len(t) = Len(s),
           \A g \in 1..Len(s) : t[g].fd = s[g].fd
    PROVE  OpenFiles(t) = OpenFiles(s)
  BY DEF OpenFiles

LEMMA OpenFinite ==
    ASSUME NEW s \in Seq(Fblock)
    PROVE  /\ IsFiniteSet(OpenFiles(s))
           /\ Cardinality(OpenFiles(s)) \in Nat
  <1>1. IsFiniteSet(1..Len(s))
    BY FS_Interval
  <1>2. OpenFiles(s) \in SUBSET (1..Len(s))
    BY DEF OpenFiles
  <1>3. IsFiniteSet(OpenFiles(s))
    BY <1>1, <1>2, FS_Subset
  <1> QED  BY <1>3, FS_CardinalityType

(* Closing a file opens none.                                               *)
LEMMA CloseFiles ==
    ASSUME NEW s, Files(s), NEW f \in 1..Len(s)
    PROVE  /\ Files(Close(s, f))
           /\ OpenFiles(Close(s, f)) = OpenFiles(s) \ {f}
  <1> DEFINE t == Close(s, f)
  <1>1. /\ s \in Seq(Fblock) /\ t \in Seq(Fblock) /\ Len(t) = Len(s)
        /\ ~t[f].fd /\ \A g \in 1..Len(s) : g # f => t[g] = s[g]
    BY CloseRecord DEF Files
  <1> HIDE DEF t
  <1>2. OpenFiles(t) = OpenFiles(s) \ {f}
    BY <1>1 DEF OpenFiles
  <1>3. /\ Cardinality(OpenFiles(t)) <= Cardinality(OpenFiles(s))
        /\ Cardinality(OpenFiles(t)) \in Nat /\ Cardinality(OpenFiles(s)) \in Nat
    BY <1>1, <1>2, OpenFinite, FS_Subset
  <1>4. Cardinality(OpenFiles(t)) <= MaxOpen
    BY <1>3, FblockFileParameters DEF Files
  <1> QED  BY <1>1, <1>2, <1>4 DEF Files, t

(* CloseSome closes a file if one besides f is open.                        *)
LEMMA CloseSomeStep ==
    ASSUME NEW s, Files(s), NEW f \in 1..Len(s), NEW e, Fits(e, Len(s), f)
    PROVE  /\ Files(CloseSome(s, e)) /\ Len(CloseSome(s, e)) = Len(s)
           /\ \A g \in 1..Len(s) : SameButOpen(CloseSome(s, e)[g], s[g])
           /\ OpenFiles(CloseSome(s, e)) \subseteq OpenFiles(s)
           /\ OpenFiles(s) \ {f} # {} =>
                Cardinality(OpenFiles(CloseSome(s, e))) < Cardinality(OpenFiles(s))
  <1> DEFINE open == {i \in DOMAIN e.order : s[e.order[i]].fd}
  <1>1. PICK k \in 0..Len(s) : e.order \in [1..k -> 1..k]
    BY DEF Fits
  <1>2. open \in SUBSET Nat
    BY <1>1
  <1>3. s \in Seq(Fblock)
    BY DEF Files
  <1>4. CASE open = {}
    <2>1. CloseSome(s, e) = s
      BY <1>4 DEF CloseSome
    <2>2. OpenFiles(s) \ {f} = {}
      <3> SUFFICES ASSUME NEW g \in OpenFiles(s) \ {f} PROVE FALSE
        OBVIOUS
      <3>1. g \in 1..Len(s) /\ s[g].fd /\ g # f
        BY <1>3 DEF OpenFiles
      <3>2. PICK i \in DOMAIN e.order : e.order[i] = g
        BY <3>1 DEF Fits
      <3> QED  BY <3>1, <3>2, <1>4
    <2> QED  BY <2>1, <2>2, <1>3 DEF SameButOpen
  <1>5. CASE open # {}
    <2> DEFINE i == Plan!FirstOf(open, 0)
               g == e.order[i]
    <2>1. i \in open
      BY <1>2, <1>5, FirstIsIn
    <2>2. CloseSome(s, e) = Close(s, g)
      BY <1>5 DEF CloseSome
    <2> HIDE DEF i
    <2>3. g \in 1..Len(s) /\ g \in OpenFiles(s)
      BY <2>1, <1>1, <1>3, SMTT(40) DEF OpenFiles
    <2> HIDE DEF g
    <2>4. Files(Close(s, g)) /\ OpenFiles(Close(s, g)) = OpenFiles(s) \ {g}
      BY <2>3, CloseFiles
    <2>5. /\ Cardinality(OpenFiles(s) \ {g}) = Cardinality(OpenFiles(s)) - 1
          /\ Cardinality(OpenFiles(s)) \in Nat
      BY <1>3, <2>3, OpenFinite, FS_RemoveElement
    <2>6. /\ Len(Close(s, g)) = Len(s)
          /\ \A h \in 1..Len(s) : SameButOpen(Close(s, g)[h], s[h])
      BY <1>3, <2>3, CloseRecord, ZenonT(40) DEF SameButOpen
    <2>7. Cardinality(OpenFiles(Close(s, g))) < Cardinality(OpenFiles(s))
      BY <2>4, <2>5
    <2> QED  BY <2>2, <2>4, <2>6, <2>7
  <1> QED  BY <1>4, <1>5

(* EnsureOpen opens the file and changes descriptors only.                  *)
LEMMA EnsureOpenStep ==
    ASSUME NEW s, Files(s), NEW f \in 1..Len(s), NEW e, Fits(e, Len(s), f)
    PROVE  /\ Files(EnsureOpen(s, f, e)) /\ Len(EnsureOpen(s, f, e)) = Len(s)
           /\ \A g \in 1..Len(s) : SameButOpen(EnsureOpen(s, f, e)[g], s[g])
  <1> DEFINE full == Cardinality(OpenFiles(s)) >= MaxOpen
             x == IF full THEN CloseSome(s, e) ELSE s
             t == EnsureOpen(s, f, e)
  <1>0. s \in Seq(Fblock)
    BY DEF Files
  <1>1. CASE s[f].fd
    <2>1. t = s
      BY <1>1 DEF EnsureOpen
    <2> QED  BY <2>1, <1>0 DEF SameButOpen
  <1>2. CASE ~s[f].fd
    <2>1. t = [x EXCEPT ![f].fd = TRUE]
      BY <1>2 DEF EnsureOpen
    <2>2. f \notin OpenFiles(s)
      BY <1>2, <1>0 DEF OpenFiles
    <2>3. /\ Files(x) /\ Len(x) = Len(s)
          /\ \A g \in 1..Len(s) : SameButOpen(x[g], s[g])
          /\ OpenFiles(x) \subseteq OpenFiles(s)
      <3>1. CASE full
        BY <3>1, CloseSomeStep
      <3>2. CASE ~full
        BY <3>2, <1>0 DEF SameButOpen
      <3> QED  BY <3>1, <3>2
    <2>4. Cardinality(OpenFiles(x)) < MaxOpen /\ Cardinality(OpenFiles(x)) \in Nat
      <3>0. /\ Cardinality(OpenFiles(s)) \in Nat /\ IsFiniteSet(OpenFiles(s))
            /\ Cardinality(OpenFiles(x)) \in Nat
        BY <1>0, <2>3, OpenFinite DEF Files
      <3>1. CASE full
        <4>1. OpenFiles(s) # {}
          BY <3>0, <3>1, FS_EmptySet, FblockFileParameters
        <4>2. OpenFiles(s) \ {f} # {}
          BY <4>1, <2>2
        <4>3. Cardinality(OpenFiles(x)) < Cardinality(OpenFiles(s))
          BY <4>2, <3>1, CloseSomeStep
        <4>4. Cardinality(OpenFiles(s)) <= MaxOpen
          BY DEF Files
        <4> QED  BY <4>3, <4>4, <3>0, FblockFileParameters
      <3>2. CASE ~full
        BY <3>0, <3>2, FblockFileParameters
      <3> QED  BY <3>1, <3>2
    <2> DEFINE r == [x[f] EXCEPT !.fd = TRUE]
    <2> HIDE DEF x
    <2>5. x \in Seq(Fblock) /\ x[f] \in Fblock
      BY <2>3 DEF Files
    <2>6. r \in Fblock /\ SameButOpen(r, x[f])
      BY <2>5 DEF Fblock, SameButOpen
    <2>7. t = [x EXCEPT ![f] = r]
      BY <2>1
    <2> HIDE DEF r, t
    <2>8. /\ t \in Seq(Fblock) /\ Len(t) = Len(x) /\ t[f] = r
          /\ \A g \in 1..Len(x) : g # f => t[g] = x[g]
      BY <2>5, <2>6, <2>7, <2>3, ReplaceOne
    <2>9. OpenFiles(t) \subseteq OpenFiles(x) \cup {f}
      BY <2>8, <2>5 DEF OpenFiles
    <2>10. Cardinality(OpenFiles(t)) <= MaxOpen
      <3>1. IsFiniteSet(OpenFiles(x))
        BY <2>5, OpenFinite
      <3>2. /\ IsFiniteSet(OpenFiles(x) \cup {f})
            /\ Cardinality(OpenFiles(x) \cup {f}) =
                 IF f \in OpenFiles(x) THEN Cardinality(OpenFiles(x))
                                       ELSE Cardinality(OpenFiles(x)) + 1
        BY <3>1, FS_AddElement
      <3>3. Cardinality(OpenFiles(t)) <= Cardinality(OpenFiles(x) \cup {f})
        BY <3>2, <2>9, FS_Subset
      <3>4. Cardinality(OpenFiles(t)) \in Nat
        BY <2>8, OpenFinite
      <3> QED  BY <3>2, <3>3, <3>4, <2>4, FblockFileParameters
    <2>11. \A g \in 1..Len(s) : SameButOpen(t[g], s[g])
      BY <2>3, <2>6, <2>8 DEF SameButOpen
    <2> QED  BY <2>3, <2>8, <2>10, <2>11 DEF Files, t
  <1> QED  BY <1>1, <1>2

(* The fblocks t after f of s was mapped anew, or could not be.             *)
Remapped(t, s, f, ok) ==
    /\ t \in Seq(Fblock) /\ Len(t) = Len(s)
    /\ t[f].mapped \in {NotMapped, s[f].filesize}
    /\ t[f].mapped # NotMapped => ok
    /\ t[f].file = s[f].file /\ t[f].filesize = s[f].filesize
    /\ t[f].fd = s[f].fd /\ t[f].is_compressed = s[f].is_compressed
    /\ \A g \in 1..Len(s) : g # f => t[g] = s[g]

(* SetMap maps the file to its size, or leaves it unmapped.                 *)
LEMMA SetMapRecord ==
    ASSUME NEW s \in Seq(Fblock), NEW f \in 1..Len(s), NEW ok \in BOOLEAN,
           NEW t, t = SetMap(s, f, ok)
    PROVE  Remapped(t, s, f, ok)
  <1> USE DEF Remapped
  <1>1. PICK u : u = Unmap(s, f)
    OBVIOUS
  <1>2. /\ u \in Seq(Fblock) /\ Len(u) = Len(s)
        /\ u[f] = [s[f] EXCEPT !.mapped = NotMapped, !.refd = FALSE]
        /\ \A g \in 1..Len(s) : g # f => u[g] = s[g]
    BY <1>1, UnmapRecord, ZenonT(60)
  <1>3. s[f] \in Fblock
    OBVIOUS
  <1>4. CASE ok /\ s[f].filesize > 0
    <2>1. PICK r : r = [u[f] EXCEPT !.mapped = s[f].filesize]
      OBVIOUS
    <2>2. t = [u EXCEPT ![f] = r]
      BY <1>1, <1>4, <2>1 DEF SetMap
    <2>3. /\ r \in Fblock /\ r.mapped = s[f].filesize
          /\ r.file = s[f].file /\ r.filesize = s[f].filesize
          /\ r.fd = s[f].fd /\ r.is_compressed = s[f].is_compressed
      BY <1>2, <1>3, <2>1 DEF Fblock
    <2>4. /\ t \in Seq(Fblock) /\ Len(t) = Len(u) /\ t[f] = r
          /\ \A g \in 1..Len(u) : g # f => t[g] = u[g]
      BY <1>2, <2>2, <2>3, ReplaceOne
    <2> QED  BY <1>2, <1>4, <2>3, <2>4
  <1>5. CASE ~(ok /\ s[f].filesize > 0)
    <2>1. t = u
      BY <1>1, <1>5 DEF SetMap
    <2>2. /\ u[f].mapped = NotMapped
          /\ u[f].file = s[f].file /\ u[f].filesize = s[f].filesize
          /\ u[f].fd = s[f].fd /\ u[f].is_compressed = s[f].is_compressed
      BY <1>2, <1>3 DEF Fblock
    <2> QED  BY <2>1, <2>2, <1>2
  <1> QED  BY <1>4, <1>5

-----------------------------------------------------------------------------
(* The contents of the files.                                               *)

LEMMA FilesSame ==
    ASSUME NEW s, Files(s), NEW t \in Seq(Fblock), Len(t) = Len(s),
           \A g \in 1..Len(s) : t[g].fd = s[g].fd
    PROVE  Files(t)
  BY SameOpen DEF Files

(* What the kernel makes of the writes of SetFileContent.                   *)
LEMMA CopiedWhole ==
    ASSUME NEW file \in Seq(FileCell), NEW data \in Seq(FileCell),
           Len(data) <= Len(file)
    PROVE  Truncated(CopyToMap(file, data), Len(data)) = data
  <1> DEFINE t == Truncated(CopyToMap(file, data), Len(data))
  <1>1. \A i \in 1..Len(data) :
           i \in DOMAIN file /\ i \in DOMAIN data /\ CopyToMap(file, data)[i] = data[i]
    BY DEF CopyToMap
  <1>2. DOMAIN CopyToMap(file, data) = DOMAIN file
    BY DEF CopyToMap
  <1>3. t = [i \in 1..Len(data) |-> data[i]]
    BY <1>1, <1>2 DEF Truncated
  <1>4. data = [i \in 1..Len(data) |-> data[i]]
    OBVIOUS
  <1> QED  BY <1>3, <1>4

LEMMA PwriteCells ==
    ASSUME NEW file \in Seq(FileCell), NEW data \in Seq(FileCell), NEW pos \in Nat
    PROVE  /\ Pwrite(file, data, pos) \in Seq(FileCell)
           /\ Len(Pwrite(file, data, pos)) >= Len(file)
           /\ Len(Pwrite(file, data, pos)) >= pos + Len(data)
           /\ \A i \in 1..Len(data) : Pwrite(file, data, pos)[pos + i] = data[i]
           /\ \A i \in 1..Len(file) : i <= pos => Pwrite(file, data, pos)[i] = file[i]
  <1> DEFINE n == Plan!Larger(Len(file), pos + Len(data))
             cell(i) == CASE i - pos \in DOMAIN data -> data[i - pos]
                          [] i - pos \notin DOMAIN data /\ i <= Len(file) -> file[i]
                          [] OTHER -> Junk
             p == Pwrite(file, data, pos)
  <1>1. n \in Nat /\ n >= Len(file) /\ n >= pos + Len(data)
    BY DEF Plan!Larger
  <1>2. p = [i \in 1..n |-> cell(i)]
    BY DEF Pwrite
  <1>3. DOMAIN data = 1..Len(data) /\ DOMAIN file = 1..Len(file)
    OBVIOUS
  <1>4. \A i \in 1..Len(data) : cell(pos + i) = data[i]
    <2> TAKE i \in 1..Len(data)
    <2>1. (pos + i) - pos = i /\ i \in DOMAIN data
      BY <1>3
    <2> QED  BY <2>1
  <1>5. \A i \in 1..Len(file) : i <= pos => cell(i) = file[i]
    <2> TAKE i \in 1..Len(file)
    <2> HAVE i <= pos
    <2>1. i - pos \notin DOMAIN data /\ i <= Len(file)
      BY <1>3
    <2> QED  BY <2>1
  <1>6. \A i \in 1..n : cell(i) \in FileCell
    <2> TAKE i \in 1..n
    <2>1. CASE i - pos \in DOMAIN data
      BY <2>1, <1>3
    <2>2. CASE i - pos \notin DOMAIN data /\ i <= Len(file)
      BY <2>2, <1>3
    <2>3. CASE i - pos \notin DOMAIN data /\ ~(i <= Len(file))
      BY <2>3 DEF FileCell
    <2> QED  BY <2>1, <2>2, <2>3
  <1> HIDE DEF n, cell, p
  <1>7. p \in Seq(FileCell) /\ Len(p) = n
    BY <1>1, <1>2, <1>6
  <1>8. \A i \in 1..Len(data) : p[pos + i] = data[i]
    <2> TAKE i \in 1..Len(data)
    <2>1. pos + i \in 1..n
      BY <1>1
    <2> QED  BY <2>1, <1>2, <1>4
  <1>9. \A i \in 1..Len(file) : i <= pos => p[i] = file[i]
    <2> TAKE i \in 1..Len(file)
    <2>1. i \in 1..n
      BY <1>1
    <2> QED  BY <2>1, <1>2, <1>5
  <1> QED  BY <1>1, <1>7, <1>8, <1>9 DEF p

LEMMA WrittenWhole ==
    ASSUME NEW file \in Seq(FileCell), NEW data \in Seq(FileCell)
    PROVE  Truncated(Pwrite(file, data, 0), Len(data)) = data
  <1> DEFINE p == Pwrite(file, data, 0)
  <1>1. /\ p \in Seq(FileCell) /\ Len(p) >= 0 + Len(data)
        /\ \A i \in 1..Len(data) : p[0 + i] = data[i]
    BY PwriteCells
  <1> HIDE DEF p
  <1>2. \A i \in 1..Len(data) : i \in DOMAIN p /\ p[i] = data[i]
    BY <1>1
  <1>3. Truncated(p, Len(data)) = [i \in 1..Len(data) |-> data[i]]
    BY <1>2 DEF Truncated
  <1>4. data = [i \in 1..Len(data) |-> data[i]]
    OBVIOUS
  <1> QED  BY <1>3, <1>4 DEF p

(* CloseIfMapped closes at most.                                            *)
LEMMA CloseIfMappedStep ==
    ASSUME NEW s, Files(s), NEW f \in 1..Len(s)
    PROVE  /\ Files(CloseIfMapped(s, f)) /\ Len(CloseIfMapped(s, f)) = Len(s)
           /\ \A g \in 1..Len(s) : SameButOpen(CloseIfMapped(s, f)[g], s[g])
  <1>1. s \in Seq(Fblock)
    BY DEF Files
  <1>2. CASE IsMapped(s, f)
    <2>1. CloseIfMapped(s, f) = Close(s, f)
      BY <1>2 DEF CloseIfMapped
    <2>2. Files(Close(s, f))
      BY CloseFiles
    <2>3. /\ Len(Close(s, f)) = Len(s) /\ SameButOpen(Close(s, f)[f], s[f])
          /\ \A g \in 1..Len(s) : g # f => Close(s, f)[g] = s[g]
      BY <1>1, CloseRecord
    <2>4. \A g \in 1..Len(s) : SameButOpen(Close(s, f)[g], s[g])
      BY <2>3 DEF SameButOpen
    <2> QED  BY <2>1, <2>2, <2>3, <2>4
  <1>3. CASE ~IsMapped(s, f)
    BY <1>1, <1>3 DEF CloseIfMapped, SameButOpen
  <1> QED  BY <1>2, <1>3

(* SetFileContent: afterwards the file has the data and nothing else,       *)
(* whether they were written through a mapping or not.                      *)
LEMMA SetFileContentStep ==
    ASSUME NEW s, Files(s), NEW f \in 1..Len(s), NEW e, Fits(e, Len(s), f),
           NEW data \in Seq(FileCell), s[f].filesize <= Len(s[f].file),
           NEW t, t = SetFileContent(s, f, data, e)
    PROVE  /\ Files(t) /\ Others(s, t, f)
           /\ t[f].file = data /\ t[f].filesize = Len(data)
           /\ t[f].mapped \in {NotMapped, Len(data)}
           /\ t[f].is_compressed = s[f].is_compressed
  <1> DEFINE n == Len(data)
  <1>a. PICK ok \in BOOLEAN : ok = (e.write /\ EnoughStorage(s, f, n))
    BY DEF Fits, EnoughStorage
  <1>0. /\ s \in Seq(Fblock) /\ s[f] \in Fblock /\ n \in Nat
        /\ ok => n <= Len(s[f].file)
    <2>1. s \in Seq(Fblock) /\ s[f] \in Fblock /\ n \in Nat
      BY DEF Files
    <2>2. s[f].filesize \in Nat /\ s[f].file \in Seq(FileCell)
      BY <2>1 DEF Fblock
    <2>3. ok => s[f].filesize >= n
      BY <1>a, Zenon DEF EnoughStorage
    <2>4. ok => n <= Len(s[f].file)
      BY <2>1, <2>2, <2>3
    <2> QED  BY <2>1, <2>4
  <1>1. PICK u : u = Unmap(s, f)
    OBVIOUS
  <1>2. /\ u \in Seq(Fblock) /\ Len(u) = Len(s)
        /\ u[f] = [s[f] EXCEPT !.mapped = NotMapped, !.refd = FALSE]
        /\ \A g \in 1..Len(s) : g # f => u[g] = s[g]
    BY <1>0, <1>1, UnmapRecord, ZenonT(60)
  <1>3. /\ u[f].file = s[f].file /\ u[f].is_compressed = s[f].is_compressed
        /\ u[f].fd = s[f].fd
    BY <1>0, <1>2 DEF Fblock
  <1>4. Files(u)
    BY <1>2, <1>3, FilesSame
  <1>5. PICK v : v = EnsureOpen(u, f, e)
    OBVIOUS
  <1>6. /\ Files(v) /\ Len(v) = Len(s)
        /\ \A g \in 1..Len(s) : SameButOpen(v[g], u[g])
    BY <1>2, <1>4, <1>5, EnsureOpenStep
  <1>7. PICK w : w = Resized(v, f, n)
    OBVIOUS
  <1>8. v \in Seq(Fblock) /\ v[f] \in Fblock
    BY <1>6 DEF Files
  <1>9. PICK q : q = [v[f] EXCEPT !.filesize = n]
    OBVIOUS
  <1>10. /\ q \in Fblock /\ q.filesize = n /\ q.file = v[f].file /\ q.fd = v[f].fd
         /\ q.is_compressed = v[f].is_compressed
    BY <1>0, <1>8, <1>9 DEF Fblock
  <1>11. w = [v EXCEPT ![f] = q]
    BY <1>7, <1>9 DEF Resized
  <1>12. /\ w \in Seq(Fblock) /\ Len(w) = Len(v) /\ w[f] = q
         /\ \A g \in 1..Len(v) : g # f => w[g] = v[g]
    BY <1>6, <1>8, <1>10, <1>11, ReplaceOne
  <1>13. Files(w)
    BY <1>6, <1>10, <1>12, FilesSame
  <1>14. PICK x : x = SetMap(w, f, ok)
    OBVIOUS
  <1>15. f \in 1..Len(w)
    BY <1>6, <1>12
  <1> DEFINE m == x[f].mapped
  <1>16. /\ x \in Seq(Fblock) /\ Len(x) = Len(w)
         /\ \A g \in 1..Len(w) : g # f => x[g] = w[g]
         /\ m \in {NotMapped, w[f].filesize}
         /\ m # NotMapped => ok
         /\ x[f].file = w[f].file /\ x[f].filesize = w[f].filesize
         /\ x[f].fd = w[f].fd /\ x[f].is_compressed = w[f].is_compressed
    <2>1. Remapped(x, w, f, ok)
      BY <1>12, <1>14, <1>15, SetMapRecord
    <2> QED  BY <2>1 DEF Remapped
  <1>18. /\ x[f] \in Fblock /\ x[f].mapped = m /\ x[f].filesize = n
         /\ x[f].file = s[f].file /\ x[f].fd = w[f].fd
         /\ x[f].is_compressed = s[f].is_compressed
    <2>1. x[f] \in Fblock
      BY <1>15, <1>16
    <2>2. v[f].file = s[f].file /\ v[f].is_compressed = s[f].is_compressed
      BY <1>3, <1>6 DEF SameButOpen
    <2> QED  BY <2>1, <2>2, <1>10, <1>12, <1>16
  <1>19. Files(x)
    BY <1>13, <1>16, <1>18, FilesSame
  <1> DEFINE written == Truncated(IF IsMapped(x, f) THEN CopyToMap(x[f].file, data)
                                  ELSE Pwrite(x[f].file, data, 0), n)
  <1>20. written = data
    <2>1. x[f].file \in Seq(FileCell)
      BY <1>18 DEF Fblock
    <2>2. CASE IsMapped(x, f)
      <3>1. n <= Len(x[f].file)
        BY <2>2, <1>16, <1>18, <1>0 DEF IsMapped
      <3> QED  BY <2>1, <2>2, <3>1, CopiedWhole
    <2>3. CASE ~IsMapped(x, f)
      BY <2>1, <2>3, WrittenWhole
    <2> QED  BY <2>2, <2>3
  <1>21. PICK y : y = [x EXCEPT ![f].file = written]
    OBVIOUS
  <1>22. t = CloseIfMapped(y, f)
    BY <1>a, <1>1, <1>5, <1>7, <1>14, <1>21 DEF SetFileContent, WriteContent
  <1> HIDE DEF written
  <1>23. PICK z : z = [x[f] EXCEPT !.file = data]
    OBVIOUS
  <1>24. /\ z \in Fblock /\ z.file = data /\ z.filesize = n /\ z.mapped = m
         /\ z.fd = x[f].fd /\ z.is_compressed = s[f].is_compressed
    BY <1>18, <1>23 DEF Fblock
  <1>25. y = [x EXCEPT ![f] = z]
    BY <1>20, <1>21, <1>23
  <1>26. f \in 1..Len(x)
    BY <1>15, <1>16
  <1>27. /\ y \in Seq(Fblock) /\ Len(y) = Len(x) /\ y[f] = z
         /\ \A g \in 1..Len(x) : g # f => y[g] = x[g]
    BY <1>16, <1>24, <1>25, <1>26, ReplaceOne
  <1>28. Files(y)
    BY <1>19, <1>24, <1>27, FilesSame
  <1>29. /\ Files(t) /\ Len(t) = Len(y)
         /\ \A g \in 1..Len(y) : SameButOpen(t[g], y[g])
    BY <1>22, <1>26, <1>27, <1>28, CloseIfMappedStep
  <1>30. Len(t) = Len(s)
    BY <1>6, <1>12, <1>16, <1>27, <1>29
  <1>31. \A g \in 1..Len(s) : g # f => SameButOpen(t[g], s[g])
    <2> TAKE g \in 1..Len(s)
    <2> HAVE g # f
    <2>1. SameButOpen(t[g], y[g]) /\ y[g] = v[g]
      BY <1>6, <1>12, <1>16, <1>27, <1>29
    <2>2. SameButOpen(v[g], s[g])
      BY <1>2, <1>6
    <2> QED  BY <2>1, <2>2 DEF SameButOpen
  <1>32. SameButOpen(t[f], z)
    BY <1>26, <1>27, <1>29
  <1> QED  BY <1>10, <1>12, <1>16, <1>24, <1>29, <1>30, <1>31, <1>32 DEF SameButOpen, Others

-----------------------------------------------------------------------------
(* The members, by what they do to the contents.                            *)

(* What a fblock has in its file.                                           *)
LEMMA FblockHas ==
    ASSUME NEW s, NEW c, Sound(s, c), NEW f \in 1..Len(s)
    PROVE  /\ s[f] \in Fblock /\ c[f] \in Contents /\ Amounts(s[f], c[f])
           /\ Stored(s, f) = OnDisk(c[f], s[f].is_compressed)
           /\ s[f].filesize = Len(OnDisk(c[f], s[f].is_compressed))
           /\ Raw(s, f) = c[f]
  <1>1. s[f] \in Fblock /\ c[f] \in Contents /\ Amounts(s[f], c[f])
    BY DEF Sound, Files
  <1>2. Stored(s, f) = OnDisk(c[f], s[f].is_compressed)
    BY <1>1 DEF Stored, Amounts
  <1>3. s[f].filesize = Len(OnDisk(c[f], s[f].is_compressed))
    <2>1. /\ s[f].file \in Seq(FileCell) /\ s[f].filesize \in Nat
          /\ s[f].filesize <= Len(s[f].file)
      BY <1>1 DEF Fblock, Amounts
    <2>2. SubSeq(s[f].file, 1, s[f].filesize) = OnDisk(c[f], s[f].is_compressed)
      BY <1>1 DEF Amounts
    <2> QED  BY <2>1, <2>2, PrefixHas
  <1>4. Raw(s, f) = c[f]
    BY <1>1, <1>2, Codec DEF Raw, OnDisk
  <1> QED  BY <1>1, <1>2, <1>3, <1>4

LEMMA AmountsSame ==
    ASSUME NEW r, NEW q, SameButOpen(r, q), NEW d, Amounts(q, d)
    PROVE  Amounts(r, d)
  BY DEF SameButOpen, Amounts

(* One fblock gets new contents.                                            *)
LEMMA SoundReplaced ==
    ASSUME NEW s, NEW c, Sound(s, c), NEW f \in 1..Len(s), NEW t, Files(t),
           Others(s, t, f), NEW d \in Contents, Amounts(t[f], d)
    PROVE  Sound(t, [c EXCEPT ![f] = d])
  <1>1. PICK k : k = [c EXCEPT ![f] = d]
    OBVIOUS
  <1>2. c \in Seq(Contents) /\ Len(c) = Len(s) /\ Len(t) = Len(s)
    BY DEF Sound, Others
  <1>3. /\ k \in Seq(Contents) /\ Len(k) = Len(c) /\ k[f] = d
        /\ \A g \in 1..Len(c) : g # f => k[g] = c[g]
    BY <1>1, <1>2, ReplaceOne
  <1>4. \A g \in 1..Len(t) : Amounts(t[g], k[g])
    <2> TAKE g \in 1..Len(t)
    <2>1. CASE g = f
      BY <2>1, <1>3
    <2>2. CASE g # f
      <3>1. SameButOpen(t[g], s[g]) /\ Amounts(s[g], c[g]) /\ k[g] = c[g]
        BY <2>2, <1>2, <1>3 DEF Others, Sound
      <3> QED  BY <3>1, AmountsSame
    <2> QED  BY <2>1, <2>2
  <1> QED  BY <1>1, <1>2, <1>3, <1>4 DEF Sound

LEMMA SoundKept ==
    ASSUME NEW s, NEW c, Sound(s, c), NEW f \in 1..Len(s), NEW t, Files(t),
           Others(s, t, f), Amounts(t[f], c[f])
    PROVE  Sound(t, c)
  <1>1. c \in Seq(Contents) /\ Len(c) = Len(s)
    BY DEF Sound
  <1>2. c[f] \in Contents /\ [c EXCEPT ![f] = c[f]] = c
    BY <1>1
  <1> QED  BY <1>2, SoundReplaced

LEMMA OthersTrans ==
    ASSUME NEW s, NEW t, NEW u, NEW f, Others(s, t, f), Others(t, u, f)
    PROVE  Others(s, u, f)
  BY DEF Others, SameButOpen

LEMMA OthersFromSame ==
    ASSUME NEW s, NEW t, NEW f, Len(t) = Len(s),
           \A g \in 1..Len(s) : SameButOpen(t[g], s[g])
    PROVE  Others(s, t, f)
  BY DEF Others

(* EnsureOpen. *)
LEMMA OpenKeeps ==
    ASSUME NEW s, NEW c, Sound(s, c), NEW f \in 1..Len(s), NEW e, Fits(e, Len(s), f),
           NEW t, t = EnsureOpen(s, f, e)
    PROVE  /\ Sound(t, c) /\ Others(s, t, f) /\ SameButOpen(t[f], s[f])
  <1>1. Files(s)
    BY DEF Sound
  <1>2. Files(t) /\ Len(t) = Len(s) /\ \A g \in 1..Len(s) : SameButOpen(t[g], s[g])
    BY <1>1, EnsureOpenStep
  <1>3. Others(s, t, f)
    BY <1>2, OthersFromSame
  <1>4. Amounts(t[f], c[f])
    BY <1>2, FblockHas, AmountsSame
  <1> QED  BY <1>2, <1>3, <1>4, SoundKept

(* Unmap. *)
LEMMA UnmapKeeps ==
    ASSUME NEW s, NEW c, Sound(s, c), NEW f \in 1..Len(s), NEW t, t = Unmap(s, f)
    PROVE  /\ Sound(t, c) /\ Others(s, t, f)
           /\ t[f].mapped = NotMapped /\ t[f].fd = s[f].fd
           /\ t[f].is_compressed = s[f].is_compressed
  <1>1. Files(s) /\ s \in Seq(Fblock)
    BY DEF Sound, Files
  <1>2. /\ t \in Seq(Fblock) /\ Len(t) = Len(s)
        /\ t[f] = [s[f] EXCEPT !.mapped = NotMapped, !.refd = FALSE]
        /\ \A g \in 1..Len(s) : g # f => t[g] = s[g]
    BY <1>1, UnmapRecord, ZenonT(60)
  <1>3. s[f] \in Fblock /\ Amounts(s[f], c[f])
    BY FblockHas
  <1>4. /\ t[f].mapped = NotMapped /\ t[f].fd = s[f].fd
        /\ t[f].is_compressed = s[f].is_compressed
        /\ t[f].file = s[f].file /\ t[f].filesize = s[f].filesize
    BY <1>2, <1>3 DEF Fblock
  <1>5. Files(t)
    BY <1>1, <1>2, <1>4, FilesSame
  <1>6. Others(s, t, f)
    BY <1>2 DEF Others, SameButOpen
  <1>7. Amounts(t[f], c[f])
    BY <1>3, <1>4 DEF Amounts
  <1> QED  BY <1>4, <1>5, <1>6, <1>7, SoundKept

(* A file of which SetFileContent has written all.                          *)
LEMMA FullAmounts ==
    ASSUME NEW r, NEW d \in Contents, NEW compressed \in BOOLEAN,
           r.is_compressed = compressed, r.file = OnDisk(d, compressed),
           r.filesize = Len(OnDisk(d, compressed)),
           r.mapped \in {NotMapped, Len(OnDisk(d, compressed))}
    PROVE  Amounts(r, d)
  <1>1. PICK x : x = OnDisk(d, compressed)
    OBVIOUS
  <1>2. x \in Seq(FileCell)
    BY <1>1, DiskCells
  <1>3. SubSeq(x, 1, Len(x)) = x
    BY <1>2, PrefixIs
  <1>4. Len(x) <= Len(x)
    BY <1>2
  <1> QED  BY <1>1, <1>3, <1>4 DEF Amounts

(* PutCompressed, with anything that was compressed.                        *)
LEMMA PutCompressedStep ==
    ASSUME NEW s, NEW c, Sound(s, c), NEW f \in 1..Len(s), NEW e, Fits(e, Len(s), f),
           NEW d \in Contents, NEW t, t = PutCompressed(s, f, LZMACompress(d), e)
    PROVE  /\ Sound(t, [c EXCEPT ![f] = d]) /\ Others(s, t, f)
           /\ t[f].is_compressed
  <1>1. s \in Seq(Fblock) /\ Files(s) /\ s[f] \in Fblock /\ Amounts(s[f], c[f])
    BY FblockHas DEF Sound, Files
  <1>2. PICK r : r = [s[f] EXCEPT !.is_compressed = TRUE]
    OBVIOUS
  <1>3. /\ r \in Fblock /\ r.is_compressed /\ r.fd = s[f].fd
        /\ r.file = s[f].file /\ r.filesize = s[f].filesize
    BY <1>1, <1>2 DEF Fblock
  <1>4. PICK x : x = [s EXCEPT ![f] = r]
    OBVIOUS
  <1>5. /\ x \in Seq(Fblock) /\ Len(x) = Len(s) /\ x[f] = r
        /\ \A g \in 1..Len(s) : g # f => x[g] = s[g]
    BY <1>1, <1>3, <1>4, ReplaceOne
  <1>6. Files(x)
    BY <1>1, <1>3, <1>5, FilesSame
  <1>7. PICK data : data = LZMACompress(d)
    OBVIOUS
  <1>8. data \in Seq(FileCell)
    BY <1>7, Codec
  <1>9. t = SetFileContent(x, f, data, e)
    BY <1>2, <1>4, <1>7 DEF PutCompressed
  <1>10. x[f].filesize <= Len(x[f].file)
    BY <1>1, <1>3, <1>5 DEF Amounts
  <1>11. f \in 1..Len(x) /\ Fits(e, Len(x), f)
    BY <1>5
  <1>12. /\ Files(t) /\ Others(x, t, f)
         /\ t[f].file = data /\ t[f].filesize = Len(data)
         /\ t[f].mapped \in {NotMapped, Len(data)}
         /\ t[f].is_compressed = x[f].is_compressed
    BY <1>6, <1>8, <1>9, <1>10, <1>11, SetFileContentStep
  <1>13. Others(s, x, f)
    BY <1>5 DEF Others, SameButOpen
  <1>14. Others(s, t, f)
    BY <1>12, <1>13, OthersTrans
  <1>15. t[f].is_compressed = TRUE
    BY <1>3, <1>5, <1>12 DEF Fblock
  <1>16. OnDisk(d, TRUE) = data
    BY <1>7 DEF OnDisk
  <1>17. Amounts(t[f], d)
    BY <1>12, <1>15, <1>16, FullAmounts
  <1> QED  BY <1>12, <1>14, <1>15, <1>17, SoundReplaced

(* Decompress. *)
LEMMA DecompressStep ==
    ASSUME NEW s, NEW c, Sound(s, c), NEW f \in 1..Len(s), NEW e, Fits(e, Len(s), f),
           NEW t, t = Decompress(s, f, e)
    PROVE  /\ Sound(t, c) /\ Others(s, t, f) /\ ~t[f].is_compressed
           /\ ~s[f].is_compressed => t = s
  <1>1. CASE ~s[f].is_compressed
    BY <1>1 DEF Decompress, Others, SameButOpen
  <1>2. CASE s[f].is_compressed
    <2>1. PICK x : x = IF IsMapped(s, f) THEN Unmap(s, f) ELSE EnsureOpen(s, f, e)
      OBVIOUS
    <2>2. Sound(x, c) /\ Others(s, x, f) /\ x[f].is_compressed = s[f].is_compressed
      BY <2>1, UnmapKeeps, OpenKeeps DEF SameButOpen
    <2>3. PICK data : data = c[f]
      OBVIOUS
    <2>4. data \in Contents /\ data \in Seq(FileCell) /\ Raw(s, f) = data
      BY <2>3, FblockHas, ContentsCells
    <2>5. PICK y : y = SetFileContent(x, f, data, e)
      OBVIOUS
    <2>6. t = [y EXCEPT ![f].is_compressed = FALSE]
      BY <1>2, <2>1, <2>4, <2>5 DEF Decompress
    <2>7. f \in 1..Len(x) /\ Fits(e, Len(x), f) /\ Files(x)
      BY <2>2 DEF Others, Sound
    <2>8. x[f].filesize <= Len(x[f].file)
      BY <2>2, <2>7, FblockHas DEF Amounts
    <2>9. /\ Files(y) /\ Others(x, y, f)
          /\ y[f].file = data /\ y[f].filesize = Len(data)
          /\ y[f].mapped \in {NotMapped, Len(data)}
      BY <2>4, <2>5, <2>7, <2>8, SetFileContentStep
    <2>10. PICK r : r = [y[f] EXCEPT !.is_compressed = FALSE]
      OBVIOUS
    <2>11. y \in Seq(Fblock) /\ f \in 1..Len(y) /\ y[f] \in Fblock
      BY <2>7, <2>9 DEF Files, Others
    <2>12. /\ r \in Fblock /\ r.is_compressed = FALSE /\ r.fd = y[f].fd
           /\ r.file = y[f].file /\ r.filesize = y[f].filesize /\ r.mapped = y[f].mapped
      BY <2>10, <2>11 DEF Fblock
    <2>13. t = [y EXCEPT ![f] = r]
      BY <2>6, <2>10
    <2>14. /\ t \in Seq(Fblock) /\ Len(t) = Len(y) /\ t[f] = r
           /\ \A g \in 1..Len(y) : g # f => t[g] = y[g]
      BY <2>11, <2>12, <2>13, ReplaceOne
    <2>15. Files(t)
      BY <2>9, <2>12, <2>14, FilesSame
    <2>16. Others(s, t, f)
      <3>1. Others(y, t, f)
        BY <2>14 DEF Others, SameButOpen
      <3> QED  BY <3>1, <2>2, <2>9, OthersTrans
    <2>17. OnDisk(data, FALSE) = data
      BY DEF OnDisk
    <2>18. Amounts(t[f], data)
      BY <2>4, <2>9, <2>12, <2>14, <2>17, FullAmounts
    <2>19. Sound(t, c)
      BY <2>3, <2>15, <2>16, <2>18, SoundKept
    <2> QED  BY <1>2, <2>12, <2>14, <2>16, <2>19
  <1> QED  BY <1>1, <1>2

(* EnsureMMapped(false). *)
LEMMA MapAsIsStep ==
    ASSUME NEW s, NEW c, Sound(s, c), NEW f \in 1..Len(s), NEW e, Fits(e, Len(s), f),
           NEW ok \in BOOLEAN, NEW t, t = MapAsIs(s, f, ok, e)
    PROVE  /\ Sound(t, c) /\ Others(s, t, f)
           /\ t[f].is_compressed = s[f].is_compressed
           /\ IsMapped(s, f) => t = s
  <1>1. CASE IsMapped(s, f)
    BY <1>1 DEF MapAsIs, Others, SameButOpen
  <1>2. CASE ~IsMapped(s, f)
    <2>1. PICK x : x = EnsureOpen(s, f, e)
      OBVIOUS
    <2>2. /\ Sound(x, c) /\ Others(s, x, f)
          /\ x[f].is_compressed = s[f].is_compressed
      BY <2>1, OpenKeeps DEF SameButOpen
    <2>3. f \in 1..Len(x) /\ Files(x) /\ x \in Seq(Fblock) /\ Amounts(x[f], c[f])
      BY <2>2, FblockHas DEF Others, Sound, Files
    <2>4. PICK y : y = SetMap(x, f, ok)
      OBVIOUS
    <2>5. /\ y \in Seq(Fblock) /\ Len(y) = Len(x)
          /\ y[f].mapped \in {NotMapped, x[f].filesize}
          /\ y[f].mapped # NotMapped => ok
          /\ y[f].file = x[f].file /\ y[f].filesize = x[f].filesize
          /\ y[f].fd = x[f].fd /\ y[f].is_compressed = x[f].is_compressed
          /\ \A g \in 1..Len(x) : g # f => y[g] = x[g]
      <3>1. Remapped(y, x, f, ok)
        BY <2>3, <2>4, SetMapRecord
      <3> QED  BY <3>1 DEF Remapped
    <2>6. Files(y)
      BY <2>3, <2>5, FilesSame
    <2>7. f \in 1..Len(y) /\ t = CloseIfMapped(y, f)
      BY <1>2, <2>1, <2>3, <2>4, <2>5 DEF MapAsIs
    <2>8. /\ Files(t) /\ Len(t) = Len(y)
          /\ \A g \in 1..Len(y) : SameButOpen(t[g], y[g])
      BY <2>6, <2>7, CloseIfMappedStep
    <2>9. Others(x, y, f) /\ Others(y, t, f)
      BY <2>5, <2>8 DEF Others, SameButOpen
    <2>10. Others(s, t, f)
      BY <2>2, <2>9, OthersTrans
    <2>11. Amounts(y[f], c[f])
      BY <2>3, <2>5 DEF Amounts
    <2>12. Amounts(t[f], c[f]) /\ t[f].is_compressed = y[f].is_compressed
      BY <2>7, <2>8, <2>11, AmountsSame DEF SameButOpen
    <2>13. Sound(t, c)
      BY <2>8, <2>10, <2>12, SoundKept
    <2> QED  BY <1>2, <2>2, <2>5, <2>10, <2>12, <2>13
  <1> QED  BY <1>1, <1>2

(* EnsureMMapped. *)
LEMMA EnsureMMappedStep ==
    ASSUME NEW s, NEW c, Sound(s, c), NEW f \in 1..Len(s), NEW e, Fits(e, Len(s), f),
           NEW t, t = EnsureMMapped(s, f, e)
    PROVE  /\ Sound(t, c) /\ Others(s, t, f) /\ ~t[f].is_compressed
           /\ ~s[f].is_compressed /\ IsMapped(s, f) => t = s
  <1>1. PICK x : x = Decompress(s, f, e)
    OBVIOUS
  <1>2. /\ Sound(x, c) /\ Others(s, x, f) /\ ~x[f].is_compressed
        /\ ~s[f].is_compressed => x = s
    BY <1>1, DecompressStep
  <1>3. f \in 1..Len(x) /\ Fits(e, Len(x), f) /\ e.map \in BOOLEAN
    BY <1>2 DEF Others, Fits
  <1>4. t = MapAsIs(x, f, e.map, e)
    BY <1>1 DEF EnsureMMapped
  <1>5. /\ Sound(t, c) /\ Others(x, t, f)
        /\ t[f].is_compressed = x[f].is_compressed
        /\ IsMapped(x, f) => t = x
    BY <1>2, <1>3, <1>4, MapAsIsStep
  <1>6. Others(s, t, f)
    BY <1>2, <1>5, OthersTrans
  <1> QED  BY <1>2, <1>5, <1>6

(* A part of a sequence is the same part of a prefix.                       *)
LEMMA PartOfPrefix ==
    ASSUME NEW S, NEW q \in Seq(S), NEW d \in Seq(S), Len(d) <= Len(q),
           \A i \in 1..Len(d) : q[i] = d[i],
           NEW a \in Nat, NEW n \in Nat, a + n <= Len(d)
    PROVE  /\ SubSeq(q, a + 1, a + n) = SubSeq(d, a + 1, a + n)
           /\ SubSeq(d, a + 1, a + n) \in Seq(S)
  <1>1. \A i \in (a + 1)..(a + n) : q[i] \in S /\ d[i] \in S /\ q[i] = d[i]
    OBVIOUS
  <1> DEFINE k == a + 1
             m == a + n
  <1>2. k \in Int /\ m \in Int
    OBVIOUS
  <1>3. \A i \in 1..(m - k + 1) : k + i - 1 \in k..m
    OBVIOUS
  <1> HIDE DEF k, m
  <1>4. \A i \in k..m : q[i] \in S /\ d[i] \in S /\ q[i] = d[i]
    BY <1>1 DEF k, m
  <1>5. /\ SubSeq(q, k, m) \in Seq(S)
        /\ Len(SubSeq(q, k, m)) = IF k <= m THEN m - k + 1 ELSE 0
        /\ \A i \in 1..(m - k + 1) : SubSeq(q, k, m)[i] = q[k + i - 1]
    BY <1>2, <1>4, SubSeqProperties
  <1>6. /\ SubSeq(d, k, m) \in Seq(S)
        /\ Len(SubSeq(d, k, m)) = IF k <= m THEN m - k + 1 ELSE 0
        /\ \A i \in 1..(m - k + 1) : SubSeq(d, k, m)[i] = d[k + i - 1]
    BY <1>2, <1>4, SubSeqProperties
  <1>7. PICK x : x = SubSeq(q, k, m)
    OBVIOUS
  <1>8. PICK y : y = SubSeq(d, k, m)
    OBVIOUS
  <1>9. x \in Seq(S) /\ y \in Seq(S) /\ Len(x) = Len(y)
    BY <1>5, <1>6, <1>7, <1>8
  <1>10. \A i \in 1..Len(x) : x[i] = y[i]
    <2> TAKE i \in 1..Len(x)
    <2>1. i \in 1..(m - k + 1)
      BY <1>2, <1>5, <1>7
    <2>2. k + i - 1 \in k..m
      BY <2>1, <1>3
    <2> QED  BY <2>1, <2>2, <1>4, <1>5, <1>6, <1>7, <1>8
  <1>11. x = y
    BY <1>9, <1>10, SameSequence
  <1> QED  BY <1>9, <1>11, <1>7, <1>8 DEF k, m

CutsRight(w, offset, size, extent, d) ==
    /\ w.from \in Nat /\ w.n \in Nat /\ w.from + w.n <= extent
    /\ SubSeq(d, w.from + 1, w.from + w.n) =
         SubSeq(d, offset + 1, Plan!Smaller(offset + size, extent))

(* The window that InitDataReadBuffer cuts out of a fblock is what was      *)
(* asked for, although its unsigned sums may wrap around.                   *)
LEMMA WindowRight ==
    ASSUME NEW extent \in 0..FSIZE, NEW offset \in 0..FSIZE,
           NEW size \in 0..(WordSize - 1), NEW w, w = Window(offset, size, extent),
           NEW d
    PROVE  CutsRight(w, offset, size, extent, d)
  <1> DEFINE from == Plan!Smaller(offset, extent)
             n == IF (from + size) % WordSize > extent \/ size > extent
                  THEN extent - from ELSE size
             last == Plan!Smaller(offset + size, extent)
  <1>0. /\ extent \in Nat /\ offset \in Nat /\ size \in Nat /\ FSIZE \in Nat
        /\ WordSize \in Nat /\ WordSize > 2 * FSIZE
        /\ extent <= FSIZE /\ offset <= FSIZE /\ size < WordSize
    BY FblockFileParameters
  <1>1. w.from = (IF n = 0 /\ n # size THEN 0 ELSE from) /\ w.n = n
    BY DEF Window
  <1>2. from \in Nat /\ from <= extent /\ from <= offset
        /\ (from < offset => from = extent)
    BY <1>0 DEF Plan!Smaller
  <1>3. size <= extent => (from + size) % WordSize = from + size
    <2>1. SUFFICES ASSUME size <= extent PROVE (from + size) % WordSize = from + size
      OBVIOUS
    <2>2. from + size \in Nat /\ from + size < WordSize
      BY <2>1, <1>0, <1>2
    <2>3. PICK a \in Nat : a = from + size
      BY <2>2
    <2>4. a % WordSize = a
      BY <2>2, <2>3, <1>0
    <2> QED  BY <2>3, <2>4
  <1>4. last \in Nat /\ last <= extent /\ last <= offset + size
        /\ (last = extent \/ last = offset + size)
    BY <1>0 DEF Plan!Smaller
  <1>5. n \in Nat /\ from + n <= extent /\ (n = size \/ n = extent - from)
        /\ (n = size => n <= extent - from)
        /\ (n # size => from + size > extent)
    <2> HIDE DEF from
    <2>1. CASE size > extent
      <3>1. n = extent - from
        BY <2>1
      <3> QED  BY <3>1, <2>1, <1>0, <1>2
    <2>2. CASE size <= extent /\ from + size > extent
      <3>1. n = extent - from
        BY <2>2, <1>3
      <3> QED  BY <3>1, <2>2, <1>0, <1>2
    <2>3. CASE size <= extent /\ from + size <= extent
      <3>1. ~((from + size) % WordSize > extent \/ size > extent)
        <4>1. (from + size) % WordSize = from + size
          BY <2>3, <1>3
        <4>2. PICK a : a = (from + size) % WordSize
          OBVIOUS
        <4>3. ~(a > extent) /\ ~(size > extent)
          BY <4>1, <4>2, <2>3, <1>0, <1>2
        <4> QED  BY <4>2, <4>3
      <3>2. n = size
        BY <3>1
      <3> QED  BY <3>2, <2>3, <1>0, <1>2
    <2> QED  BY <2>1, <2>2, <2>3, <1>0, <1>2
  <1> HIDE DEF from, n, last
  <1>6. w.from \in Nat /\ w.n \in Nat /\ w.from + w.n <= extent
    BY <1>0, <1>1, <1>2, <1>5
  <1>7. CASE n = 0
    <2>1. w.from + w.n < w.from + 1 /\ w.from + 1 \in Int /\ w.from + w.n \in Int
      BY <1>1, <1>6, <1>7
    <2>2. last < offset + 1 /\ last \in Int /\ offset + 1 \in Int
      BY <1>0, <1>2, <1>4, <1>5, <1>7
    <2>3. SubSeq(d, w.from + 1, w.from + w.n) = <<>>
      BY <2>1, SubSeqEmpty
    <2>4. SubSeq(d, offset + 1, last) = <<>>
      BY <2>2, SubSeqEmpty
    <2> QED  BY <1>6, <2>3, <2>4 DEF last, CutsRight
  <1>8. CASE n # 0
    <2>1. w.from = from /\ w.n = n
      BY <1>1, <1>8
    <2>2. from = offset
      BY <1>0, <1>2, <1>5, <1>8
    <2>3. from + n = last
      BY <1>0, <1>2, <1>4, <1>5, <1>8, <2>2
    <2> QED  BY <1>6, <2>1, <2>2, <2>3 DEF last, CutsRight
  <1> QED  BY <1>7, <1>8

BufferOf(b, s, f, ref, offset, size, d, told) ==
    /\ b.fb = s /\ b.ref = ref /\ b.from \in Nat /\ b.n \in Nat
    /\ b.data \in Seq(FileCell) /\ b.size = told
    /\ Shows(s, f, b, offset, size, d)

MayRefer(s, f) == s[f].mapped # NotMapped /\ ~s[f].is_compressed

(* NewBuffer, by reference into the mapping of a raw fblock or as a copy.   *)
LEMMA NewBufferShows ==
    ASSUME NEW s, NEW c, Sound(s, c), NEW f \in 1..Len(s), NEW ref \in BOOLEAN,
           ref => MayRefer(s, f),
           NEW offset \in 0..FSIZE, NEW size \in 0..(WordSize - 1), NEW told,
           NEW w, w = Window(offset, size, Len(c[f])),
           NEW b, b = NewBuffer(s, ref, c[f], w, told)
    PROVE  BufferOf(b, s, f, ref, offset, size, c[f], told)
  <1>1. PICK d : d = c[f]
    OBVIOUS
  <1>2. d \in Contents /\ d \in Seq(FileCell) /\ Len(d) \in 0..FSIZE
    BY <1>1, FblockHas, ContentsCells
  <1>3. /\ w.from \in Nat /\ w.n \in Nat /\ w.from + w.n <= Len(d)
        /\ SubSeq(d, w.from + 1, w.from + w.n) =
             SubSeq(d, offset + 1, Plan!Smaller(offset + size, Len(d)))
    <2>1. PICK L \in 0..FSIZE : L = Len(d)
      BY <1>2
    <2>2. w = Window(offset, size, L)
      BY <1>1, <2>1
    <2>3. CutsRight(w, offset, size, L, d)
      BY <2>2, WindowRight
    <2> QED  BY <2>1, <2>3 DEF CutsRight
  <1>4. /\ b.fb = s /\ b.ref = ref /\ b.from = w.from /\ b.n = w.n /\ b.size = told
        /\ b.data = IF ref THEN <<>> ELSE SubSeq(d, w.from + 1, w.from + w.n)
    BY <1>1 DEF NewBuffer
  <1>5. SubSeq(d, w.from + 1, w.from + w.n) \in Seq(FileCell)
    <2>1. PICK a \in Nat : a = w.from
      BY <1>3
    <2>2. PICK n \in Nat : n = w.n
      BY <1>3
    <2>3. a + n <= Len(d) /\ Len(d) <= Len(d) /\ \A i \in 1..Len(d) : d[i] = d[i]
      BY <1>2, <1>3, <2>1, <2>2
    <2>4. SubSeq(d, a + 1, a + n) \in Seq(FileCell)
      BY <1>2, <2>3, PartOfPrefix
    <2> QED  BY <2>1, <2>2, <2>4
  <1>6. Seen(s, f, b) = SubSeq(d, w.from + 1, w.from + w.n)
    <2>1. CASE ref
      <3>1. /\ s[f].file \in Seq(FileCell) /\ s[f].filesize \in Nat
            /\ s[f].filesize <= Len(s[f].file)
        BY FblockHas DEF Fblock, Amounts
      <3>2. SubSeq(s[f].file, 1, s[f].filesize) = d
        BY <2>1, <1>1, FblockHas DEF Amounts, OnDisk, MayRefer
      <3>3. Len(d) = s[f].filesize /\ \A i \in 1..s[f].filesize : d[i] = s[f].file[i]
        BY <3>1, <3>2, PrefixHas
      <3>4. SubSeq(s[f].file, w.from + 1, w.from + w.n) =
              SubSeq(d, w.from + 1, w.from + w.n)
        <4>1. PICK a \in Nat : a = w.from
          BY <1>3
        <4>2. PICK n \in Nat : n = w.n
          BY <1>3
        <4>3. PICK q \in Seq(FileCell) : q = s[f].file
          BY <3>1
        <4>4. /\ a + n <= Len(d) /\ Len(d) <= Len(q)
              /\ \A i \in 1..Len(d) : q[i] = d[i]
          BY <1>2, <1>3, <3>1, <3>3, <4>1, <4>2, <4>3
        <4>5. SubSeq(q, a + 1, a + n) = SubSeq(d, a + 1, a + n)
          BY <1>2, <4>4, PartOfPrefix
        <4> QED  BY <4>1, <4>2, <4>3, <4>5
      <3> QED  BY <2>1, <3>4, <1>4 DEF Seen
    <2>2. CASE ~ref
      BY <2>2, <1>4 DEF Seen
    <2> QED  BY <2>1, <2>2
  <1>7. <<>> \in Seq(FileCell)
    OBVIOUS
  <1>8. b.data \in Seq(FileCell)
    BY <1>4, <1>5, <1>7
  <1> QED  BY <1>1, <1>3, <1>4, <1>6, <1>8 DEF Shows, BufferOf, MayRefer

(* InitDataReadBuffer.  A raw fblock that is mapped is left as it is.       *)
LEMMA ReadStep ==
    ASSUME NEW s, NEW c, Sound(s, c), NEW f \in 1..Len(s), NEW e, Fits(e, Len(s), f),
           NEW offset \in 0..FSIZE, NEW size \in 0..(WordSize - 1),
           NEW b, b = InitDataReadBuffer(s, f, offset, size, e)
    PROVE  /\ Sound(b.fb, c) /\ Others(s, b.fb, f)
           /\ b.ref \in BOOLEAN /\ b.from \in Nat /\ b.n \in Nat
           /\ b.data \in Seq(FileCell)
           /\ b.size = Len(c[f]) \/ (b.size = Unset /\ ~lookup)
           /\ Shows(b.fb, f, b, offset, size, c[f])
           /\ ~s[f].is_compressed => ~b.fb[f].is_compressed
           /\ ~s[f].is_compressed /\ IsMapped(s, f) => b.fb = s
  <1>1. CASE lookup \/ ~s[f].is_compressed
    <2>1. PICK x : x = EnsureMMapped(s, f, e)
      OBVIOUS
    <2>2. /\ Sound(x, c) /\ Others(s, x, f) /\ ~x[f].is_compressed
          /\ ~s[f].is_compressed /\ IsMapped(s, f) => x = s
      BY <2>1, EnsureMMappedStep
    <2>3. f \in 1..Len(x) /\ Fits(e, Len(x), f)
      BY <2>2 DEF Others
    <2>4. Stored(x, f) = c[f] /\ x[f].filesize = Len(c[f])
      BY <2>2, <2>3, FblockHas DEF OnDisk
    <2>5. PICK ref \in BOOLEAN : ref = IsMapped(x, f)
      BY DEF IsMapped
    <2>6. PICK y : y = IF IsMapped(x, f) THEN x ELSE EnsureOpen(x, f, e)
      OBVIOUS
    <2>7. /\ Sound(y, c) /\ Others(x, y, f) /\ SameButOpen(y[f], x[f])
          /\ IsMapped(x, f) => y = x
      <3>1. CASE IsMapped(x, f)
        BY <2>2, <2>6, <3>1 DEF Others, SameButOpen
      <3>2. CASE ~IsMapped(x, f)
        <4>1. y = EnsureOpen(x, f, e)
          BY <2>6, <3>2
        <4> QED  BY <2>2, <2>3, <3>2, <4>1, OpenKeeps
      <3> QED  BY <3>1, <3>2
    <2>8. f \in 1..Len(y) /\ y[f].mapped = x[f].mapped /\ ~y[f].is_compressed
      BY <2>2, <2>3, <2>7 DEF Others, SameButOpen
    <2>9. ref => MayRefer(y, f)
      BY <2>5, <2>8, Zenon DEF IsMapped, MayRefer
    <2>10. PICK w : w = Window(offset, size, Len(c[f]))
      OBVIOUS
    <2>a. PICK told : told = Len(c[f])
      OBVIOUS
    <2>11. b = NewBuffer(y, ref, c[f], w, told)
      BY <1>1, <2>a, <2>1, <2>4, <2>5, <2>6, <2>10 DEF InitDataReadBuffer, FromFile
    <2>12. BufferOf(b, y, f, ref, offset, size, c[f], told)
      BY <2>7, <2>8, <2>9, <2>10, <2>11, NewBufferShows
    <2>13. Others(s, y, f)
      BY <2>2, <2>7, OthersTrans
    <2> QED  BY <2>a, <2>2, <2>7, <2>8, <2>12, <2>13 DEF BufferOf
  <1>2. CASE ~(lookup \/ ~s[f].is_compressed)
    <2>1. PICK y : y = EnsureOpen(s, f, e)
      OBVIOUS
    <2>2. Sound(y, c) /\ Others(s, y, f) /\ f \in 1..Len(y)
      BY <2>1, OpenKeeps DEF Others
    <2>3. PICK w : w = Window(offset, size, Len(c[f]))
      OBVIOUS
    <2>a. PICK told : told = Unset
      OBVIOUS
    <2>b. PICK ref \in BOOLEAN : ref = FALSE
      OBVIOUS
    <2>4. b = NewBuffer(y, ref, c[f], w, told)
      BY <1>2, <2>a, <2>b, <2>1, <2>3, FblockHas DEF InitDataReadBuffer, FromMemory
    <2>c. ref => MayRefer(y, f)
      BY <2>b
    <2>5. BufferOf(b, y, f, ref, offset, size, c[f], told)
      BY <2>2, <2>3, <2>4, <2>c, NewBufferShows
    <2> QED  BY <1>2, <2>a, <2>b, <2>2, <2>5 DEF BufferOf
  <1> QED  BY <1>1, <1>2

(* Compress. *)
LEMMA CompressStep ==
    ASSUME NEW s, NEW c, Sound(s, c), NEW f \in 1..Len(s), NEW e, Fits(e, Len(s), f),
           NEW t, t = Compress(s, f, e)
    PROVE  Sound(t, c) /\ Others(s, t, f) /\ t[f].is_compressed
  <1>1. CASE s[f].is_compressed
    BY <1>1 DEF Compress, Others, SameButOpen
  <1>2. CASE ~s[f].is_compressed
    <2>1. PICK b : b = InitDataReadBuffer(s, f, 0, All, e)
      OBVIOUS
    <2>2. 0 \in 0..FSIZE /\ All \in 0..(WordSize - 1)
      BY FblockFileParameters DEF All
    <2>3. Sound(b.fb, c) /\ Others(s, b.fb, f) /\ ~b.fb[f].is_compressed
      BY <1>2, <2>1, <2>2, ReadStep
    <2>4. PICK x : x = b.fb
      OBVIOUS
    <2>5. f \in 1..Len(x) /\ Fits(e, Len(x), f)
      BY <2>3, <2>4 DEF Others
    <2>6. Stored(x, f) = c[f] /\ c[f] \in Contents
      BY <2>3, <2>4, <2>5, FblockHas DEF OnDisk
    <2>7. t = PutCompressed(x, f, LZMACompress(c[f]), e)
      BY <1>2, <2>1, <2>4, <2>6 DEF Compress, CompressBuffer
    <2>8. Sound(t, [c EXCEPT ![f] = c[f]]) /\ Others(x, t, f) /\ t[f].is_compressed
      BY <2>3, <2>4, <2>5, <2>6, <2>7, PutCompressedStep
    <2>9. [c EXCEPT ![f] = c[f]] = c
      BY DEF Sound
    <2>10. Others(s, t, f)
      BY <2>3, <2>4, <2>8, OthersTrans
    <2> QED  BY <2>8, <2>9, <2>10
  <1> QED  BY <1>1, <1>2

(* A block d that agrees with the contents h from base on and fits.         *)
Appendable(h, base, d) ==
    /\ base \in 0..Len(h) /\ d \in Seq(Byte) /\ base + Len(d) <= FSIZE

TailOf(tail, h, base, d) ==
    /\ tail \in Seq(Byte \cup {Junk}) /\ tail \in Seq(FileCell)
    /\ IF base + Len(d) <= Len(h) THEN tail = <<>>
                                  ELSE Len(h) + Len(tail) = base + Len(d)

(* The bytes behind the end of the fblock.                                  *)
LEMMA TailOfBlock ==
    ASSUME NEW h \in Contents, NEW base, NEW d, Appendable(h, base, d),
           NEW tail, tail = SubSeq(d, Len(h) - base + 1, Len(d))
    PROVE  TailOf(tail, h, base, d)
  <1>1. base \in Nat /\ d \in Seq(Byte) /\ Len(h) \in Nat /\ base <= Len(h) /\ Len(d) \in Nat
    BY ContentsCells DEF Appendable
  <1>2. PICK m \in Int : m = Len(h) - base + 1
    <2>1. Len(h) - base + 1 \in Int
      BY <1>1
    <2> QED  BY <2>1
  <1>3. PICK n \in Int : n = Len(d)
    BY <1>1
  <1>4. \A i \in m..n : d[i] \in Byte \cup {Junk} /\ d[i] \in FileCell
    BY <1>1, <1>2, <1>3 DEF FileCell
  <1>5. /\ SubSeq(d, m, n) \in Seq(Byte \cup {Junk})
        /\ Len(SubSeq(d, m, n)) = IF m <= n THEN n - m + 1 ELSE 0
    BY <1>4, SubSeqProperties
  <1>6. SubSeq(d, m, n) \in Seq(FileCell)
    BY <1>4, SubSeqProperties
  <1>7. n < m => SubSeq(d, m, n) = <<>>
    BY SubSeqEmpty
  <1>8. tail = SubSeq(d, m, n)
    BY <1>2, <1>3
  <1>9. CASE base + Len(d) <= Len(h)
    BY <1>1, <1>2, <1>3, <1>5, <1>6, <1>7, <1>8, <1>9 DEF TailOf
  <1>10. CASE ~(base + Len(d) <= Len(h))
    <2>1. m <= n
      BY <1>1, <1>2, <1>3, <1>10
    <2> QED  BY <2>1, <1>1, <1>2, <1>3, <1>5, <1>6, <1>8, <1>10 DEF TailOf
  <1> QED  BY <1>9, <1>10

(* What Blockifier takes the contents to be afterwards.                     *)
LEMMA AppendedContents ==
    ASSUME NEW h \in Contents, NEW base, NEW d, Appendable(h, base, d)
    PROVE  /\ Plan!PutAppendedRaw(h, base, d) \in Contents
           /\ base + Len(d) <= Len(h) => Plan!PutAppendedRaw(h, base, d) = h
  <1>1. PICK tail : tail = SubSeq(d, Len(h) - base + 1, Len(d))
    OBVIOUS
  <1>2. /\ tail \in Seq(Byte \cup {Junk})
        /\ IF base + Len(d) <= Len(h) THEN tail = <<>>
                                      ELSE Len(h) + Len(tail) = base + Len(d)
    <2>1. TailOf(tail, h, base, d)
      BY <1>1, TailOfBlock
    <2> QED  BY <2>1 DEF TailOf
  <1>3. h \in Seq(Byte \cup {Junk}) /\ Len(h) \in 0..FSIZE
    BY ContentsCells DEF Contents
  <1>4. Plan!PutAppendedRaw(h, base, d) = h \o tail
    BY <1>1 DEF Plan!PutAppendedRaw
  <1>5. h \o tail \in Seq(Byte \cup {Junk}) /\ Len(h \o tail) = Len(h) + Len(tail)
    BY <1>2, <1>3
  <1>6. base + Len(d) <= FSIZE
    BY DEF Appendable
  <1>7. CASE base + Len(d) <= Len(h)
    <2>1. tail = <<>> /\ h \o tail = h
      BY <1>2, <1>3, <1>7
    <2> QED  BY <2>1, <1>4
  <1>8. CASE ~(base + Len(d) <= Len(h))
    BY <1>2, <1>4, <1>5, <1>6, <1>8 DEF Contents
  <1> QED  BY <1>7, <1>8

Extended(p, h, tail) ==
    /\ p \in Seq(FileCell) /\ Len(h) + Len(tail) <= Len(p)
    /\ SubSeq(p, 1, Len(h) + Len(tail)) = h \o tail

(* A file to whose first n bytes a tail is written has both.                *)
LEMMA TailWritten ==
    ASSUME NEW file \in Seq(FileCell), NEW h \in Seq(FileCell), NEW tail \in Seq(FileCell),
           Len(h) <= Len(file), \A i \in 1..Len(h) : h[i] = file[i],
           NEW p, p = Pwrite(file, tail, Len(h))
    PROVE  Extended(p, h, tail)
  <1>1. PICK n \in Nat : n = Len(h)
    OBVIOUS
  <1>2. /\ p \in Seq(FileCell) /\ Len(p) >= n + Len(tail)
        /\ \A i \in 1..Len(tail) : p[n + i] = tail[i]
        /\ \A i \in 1..Len(file) : i <= n => p[i] = file[i]
    BY <1>1, PwriteCells, SMTT(40)
  <1>3. PICK k : k = h \o tail
    OBVIOUS
  <1>4. k \in Seq(FileCell) /\ Len(k) = n + Len(tail)
    BY <1>1, <1>3
  <1>5. \A i \in 1..Len(k) : p[i] = k[i]
    <2> TAKE i \in 1..Len(k)
    <2>1. CASE i <= n
      <3>1. i \in 1..Len(h) /\ i \in 1..Len(file)
        BY <2>1, <1>1
      <3>2. p[i] = file[i] /\ h[i] = file[i]
        BY <2>1, <3>1, <1>2
      <3>3. k[i] = h[i]
        BY <3>1, <1>3
      <3> QED  BY <3>2, <3>3
    <2>2. CASE i > n
      <3>1. PICK j \in 1..Len(tail) : i = n + j
        <4>1. i - n \in 1..Len(tail) /\ i = n + (i - n)
          BY <2>2, <1>4
        <4> QED  BY <4>1
      <3>2. k[i] = tail[j]
        BY <3>1, <2>2, <1>1, <1>3
      <3> QED  BY <3>1, <3>2, <1>2
    <2> QED  BY <2>1, <2>2
  <1>6. Len(k) <= Len(p)
    BY <1>2, <1>4
  <1>7. SubSeq(p, 1, Len(k)) = k
    BY <1>2, <1>4, <1>5, <1>6, PrefixIs
  <1> QED  BY <1>1, <1>2, <1>3, <1>4, <1>7 DEF Extended

(* put_appended_raw does what Blockifier takes it to do.                    *)
LEMMA PutAppendedRawStep ==
    ASSUME NEW s, NEW c, Sound(s, c), NEW f \in 1..Len(s), NEW e, Fits(e, Len(s), f),
           NEW base, NEW d, Appendable(c[f], base, d),
           NEW t, t = PutAppendedRaw(s, f, base, d, e)
    PROVE  /\ Sound(t, [c EXCEPT ![f] = Plan!PutAppendedRaw(c[f], base, d)])
           /\ Len(t) = Len(s)
  <1>1. PICK x : x = Decompress(s, f, e)
    OBVIOUS
  <1>2. Sound(x, c) /\ Others(s, x, f) /\ ~x[f].is_compressed
    BY <1>1, DecompressStep
  <1>3. f \in 1..Len(x) /\ Fits(e, Len(x), f) /\ Len(x) = Len(s)
    BY <1>2 DEF Others
  <1>4. PICK h : h = c[f]
    OBVIOUS
  <1>5. h \in Contents /\ h \in Seq(FileCell) /\ x[f].filesize = Len(h)
    BY <1>2, <1>3, <1>4, FblockHas, ContentsCells DEF OnDisk
  <1>6. PICK k : k = Plan!PutAppendedRaw(h, base, d)
    OBVIOUS
  <1>7. k \in Contents /\ (base + Len(d) <= Len(h) => k = h)
    BY <1>4, <1>5, <1>6, AppendedContents
  <1>8. t = AppendToRaw(x, f, base, d, e)
    BY <1>1 DEF PutAppendedRaw
  <1>9. CASE base + Len(d) <= Len(h)
    <2>1. t = x
      BY <1>5, <1>8, <1>9 DEF AppendToRaw
    <2>2. [c EXCEPT ![f] = k] = c
      BY <1>4, <1>7, <1>9 DEF Sound
    <2> QED  BY <2>1, <2>2, <1>2, <1>3, <1>4, <1>6
  <1>10. CASE ~(base + Len(d) <= Len(h))
    <2>1. PICK y : y = EnsureOpen(x, f, e)
      OBVIOUS
    <2>2. Sound(y, c) /\ Others(x, y, f) /\ SameButOpen(y[f], x[f])
      BY <1>2, <1>3, <2>1, OpenKeeps
    <2>3. f \in 1..Len(y) /\ Len(y) = Len(s) /\ Files(y) /\ y \in Seq(Fblock)
      BY <1>3, <2>2 DEF Others, Sound, Files
    <2>4. y[f] \in Fblock /\ Amounts(y[f], h) /\ y[f].filesize = Len(h) /\ ~y[f].is_compressed
      BY <1>2, <1>4, <1>5, <2>2, <2>3, FblockHas DEF SameButOpen
    <2>5. PICK tail : tail = SubSeq(d, Len(h) - base + 1, Len(d))
      OBVIOUS
    <2>6. tail \in Seq(FileCell) /\ Len(h) + Len(tail) = base + Len(d)
      <3>1. TailOf(tail, h, base, d)
        BY <1>4, <1>5, <2>5, TailOfBlock
      <3> QED  BY <3>1, <1>10 DEF TailOf
    <2>7. PICK p : p = Pwrite(y[f].file, tail, Len(h))
      OBVIOUS
    <2>8. /\ y[f].file \in Seq(FileCell) /\ Len(h) \in Nat /\ Len(h) <= Len(y[f].file)
          /\ SubSeq(y[f].file, 1, Len(h)) = h
      BY <1>5, <2>4 DEF Fblock, Amounts, OnDisk
    <2>9. \A i \in 1..Len(h) : h[i] = y[f].file[i]
      BY <2>8, PrefixHas
    <2>10. /\ p \in Seq(FileCell) /\ Len(h) + Len(tail) <= Len(p)
           /\ SubSeq(p, 1, Len(h) + Len(tail)) = h \o tail
      <3>1. PICK file \in Seq(FileCell) : file = y[f].file
        BY <2>8
      <3>2. Len(h) <= Len(file) /\ \A i \in 1..Len(h) : h[i] = file[i]
        BY <2>8, <2>9, <3>1
      <3>3. p = Pwrite(file, tail, Len(h))
        BY <2>7, <3>1
      <3>4. Extended(p, h, tail)
        BY <1>5, <2>6, <3>2, <3>3, TailWritten
      <3> QED  BY <3>4 DEF Extended
    <2>11. PICK n : n = base + Len(d)
      OBVIOUS
    <2>12. n \in Nat /\ n <= Len(p) /\ SubSeq(p, 1, n) = k /\ n # Len(h)
      <3>1. k = h \o tail
        BY <1>6, <2>5 DEF Plan!PutAppendedRaw
      <3>2. n \in Nat
        BY <2>6, <2>8, <2>11
      <3>3. n # Len(h)
        BY <1>10, <2>11, <3>2, <2>8
      <3> QED  BY <3>1, <3>2, <3>3, <2>6, <2>10, <2>11
    <2>13. PICK r : r = [y[f] EXCEPT !.file = p, !.filesize = n]
      OBVIOUS
    <2>14. /\ r \in Fblock /\ r.file = p /\ r.filesize = n /\ r.mapped = y[f].mapped
           /\ r.fd = y[f].fd /\ r.is_compressed = y[f].is_compressed
      BY <2>4, <2>10, <2>12, <2>13 DEF Fblock
    <2>15. PICK z : z = [y EXCEPT ![f] = r]
      OBVIOUS
    <2>16. /\ z \in Seq(Fblock) /\ Len(z) = Len(y) /\ z[f] = r
           /\ \A g \in 1..Len(y) : g # f => z[g] = y[g]
      BY <2>3, <2>14, <2>15, ReplaceOne
    <2>17. z = WriteAppended(x, f, base, d, e)
      BY <1>5, <2>1, <2>5, <2>7, <2>11, <2>13, <2>15 DEF WriteAppended
    <2>18. PICK ok \in BOOLEAN : ok = e.map
      BY DEF Fits
    <2>19. t = ReMapIfNecessary(z, f, ok)
      BY <1>5, <1>8, <1>10, <2>17, <2>18 DEF AppendToRaw
    <2>20. Files(z)
      BY <2>3, <2>14, <2>16, FilesSame
    <2>21. /\ t \in Seq(Fblock) /\ Len(t) = Len(z)
           /\ t[f].mapped \in {NotMapped, n}
           /\ t[f].file = p /\ t[f].filesize = n
           /\ t[f].fd = z[f].fd /\ t[f].is_compressed = y[f].is_compressed
           /\ \A g \in 1..Len(z) : g # f => t[g] = z[g]
      <3>1. CASE z[f].mapped \in {NotMapped, z[f].filesize}
        <4>1. t = z
          BY <3>1, <2>19 DEF ReMapIfNecessary
        <4> QED  BY <3>1, <4>1, <2>14, <2>16
      <3>2. CASE z[f].mapped \notin {NotMapped, z[f].filesize}
        <4>1. t = SetMap(z, f, ok)
          BY <3>2, <2>19 DEF ReMapIfNecessary
        <4>2. f \in 1..Len(z)
          BY <2>3, <2>16
        <4>3. /\ t \in Seq(Fblock) /\ Len(t) = Len(z)
              /\ t[f].mapped \in {NotMapped, z[f].filesize}
              /\ t[f].mapped # NotMapped => ok
              /\ t[f].file = z[f].file /\ t[f].filesize = z[f].filesize
              /\ t[f].fd = z[f].fd /\ t[f].is_compressed = z[f].is_compressed
              /\ \A g \in 1..Len(z) : g # f => t[g] = z[g]
          <5>1. Remapped(t, z, f, ok)
            BY <2>16, <4>1, <4>2, SetMapRecord
          <5> QED  BY <5>1 DEF Remapped
        <4> QED  BY <4>3, <2>14, <2>16
      <3> QED  BY <3>1, <3>2
    <2>22. Files(t)
      BY <2>20, <2>21, FilesSame
    <2>23. Others(s, t, f)
      <3>1. Others(y, t, f)
        BY <2>16, <2>21 DEF Others, SameButOpen
      <3>2. Others(s, y, f)
        BY <1>2, <2>2, OthersTrans
      <3> QED  BY <3>1, <3>2, OthersTrans
    <2>24. Amounts(t[f], k)
      BY <2>4, <2>12, <2>21 DEF Amounts, OnDisk
    <2>25. Sound(t, [c EXCEPT ![f] = k])
      BY <1>7, <2>22, <2>23, <2>24, SoundReplaced
    <2> QED  BY <2>25, <2>23, <1>4, <1>6 DEF Others
  <1> QED  BY <1>9, <1>10

(* The loop of FreeSomeResources. *)
LEMMA FreedStep ==
    ASSUME NEW s, NEW c, Sound(s, c), NEW F, NEW t, t = Freed(s, F)
    PROVE  /\ Sound(t, c) /\ Len(t) = Len(s)
           /\ \A g \in 1..Len(s) : t[g].is_compressed = s[g].is_compressed
  <1>1. s \in Seq(Fblock) /\ Len(s) \in Nat /\ Cardinality(OpenFiles(s)) <= MaxOpen
    BY DEF Sound, Files
  <1> DEFINE Rec(g) == IF g \in F THEN Close(Unmap(s, g), g)[g] ELSE s[g]
  <1>2. t = [g \in 1..Len(s) |-> Rec(g)]
    BY <1>1 DEF Freed
  <1>3. \A g \in 1..Len(s) :
           /\ Rec(g) \in Fblock /\ Amounts(Rec(g), c[g])
           /\ Rec(g).is_compressed = s[g].is_compressed
           /\ Rec(g).fd => s[g].fd
    <2> TAKE g \in 1..Len(s)
    <2>1. CASE g \in F
      <3>1. PICK u : u = Unmap(s, g)
        OBVIOUS
      <3>2. /\ Sound(u, c) /\ Len(u) = Len(s) /\ u[g].fd = s[g].fd
            /\ u[g].is_compressed = s[g].is_compressed
        BY <3>1, UnmapKeeps DEF Others
      <3>3. u \in Seq(Fblock) /\ g \in 1..Len(u) /\ Amounts(u[g], c[g])
        BY <3>2 DEF Sound, Files
      <3>4. /\ Close(u, g) \in Seq(Fblock) /\ Len(Close(u, g)) = Len(u)
            /\ ~Close(u, g)[g].fd /\ SameButOpen(Close(u, g)[g], u[g])
        BY <3>3, CloseRecord
      <3>5. Close(u, g)[g] \in Fblock
        BY <3>3, <3>4
      <3>6. Amounts(Close(u, g)[g], c[g])
        BY <3>3, <3>4, AmountsSame
      <3>7. Rec(g) = Close(u, g)[g]
        BY <2>1, <3>1
      <3> QED  BY <3>2, <3>4, <3>5, <3>6, <3>7 DEF SameButOpen
    <2>2. CASE g \notin F
      BY <2>2, FblockHas
    <2> QED  BY <2>1, <2>2
  <1> HIDE DEF Rec
  <1>4. t \in Seq(Fblock) /\ Len(t) = Len(s)
    BY <1>1, <1>2, <1>3
  <1>5. OpenFiles(t) \subseteq OpenFiles(s)
    BY <1>1, <1>2, <1>3, <1>4 DEF OpenFiles
  <1>6. Cardinality(OpenFiles(t)) <= MaxOpen
    <2>1. /\ Cardinality(OpenFiles(t)) <= Cardinality(OpenFiles(s))
          /\ Cardinality(OpenFiles(t)) \in Nat /\ Cardinality(OpenFiles(s)) \in Nat
      BY <1>1, <1>4, <1>5, OpenFinite, FS_Subset
    <2> QED  BY <2>1, <1>1, FblockFileParameters
  <1>7. c \in Seq(Contents) /\ Len(c) = Len(s)
    BY DEF Sound
  <1>8. \A g \in 1..Len(t) : Amounts(t[g], c[g]) /\ t[g].is_compressed = s[g].is_compressed
    BY <1>2, <1>3, <1>4
  <1> QED  BY <1>4, <1>6, <1>7, <1>8 DEF Sound, Files

-----------------------------------------------------------------------------
(* The steps.                                                               *)

(* The contents are those of the history until the final compression.       *)
LEMMA PlanSound ==
    ASSUME FblockInv, pc \in {"plan", "index"}
    PROVE  Sound(fb, stored) /\ fb \in Seq(Fblock) /\ Len(stored) = Len(fb)
  <1>1. PICK c : /\ Sound(fb, c)
                 /\ \A f \in 1..Len(fb) : lookup \/ f \notin done => c[f] = stored[f]
    BY DEF FblockInv, ContentsInv
  <1>2. done = {} /\ stored \in Seq(Contents) /\ Len(fb) = Len(stored)
    BY DEF FblockInv, HistoryInv
  <1>3. c \in Seq(Contents) /\ Len(c) = Len(fb) /\ fb \in Seq(Fblock)
    BY <1>1 DEF Sound, Files
  <1>4. \A f \in 1..Len(c) : c[f] = stored[f]
    BY <1>1, <1>2, <1>3
  <1>5. c = stored
    BY <1>2, <1>3, <1>4, SameSequence
  <1> QED  BY <1>1, <1>2, <1>3, <1>5

(* And then they still are as many, whatever they are.                      *)
LEMMA SomeSound ==
    ASSUME FblockInv
    PROVE  /\ fb \in Seq(Fblock)
           /\ \E c : /\ Sound(fb, c)
                     /\ \A f \in 1..Len(fb) : lookup \/ f \notin done => c[f] = stored[f]
  BY DEF FblockInv, ContentsInv, Sound, Files

(* The environment's choices fit the fblocks, also with one more.           *)
LEMMA OutcomesFit ==
    ASSUME fb \in Seq(Fblock), NEW e \in Outcomes, NEW n \in Nat, NEW f,
           n = Len(fb) \/ (n = Len(fb) + 1 /\ f = n)
    PROVE  Fits(e, n, f)
  <1>1. DOMAIN fb = 1..Len(fb) /\ Len(fb) \in Nat
    OBVIOUS
  <1>2. e.map \in BOOLEAN /\ e.write \in BOOLEAN /\ e.order \in AccessOrders
    BY DEF Outcomes
  <1>3. /\ e.order \in [1..Len(fb) -> 1..Len(fb)]
        /\ \A g \in 1..Len(fb) : \E i \in 1..Len(fb) : e.order[i] = g
    BY <1>1, <1>2 DEF AccessOrders
  <1>4. Len(fb) \in 0..n /\ \A g \in 1..n : g # f => g \in 1..Len(fb)
    <2>1. PICK m \in Nat : m = Len(fb)
      BY <1>1
    <2>2. n = m \/ (n = m + 1 /\ f = n)
      BY <2>1, Zenon
    <2>3. m \in 0..n /\ \A g \in 1..n : g # f => g \in 1..m
      BY <2>2
    <2> QED  BY <2>1, <2>3
  <1>6. DOMAIN e.order = 1..Len(fb)
    BY <1>3
  <1>7. \A g \in 1..n : g # f => \E i \in DOMAIN e.order : e.order[i] = g
    BY <1>3, <1>4, <1>6
  <1>8. \E k \in 0..n : e.order \in [1..k -> 1..k]
    BY <1>3, <1>4
  <1> QED  BY <1>2, <1>7, <1>8 DEF Fits

(* A step of a reader or of FreeSomeResources: the contents stay.           *)
LEMMA Kept ==
    ASSUME FblockInv, pc \in {"plan", "index"}, pc' \in {"plan", "index"},
           Sound(fb', stored), Len(fb') = Len(fb),
           buffer' # NoBuffer => Serves(buffer', fb', stored),
           idle' \subseteq 1..Len(fb), counter' \in 0..RandomCompressPeriod,
           UNCHANGED <<stored, done, image, lookup>>
    PROVE  FblockInv'
  <1>1. ContentsInv'
    <2>1. Sound(fb', stored) /\ \A f \in 1..Len(fb') : stored[f] = stored'[f]
      OBVIOUS
    <2> QED  BY <2>1 DEF ContentsInv
  <1>2. HistoryInv'
    BY DEF FblockInv, HistoryInv
  <1>3. RestInv'
    BY DEF FblockInv, RestInv
  <1>4. BufferInv'
    BY DEF BufferInv
  <1>5. ImageInv'
    BY DEF FblockInv, ImageInv, ImageFaithfulWithLookup, ImageFaithful
  <1> QED  BY <1>1, <1>2, <1>3, <1>4, <1>5 DEF FblockInv

(* No fblock, no contents.                                                  *)
LEMMA EmptySound == Sound(<<>>, <<>>)
  <1>1. <<>> \in Seq(Fblock) /\ <<>> \in Seq(Contents) /\ Len(<<>>) = 0
    OBVIOUS
  <1>2. OpenFiles(<<>>) = {}
    BY DEF OpenFiles
  <1>3. Cardinality({}) = 0
    BY FS_EmptySet
  <1>4. Cardinality(OpenFiles(<<>>)) <= MaxOpen
    <2>1. Cardinality(OpenFiles(<<>>)) = 0
      BY <1>2, <1>3, Zenon
    <2>2. 0 <= MaxOpen
      BY FblockFileParameters
    <2> QED  BY <2>1, <2>2, Zenon
  <1> QED  BY <1>1, <1>4 DEF Sound, Files

LEMMA InitialInv == ASSUME Init PROVE FblockInv
  <1>1. fb = <<>> /\ stored = <<>> /\ image = <<>> /\ buffer = NoBuffer /\ done = {}
    BY DEF Init
  <1>2. Sound(<<>>, <<>>)
    BY EmptySound
  <1>3. ContentsInv
    BY <1>1, <1>2 DEF ContentsInv
  <1>4. HistoryInv
    BY <1>1, FblockFileParameters DEF Init, HistoryInv
  <1>5. RestInv
    BY <1>1, FblockFileParameters DEF Init, RestInv
  <1>6. BufferInv
    BY <1>1 DEF BufferInv
  <1>7. ImageInv
    BY <1>1 DEF ImageInv, ImageFaithfulWithLookup, ImageFaithful
  <1> QED  BY <1>3, <1>4, <1>5, <1>6, <1>7 DEF FblockInv

LEMMA TimePassesStep == ASSUME FblockInv, TimePasses PROVE FblockInv'
  <1>1. UNCHANGED <<fb, stored, counter, buffer, pc, done, terminate_for, image, lookup>>
    BY DEF TimePasses
  <1>2. DOMAIN fb = 1..Len(fb)
    BY SomeSound
  <1>3. idle' \subseteq 1..Len(fb)
    BY <1>2 DEF TimePasses, FblockInv, RestInv
  <1>4. ContentsInv' /\ HistoryInv' /\ BufferInv' /\ ImageInv'
    BY <1>1 DEF FblockInv, ContentsInv, HistoryInv, BufferInv, ImageInv,
                ImageFaithfulWithLookup, ImageFaithful
  <1>5. RestInv'
    BY <1>1, <1>3 DEF FblockInv, RestInv
  <1> QED  BY <1>4, <1>5 DEF FblockInv

LEMMA MapCandidateStep == ASSUME FblockInv, MapCandidate PROVE FblockInv'
  <1>1. pc \in {"plan", "index"} /\ buffer' = NoBuffer
        /\ UNCHANGED <<stored, counter, pc, done, image, lookup>>
    BY DEF MapCandidate
  <1>2. Sound(fb, stored) /\ fb \in Seq(Fblock) /\ DOMAIN fb = 1..Len(fb) /\ Len(fb) \in Nat
    BY <1>1, PlanSound
  <1>3. PICK f \in 1..Len(fb), e \in Outcomes :
           fb' = EnsureMMapped(fb, f, e) /\ idle' = idle \ {f}
    BY <1>2 DEF MapCandidate
  <1>4. Fits(e, Len(fb), f)
    BY <1>2, OutcomesFit
  <1>5. Sound(fb', stored) /\ Others(fb, fb', f)
    BY <1>2, <1>3, <1>4, EnsureMMappedStep
  <1>6. Len(fb') = Len(fb)
    BY <1>5 DEF Others
  <1>7. idle' \subseteq 1..Len(fb) /\ counter' \in 0..RandomCompressPeriod
    BY <1>1, <1>3 DEF FblockInv, RestInv
  <1> QED  BY <1>1, <1>5, <1>6, <1>7, Kept

LEMMA AskSizeStep == ASSUME FblockInv, AskSize PROVE FblockInv'
  <1>1. pc \in {"plan", "index"} /\ buffer' = NoBuffer
        /\ UNCHANGED <<stored, counter, pc, done, image, lookup>>
    BY DEF AskSize
  <1>2. Sound(fb, stored) /\ fb \in Seq(Fblock) /\ DOMAIN fb = 1..Len(fb) /\ Len(fb) \in Nat
    BY <1>1, PlanSound
  <1>3. PICK f \in 1..Len(fb), e \in Outcomes :
           fb' = Decompress(fb, f, e) /\ idle' = idle \ {f}
    BY <1>2 DEF AskSize
  <1>4. Fits(e, Len(fb), f)
    BY <1>2, OutcomesFit
  <1>5. Sound(fb', stored) /\ Others(fb, fb', f)
    BY <1>2, <1>3, <1>4, DecompressStep
  <1>6. Len(fb') = Len(fb)
    BY <1>5 DEF Others
  <1>7. idle' \subseteq 1..Len(fb) /\ counter' \in 0..RandomCompressPeriod
    BY <1>1, <1>3 DEF FblockInv, RestInv
  <1> QED  BY <1>1, <1>5, <1>6, <1>7, Kept

LEMMA FreeSomeResourcesStep == ASSUME FblockInv, FreeSomeResources PROVE FblockInv'
  <1>1. /\ pc \in {"plan", "index"} /\ pc' \in {"plan", "index"} /\ buffer' = NoBuffer
        /\ UNCHANGED <<stored, idle, done, image, lookup>>
    BY DEF FreeSomeResources
  <1>2. Sound(fb, stored) /\ fb \in Seq(Fblock) /\ DOMAIN fb = 1..Len(fb) /\ Len(fb) \in Nat
    BY <1>1, PlanSound
  <1>3. PICK e \in Outcomes :
          /\ fb' = Freed(IF Compressible(e) = {} THEN fb
                         ELSE CompressAt(Plan!FirstOf(Compressible(e), 0), e), idle)
          /\ counter' = NextCounter(Compressible(e) = {})
    BY DEF FreeSomeResources
  <1>4. PICK x : x = IF Compressible(e) = {} THEN fb
                     ELSE CompressAt(Plan!FirstOf(Compressible(e), 0), e)
    OBVIOUS
  <1>5. Sound(x, stored) /\ Len(x) = Len(fb)
    <2>1. CASE Compressible(e) = {}
      BY <2>1, <1>2, <1>4
    <2>2. CASE Compressible(e) # {}
      <3>1. e.order \in [1..Len(fb) -> 1..Len(fb)]
        BY <1>2 DEF Outcomes, AccessOrders
      <3>2. Compressible(e) \in SUBSET (1..Len(fb))
        BY <3>1 DEF Compressible
      <3>3. PICK i : i = Plan!FirstOf(Compressible(e), 0)
        OBVIOUS
      <3>4. i \in 1..Len(fb)
        <4>1. Compressible(e) \in SUBSET Nat
          BY <3>2
        <4> QED  BY <4>1, <3>2, <3>3, <2>2, FirstIsIn
      <3>5. PICK f : f = e.order[i]
        OBVIOUS
      <3>6. f \in 1..Len(fb)
        BY <3>1, <3>4, <3>5
      <3>7. PICK y : y = Freed(fb, {e.order[j] : j \in 1..(i - 1)} \cap idle)
        OBVIOUS
      <3>8. Sound(y, stored) /\ Len(y) = Len(fb)
        BY <1>2, <3>7, FreedStep
      <3>9. x = Compress(y, f, e)
        BY <1>4, <2>2, <3>3, <3>5, <3>7 DEF CompressAt
      <3>10. f \in 1..Len(y) /\ Fits(e, Len(y), f)
        BY <1>2, <3>6, <3>8, OutcomesFit
      <3>11. Sound(x, stored) /\ Others(y, x, f)
        BY <3>8, <3>9, <3>10, CompressStep
      <3> QED  BY <3>8, <3>11 DEF Others
    <2> QED  BY <2>1, <2>2
  <1>6. Sound(fb', stored) /\ Len(fb') = Len(fb)
    BY <1>3, <1>4, <1>5, FreedStep
  <1>7. idle' \subseteq 1..Len(fb) /\ counter' \in 0..RandomCompressPeriod
    BY <1>1, <1>3, FblockFileParameters DEF FblockInv, RestInv, NextCounter
  <1> QED  BY <1>1, <1>6, <1>7, Kept

Reaches(s, f, x) ==
    f \in 1..Len(x) /\ (Len(x) = Len(s) \/ (Len(x) = Len(s) + 1 /\ f = Len(x)))

(* A new fblock is empty, although its file may not be.                     *)
LEMMA ReachSound ==
    ASSUME NEW s, NEW c, Sound(s, c), NEW f \in 1..(Len(s) + 1), NEW file \in LeftOver,
           NEW old, old = IF f > Len(s) THEN Append(c, <<>>) ELSE c,
           NEW x, x = Reach(s, f, file)
    PROVE  Sound(x, old) /\ Reaches(s, f, x)
  <1>1. /\ s \in Seq(Fblock) /\ c \in Seq(Contents) /\ Len(c) = Len(s) /\ Len(s) \in Nat
        /\ \A g \in 1..Len(s) : Amounts(s[g], c[g])
    BY DEF Sound, Files
  <1>2. CASE f > Len(s)
    <2>1. PICK r : r = NewFblock(file)
      OBVIOUS
    <2>2. x = Append(s, r) /\ old = Append(c, <<>>)
      BY <1>2, <2>1 DEF Reach
    <2>3. file \in Seq(FileCell)
      <3>1. Junk \in FileCell
        BY DEF FileCell
      <3>2. FSIZE \in Nat
        BY FblockFileParameters
      <3>3. [i \in 1..FSIZE |-> Junk] \in Seq(FileCell)
        BY <3>1, <3>2
      <3>4. <<>> \in Seq(FileCell)
        OBVIOUS
      <3> QED  BY <3>3, <3>4, Zenon DEF LeftOver
    <2>4. /\ r \in Fblock /\ ~r.fd /\ ~r.is_compressed /\ r.filesize = 0
          /\ r.mapped = NotMapped /\ r.file = file
      BY <2>1, <2>3 DEF NewFblock, Fblock
    <2>5. /\ x \in Seq(Fblock) /\ Len(x) = Len(s) + 1 /\ x[Len(s) + 1] = r
          /\ \A g \in 1..Len(s) : x[g] = s[g]
      BY <1>1, <2>2, <2>4
    <2>6. <<>> \in Contents
      <3>1. <<>> \in Seq(Byte \cup {Junk}) /\ Len(<<>>) = 0
        OBVIOUS
      <3> QED  BY <3>1, FblockFileParameters DEF Contents
    <2>7. /\ old \in Seq(Contents) /\ Len(old) = Len(s) + 1 /\ old[Len(s) + 1] = <<>>
          /\ \A g \in 1..Len(s) : old[g] = c[g]
      BY <1>1, <2>2, <2>6
    <2>8. Amounts(r, <<>>)
      <3>1. SubSeq(file, 1, 0) = <<>>
        BY SubSeqEmpty
      <3>2. 0 <= Len(file)
        BY <2>3
      <3> QED  BY <2>4, <3>1, <3>2 DEF Amounts, OnDisk
    <2>9. OpenFiles(x) = OpenFiles(s)
      <3>1. \A g \in 1..(Len(s) + 1) : g \in 1..Len(s) \/ g = Len(s) + 1
        BY <1>1
      <3>2. DOMAIN x = 1..(Len(s) + 1) /\ DOMAIN s = 1..Len(s)
        BY <1>1, <2>5
      <3> QED  BY <1>1, <2>4, <2>5, <3>1, <3>2 DEF OpenFiles
    <2>10. Files(x)
      BY <2>5, <2>9 DEF Sound, Files
    <2>11. \A g \in 1..Len(x) : Amounts(x[g], old[g])
      <3> TAKE g \in 1..Len(x)
      <3>1. g \in 1..Len(s) \/ g = Len(s) + 1
        BY <1>1, <2>5
      <3> QED  BY <3>1, <1>1, <2>5, <2>7, <2>8
    <2>12. f = Len(x) /\ f \in 1..Len(x)
      BY <1>1, <1>2, <2>5
    <2> QED  BY <2>5, <2>7, <2>10, <2>11, <2>12 DEF Sound, Reaches
  <1>3. CASE ~(f > Len(s))
    <2>1. x = s /\ old = c
      BY <1>3 DEF Reach
    <2>2. f \in 1..Len(s)
      BY <1>1, <1>3
    <2> QED  BY <2>1, <2>2 DEF Reaches
  <1> QED  BY <1>2, <1>3

LEMMA ExecuteAppendStep == ASSUME FblockInv, ExecuteAppend PROVE FblockInv'
  <1>1. /\ pc = "plan" /\ pc' = "index" /\ buffer' = NoBuffer
        /\ UNCHANGED <<counter, done, image, lookup>>
    BY DEF ExecuteAppend
  <1>2. /\ Sound(fb, stored) /\ fb \in Seq(Fblock) /\ Len(fb) \in Nat
        /\ Len(stored) = Len(fb) /\ stored \in Seq(Contents)
    BY <1>1, PlanSound DEF Sound
  <1>3. PICK f \in 1..Plan!Smaller(Len(fb) + 1, MaxFblocks), file \in LeftOver :
       LET old == IF f > Len(fb) THEN Append(stored, <<>>) ELSE stored
       IN  \E base \in 0..Len(old[f]),
              d \in UNION {[1..n -> Byte] : n \in 1..MaxAppend}, e \in Outcomes :
             /\ base + Len(d) <= FSIZE
             /\ Plan!Meets(old[f], base, d)
             /\ fb' = PutAppendedRaw(Reach(fb, f, file), f, base, d, e)
             /\ stored' = [old EXCEPT ![f] = Plan!PutAppendedRaw(@, base, d)]
             /\ idle' = idle \ {f}
    BY DEF ExecuteAppend
  <1>4. PICK old : old = IF f > Len(fb) THEN Append(stored, <<>>) ELSE stored
    OBVIOUS
  <1>5. PICK base \in 0..Len(old[f]),
             d \in UNION {[1..n -> Byte] : n \in 1..MaxAppend}, e \in Outcomes :
             /\ base + Len(d) <= FSIZE
             /\ Plan!Meets(old[f], base, d)
             /\ fb' = PutAppendedRaw(Reach(fb, f, file), f, base, d, e)
             /\ stored' = [old EXCEPT ![f] = Plan!PutAppendedRaw(@, base, d)]
             /\ idle' = idle \ {f}
    BY <1>3, <1>4
  <1>6. f \in 1..(Len(fb) + 1) /\ f <= MaxFblocks
    BY <1>2, FblockFileParameters DEF Plan!Smaller
  <1>7. PICK x : x = Reach(fb, f, file)
    OBVIOUS
  <1>8. /\ Sound(x, old) /\ f \in 1..Len(x)
        /\ Len(x) = Len(fb) \/ (Len(x) = Len(fb) + 1 /\ f = Len(x))
    <2>1. Sound(x, old) /\ Reaches(fb, f, x)
      BY <1>2, <1>4, <1>6, <1>7, ReachSound
    <2> QED  BY <2>1 DEF Reaches
  <1>9. /\ x \in Seq(Fblock) /\ Len(x) \in Nat
        /\ old \in Seq(Contents) /\ Len(old) = Len(x) /\ old[f] \in Contents
    BY <1>8 DEF Sound, Files
  <1>10. Fits(e, Len(x), f)
    BY <1>2, <1>8, <1>9, OutcomesFit
  <1>11. Appendable(old[f], base, d)
    <2>1. d \in Seq(Byte)
      BY FblockFileParameters
    <2> QED  BY <2>1, <1>5 DEF Appendable
  <1>12. fb' = PutAppendedRaw(x, f, base, d, e)
    BY <1>5, <1>7
  <1>13. PICK k : k = Plan!PutAppendedRaw(old[f], base, d)
    OBVIOUS
  <1>14. stored' = [old EXCEPT ![f] = k]
    BY <1>5, <1>13
  <1>15. Sound(fb', stored') /\ Len(fb') = Len(x)
    <2>1. /\ Sound(fb', [old EXCEPT ![f] = Plan!PutAppendedRaw(old[f], base, d)])
          /\ Len(fb') = Len(x)
      BY <1>8, <1>10, <1>11, <1>12, PutAppendedRawStep
    <2> QED  BY <2>1, <1>13, <1>14
  <1>16. k \in Contents
    BY <1>9, <1>11, <1>13, AppendedContents
  <1>17. stored' \in Seq(Contents) /\ Len(stored') = Len(old)
    BY <1>8, <1>9, <1>14, <1>16, ReplaceOne
  <1>18. Len(x) <= MaxFblocks
    <2>1. Len(fb) <= MaxFblocks
      BY <1>2 DEF FblockInv, HistoryInv
    <2> QED  BY <2>1, <1>6, <1>8
  <1>19. done = {} /\ image = <<>>
    BY <1>1 DEF FblockInv, HistoryInv
  <1>20. ContentsInv'
    BY <1>15 DEF ContentsInv
  <1>21. HistoryInv'
    BY <1>1, <1>9, <1>15, <1>17, <1>18, <1>19 DEF HistoryInv
  <1>22. idle' \subseteq 1..Len(fb')
    <2>1. idle \subseteq 1..Len(fb)
      BY DEF FblockInv, RestInv
    <2>2. 1..Len(fb) \subseteq 1..Len(x)
      BY <1>2, <1>8, <1>9
    <2> QED  BY <2>1, <2>2, <1>5, <1>15
  <1>23. RestInv'
    BY <1>1, <1>22 DEF FblockInv, RestInv
  <1>24. BufferInv'
    BY <1>1 DEF BufferInv
  <1>25. ImageInv'
    <2>1. image' = <<>> /\ <<>> \in Seq([ok : BOOLEAN, data : Contents])
      BY <1>1, <1>19
    <2>2. Len(image') = 0 /\ Len(image') <= Len(stored') /\ DOMAIN image' = {}
      BY <2>1, <1>9, <1>17
    <2> QED  BY <2>1, <2>2 DEF ImageInv, ImageFaithfulWithLookup, ImageFaithful
  <1> QED  BY <1>20, <1>21, <1>23, <1>24, <1>25 DEF FblockInv

Marked(s, f, used) == [s EXCEPT ![f].refd = used]

(* AssignRefFrom marks the fblock; nothing else changes.                    *)
LEMMA MarkKeeps ==
    ASSUME NEW s, NEW c, Sound(s, c), NEW f \in 1..Len(s), NEW used \in BOOLEAN,
           NEW t, t = Marked(s, f, used)
    PROVE  /\ Sound(t, c) /\ Len(t) = Len(s) /\ t[f].refd = used
           /\ t[f].file = s[f].file /\ t[f].mapped = s[f].mapped
           /\ t[f].is_compressed = s[f].is_compressed
  <1>1. s \in Seq(Fblock) /\ Files(s) /\ s[f] \in Fblock /\ Amounts(s[f], c[f])
    BY FblockHas DEF Sound, Files
  <1>2. PICK r : r = [s[f] EXCEPT !.refd = used]
    OBVIOUS
  <1>3. /\ r \in Fblock /\ r.refd = used /\ r.fd = s[f].fd /\ r.file = s[f].file
        /\ r.filesize = s[f].filesize /\ r.mapped = s[f].mapped
        /\ r.is_compressed = s[f].is_compressed
    BY <1>1, <1>2 DEF Fblock
  <1>4. t = [s EXCEPT ![f] = r]
    BY <1>2 DEF Marked
  <1>5. /\ t \in Seq(Fblock) /\ Len(t) = Len(s) /\ t[f] = r
        /\ \A g \in 1..Len(s) : g # f => t[g] = s[g]
    BY <1>1, <1>3, <1>4, ReplaceOne
  <1>6. Files(t)
    <2>1. \A g \in 1..Len(s) : t[g].fd = s[g].fd
      BY <1>3, <1>5
    <2> QED  BY <2>1, <1>1, <1>5, FilesSame
  <1>7. Others(s, t, f) /\ Amounts(t[f], c[f])
    BY <1>1, <1>3, <1>5 DEF Others, SameButOpen, Amounts
  <1>8. Sound(t, c)
    BY <1>6, <1>7, SoundKept
  <1> QED  BY <1>3, <1>5, <1>8

LEMMA ReadActionStep == ASSUME FblockInv, Read PROVE FblockInv'
  <1>1. /\ pc \in {"plan", "index"} /\ UNCHANGED <<stored, counter, pc, done, image, lookup>>
    BY DEF Read
  <1>2. /\ Sound(fb, stored) /\ fb \in Seq(Fblock) /\ DOMAIN fb = 1..Len(fb) /\ Len(fb) \in Nat
    BY <1>1, PlanSound
  <1>3. PICK f \in 1..Len(fb), q \in Requests, e \in Outcomes :
       \E r \in {InitDataReadBuffer(fb, f, q[1], q[2], e)} :
          /\ fb' = IF r.ref THEN [r.fb EXCEPT ![f].refd = TRUE] ELSE r.fb
          /\ buffer' = [f |-> f, offset |-> q[1], request |-> q[2],
                        ref |-> r.ref, from |-> r.from, n |-> r.n,
                        data |-> r.data, size |-> r.size]
          /\ idle' = idle \ {f}
    BY <1>2 DEF Read
  <1>4. PICK r : r = InitDataReadBuffer(fb, f, q[1], q[2], e)
    OBVIOUS
  <1>5. /\ fb' = IF r.ref THEN [r.fb EXCEPT ![f].refd = TRUE] ELSE r.fb
        /\ buffer' = [f |-> f, offset |-> q[1], request |-> q[2],
                      ref |-> r.ref, from |-> r.from, n |-> r.n,
                      data |-> r.data, size |-> r.size]
        /\ idle' = idle \ {f}
    BY <1>3, <1>4
  <1>6. PICK offset \in 0..FSIZE : offset = q[1]
    BY FblockFileParameters
  <1>7. PICK size \in 0..(WordSize - 1) : size = q[2]
    BY FblockFileParameters
  <1>8. r = InitDataReadBuffer(fb, f, offset, size, e)
    BY <1>4, <1>6, <1>7
  <1>9. Fits(e, Len(fb), f)
    BY <1>2, OutcomesFit
  <1>10. /\ Sound(r.fb, stored) /\ Others(fb, r.fb, f) /\ r.ref \in BOOLEAN
         /\ r.size = Len(stored[f]) \/ (r.size = Unset /\ ~lookup)
         /\ Shows(r.fb, f, r, offset, size, stored[f])
    BY <1>2, <1>8, <1>9, ReadStep
  <1>11. PICK y : y = r.fb
    OBVIOUS
  <1>12. Sound(y, stored) /\ f \in 1..Len(y) /\ Len(y) = Len(fb)
    BY <1>10, <1>11 DEF Others
  <1>13. /\ Sound(fb', stored) /\ Len(fb') = Len(fb)
         /\ r.ref => fb'[f].refd
         /\ fb'[f].file = y[f].file /\ fb'[f].mapped = y[f].mapped
         /\ fb'[f].is_compressed = y[f].is_compressed
    <2>1. CASE r.ref
      <3>1. fb' = [y EXCEPT ![f].refd = TRUE]
        BY <2>1, <1>5, <1>11
      <3>2. PICK used \in BOOLEAN : used = TRUE
        OBVIOUS
      <3>3. fb' = Marked(y, f, used)
        BY <3>1, <3>2 DEF Marked
      <3>4. /\ Sound(fb', stored) /\ Len(fb') = Len(y) /\ fb'[f].refd = used
            /\ fb'[f].file = y[f].file /\ fb'[f].mapped = y[f].mapped
            /\ fb'[f].is_compressed = y[f].is_compressed
        BY <1>12, <3>3, MarkKeeps
      <3> QED  BY <3>2, <3>4, <1>12
    <2>2. CASE ~r.ref
      BY <2>2, <1>5, <1>11, <1>12
    <2> QED  BY <2>1, <2>2
  <1>14. PICK b : b = buffer'
    OBVIOUS
  <1>15. /\ b.f = f /\ b.offset = offset /\ b.request = size /\ b.ref = r.ref
         /\ b.from = r.from /\ b.n = r.n /\ b.data = r.data /\ b.size = r.size
    BY <1>5, <1>6, <1>7, <1>14
  <1>16. Seen(fb', f, b) = Seen(y, f, r)
    BY <1>13, <1>15 DEF Seen
  <1>17. Shows(fb', f, b, offset, size, stored[f])
    BY <1>10, <1>11, <1>13, <1>15, <1>16 DEF Shows
  <1>18. Serves(b, fb', stored)
    <2>1. f \in 1..Len(fb') /\ (b.ref => fb'[f].refd) /\ b.size \in {Unset, Len(stored[f])}
      BY <1>10, <1>12, <1>13, <1>15
    <2> QED  BY <2>1, <1>15, <1>17 DEF Serves
  <1>19. idle' \subseteq 1..Len(fb) /\ counter' \in 0..RandomCompressPeriod
    BY <1>1, <1>5 DEF FblockInv, RestInv
  <1> QED  BY <1>1, <1>13, <1>14, <1>18, <1>19, Kept

LEMMA ReadAnotherStep == ASSUME FblockInv, ReadAnother PROVE FblockInv'
  <1>1. /\ buffer # NoBuffer /\ UNCHANGED <<stored, counter, buffer, pc, done, image, lookup>>
    BY DEF ReadAnother
  <1>2. pc \in {"plan", "index"} /\ Serves(buffer, fb, stored)
    BY <1>1 DEF FblockInv, BufferInv
  <1>3. /\ Sound(fb, stored) /\ fb \in Seq(Fblock) /\ DOMAIN fb = 1..Len(fb) /\ Len(fb) \in Nat
    BY <1>2, PlanSound
  <1>4. PICK f \in 1..Len(fb), e \in Outcomes :
          fb' = InitDataReadBuffer(fb, f, 0, All, e).fb /\ idle' = idle \ {f}
    BY <1>3 DEF ReadAnother
  <1>5. PICK r : r = InitDataReadBuffer(fb, f, 0, All, e)
    OBVIOUS
  <1>6. 0 \in 0..FSIZE /\ All \in 0..(WordSize - 1)
    BY FblockFileParameters DEF All
  <1>7. Fits(e, Len(fb), f)
    BY <1>3, OutcomesFit
  <1>8. /\ Sound(r.fb, stored) /\ Others(fb, r.fb, f)
        /\ ~fb[f].is_compressed /\ IsMapped(fb, f) => r.fb = fb
    BY <1>3, <1>5, <1>6, <1>7, ReadStep
  <1>9. fb' = r.fb
    BY <1>4, <1>5
  <1>10. Len(fb') = Len(fb)
    BY <1>8, <1>9 DEF Others
  <1>11. Serves(buffer, fb', stored)
    <2>1. CASE buffer.f # f
      <3>1. SameButOpen(fb'[buffer.f], fb[buffer.f])
        BY <2>1, <1>2, <1>8, <1>9 DEF Others, Serves
      <3>2. Seen(fb', buffer.f, buffer) = Seen(fb, buffer.f, buffer)
        BY <3>1 DEF SameButOpen, Seen
      <3> QED  BY <3>1, <3>2, <1>2, <1>10 DEF SameButOpen, Serves, Shows
    <2>2. CASE buffer.f = f /\ buffer.ref
      <3>1. ~fb[f].is_compressed /\ IsMapped(fb, f)
        BY <2>2, <1>2 DEF Serves, Shows, IsMapped
      <3>2. fb' = fb
        BY <3>1, <1>8, <1>9
      <3> QED  BY <3>2, <1>2
    <2>3. CASE ~buffer.ref
      <3>1. Seen(fb', buffer.f, buffer) = Seen(fb, buffer.f, buffer)
        BY <2>3 DEF Seen
      <3> QED  BY <2>3, <3>1, <1>2, <1>10 DEF Serves, Shows
    <2> QED  BY <2>1, <2>2, <2>3
  <1>12. idle' \subseteq 1..Len(fb) /\ counter' \in 0..RandomCompressPeriod
    BY <1>1, <1>4 DEF FblockInv, RestInv
  <1> QED  BY <1>1, <1>2, <1>8, <1>9, <1>10, <1>11, <1>12, Kept

LEMMA ReleaseStep == ASSUME FblockInv, Release PROVE FblockInv'
  <1>1. /\ buffer # NoBuffer /\ buffer' = NoBuffer
        /\ fb' = [fb EXCEPT ![buffer.f].refd = FALSE]
        /\ UNCHANGED <<stored, idle, counter, pc, done, image, lookup>>
    BY DEF Release
  <1>2. pc \in {"plan", "index"} /\ Serves(buffer, fb, stored)
    BY <1>1 DEF FblockInv, BufferInv
  <1>3. PICK f \in 1..Len(fb) : f = buffer.f
    BY <1>2 DEF Serves
  <1>4. PICK used \in BOOLEAN : used = FALSE
    OBVIOUS
  <1>5. fb' = Marked(fb, f, used)
    BY <1>1, <1>3, <1>4 DEF Marked
  <1>6. Sound(fb, stored)
    BY <1>2, PlanSound
  <1>7. Sound(fb', stored) /\ Len(fb') = Len(fb)
    BY <1>5, <1>6, MarkKeeps
  <1>8. idle' \subseteq 1..Len(fb) /\ counter' \in 0..RandomCompressPeriod
    BY <1>1 DEF FblockInv, RestInv
  <1> QED  BY <1>1, <1>2, <1>7, <1>8, Kept

LEMMA BeginWritingStep == ASSUME FblockInv, BeginWriting PROVE FblockInv'
  <1>1. /\ pc = "plan" /\ pc' = "final" /\ buffer' = NoBuffer
        /\ UNCHANGED <<fb, stored, idle, counter, done, image, lookup>>
    BY DEF BeginWriting
  <1>2. ContentsInv' /\ HistoryInv' /\ RestInv'
    BY <1>1 DEF FblockInv, ContentsInv, HistoryInv, RestInv
  <1>3. BufferInv' /\ ImageInv'
    BY <1>1 DEF FblockInv, BufferInv, ImageInv, ImageFaithfulWithLookup, ImageFaithful
  <1> QED  BY <1>2, <1>3 DEF FblockInv

(* The data that FinalCompressFblock compresses: right if its length is.    *)
LEMMA TruncatedContents ==
    ASSUME NEW h \in Contents, NEW n \in 0..FSIZE
    PROVE  Truncated(h, n) \in Contents /\ (n = Len(h) => Truncated(h, n) = h)
  <1>1. h \in Seq(Byte \cup {Junk}) /\ n \in Nat /\ n <= FSIZE
    BY FblockFileParameters DEF Contents
  <1> DEFINE cell(i) == IF i \in DOMAIN h THEN h[i] ELSE Junk
  <1>2. Truncated(h, n) = [i \in 1..n |-> cell(i)]
    BY DEF Truncated
  <1>3. \A i \in 1..n : cell(i) \in Byte \cup {Junk}
    BY <1>1
  <1>4. n = Len(h) => \A i \in 1..n : cell(i) = h[i]
    BY <1>1
  <1> HIDE DEF cell
  <1>5. Truncated(h, n) \in Seq(Byte \cup {Junk}) /\ Len(Truncated(h, n)) = n
    BY <1>1, <1>2, <1>3
  <1>6. n = Len(h) => \A i \in 1..Len(h) : Truncated(h, n)[i] = h[i]
    BY <1>1, <1>2, <1>4
  <1>7. n = Len(h) => Truncated(h, n) = h
    BY <1>1, <1>5, <1>6, SameSequence
  <1> QED  BY <1>1, <1>5, <1>7 DEF Contents

LEMMA FinalCompressStep == ASSUME FblockInv, FinalCompressFblock PROVE FblockInv'
  <1>1. pc = "final" /\ UNCHANGED <<stored, counter, buffer, pc, image, lookup>>
    BY DEF FinalCompressFblock
  <1>2. PICK c : /\ Sound(fb, c)
                 /\ \A f \in 1..Len(fb) : lookup \/ f \notin done => c[f] = stored[f]
    BY SomeSound
  <1>3. fb \in Seq(Fblock) /\ DOMAIN fb = 1..Len(fb) /\ Len(fb) \in Nat
    BY SomeSound
  <1>4. PICK f \in (1..Len(fb)) \ done, e \in Outcomes :
       \E r \in {InitDataReadBuffer(fb, f, 0, All, e)} :
       \E fblock_rawlength \in IF r.size = Unset THEN 0..FSIZE ELSE {r.size} :
          /\ fb' = PutCompressed(r.fb, f,
                      LZMACompress(Truncated(Seen(r.fb, f, r), fblock_rawlength)), e)
          /\ idle' = idle \ {f}
          /\ done' = done \cup {f}
    BY <1>3 DEF FinalCompressFblock
  <1>5. PICK r : r = InitDataReadBuffer(fb, f, 0, All, e)
    OBVIOUS
  <1>6. PICK n \in IF r.size = Unset THEN 0..FSIZE ELSE {r.size} :
          /\ fb' = PutCompressed(r.fb, f, LZMACompress(Truncated(Seen(r.fb, f, r), n)), e)
          /\ idle' = idle \ {f} /\ done' = done \cup {f}
    BY <1>4, <1>5
  <1>7. 0 \in 0..FSIZE /\ All \in 0..(WordSize - 1)
    BY FblockFileParameters DEF All
  <1>8. f \in 1..Len(fb) /\ f \notin done /\ Fits(e, Len(fb), f)
    BY <1>3, OutcomesFit
  <1>9. /\ Sound(r.fb, c) /\ Others(fb, r.fb, f)
        /\ r.size = Len(c[f]) \/ (r.size = Unset /\ ~lookup)
        /\ Shows(r.fb, f, r, 0, All, c[f])
    BY <1>2, <1>5, <1>7, <1>8, ReadStep
  <1>10. PICK h : h = c[f]
    OBVIOUS
  <1>11. h \in Contents /\ h \in Seq(FileCell) /\ Len(h) \in 0..FSIZE /\ h = stored[f]
    BY <1>2, <1>8, <1>10, FblockHas, ContentsCells
  <1>12. Seen(r.fb, f, r) = h
    <2>1. Seen(r.fb, f, r) = SubSeq(h, 0 + 1, Plan!Smaller(0 + All, Len(h)))
      BY <1>9, <1>10 DEF Shows
    <2>2. 0 + 1 = 1 /\ Plan!Smaller(0 + All, Len(h)) = Len(h)
      BY <1>11, FblockFileParameters DEF All, Plan!Smaller
    <2>3. SubSeq(h, 1, Len(h)) = h
      BY <1>11, PrefixIs
    <2> QED  BY <2>1, <2>2, <2>3
  <1>13. n \in 0..FSIZE /\ (lookup => n = Len(h))
    BY <1>9, <1>10, <1>11 DEF Unset
  <1>14. PICK d : d = Truncated(h, n)
    OBVIOUS
  <1>15. d \in Contents /\ (lookup => d = h)
    BY <1>11, <1>13, <1>14, TruncatedContents
  <1>16. PICK x : x = r.fb
    OBVIOUS
  <1>17. fb' = PutCompressed(x, f, LZMACompress(d), e)
    BY <1>6, <1>12, <1>14, <1>16
  <1>18. Sound(x, c) /\ Others(fb, x, f) /\ f \in 1..Len(x) /\ Fits(e, Len(x), f)
    BY <1>8, <1>9, <1>16 DEF Others
  <1>19. Sound(fb', [c EXCEPT ![f] = d]) /\ Others(x, fb', f)
    BY <1>15, <1>17, <1>18, PutCompressedStep
  <1>20. Len(fb') = Len(fb)
    BY <1>18, <1>19 DEF Others
  <1>21. ContentsInv'
    <2>1. PICK k : k = [c EXCEPT ![f] = d]
      OBVIOUS
    <2>2. c \in Seq(Contents) /\ Len(c) = Len(fb)
      BY <1>2 DEF Sound
    <2>3. k[f] = d /\ \A g \in 1..Len(c) : g # f => k[g] = c[g]
      BY <1>8, <1>15, <2>1, <2>2, ReplaceOne
    <2>4. \A g \in 1..Len(fb') : lookup' \/ g \notin done' => k[g] = stored'[g]
      <3> TAKE g \in 1..Len(fb')
      <3> HAVE lookup' \/ g \notin done'
      <3>1. CASE g = f
        <4>1. lookup
          BY <3>1, <1>1, <1>6
        <4> QED  BY <3>1, <4>1, <2>3, <1>1, <1>11, <1>15
      <3>2. CASE g # f
        <4>1. lookup \/ g \notin done
          BY <3>2, <1>1, <1>6
        <4>2. k[g] = c[g] /\ c[g] = stored[g]
          BY <3>2, <4>1, <2>2, <2>3, <1>2, <1>20
        <4> QED  BY <4>2, <1>1
      <3> QED  BY <3>1, <3>2
    <2> QED  BY <2>1, <2>4, <1>19 DEF ContentsInv
  <1>22. HistoryInv'
    <2>1. Len(stored) = Len(fb) /\ done \subseteq 1..Len(stored)
      BY <1>1 DEF FblockInv, HistoryInv
    <2>2. done' \subseteq 1..Len(stored)
      BY <2>1, <1>6, <1>8
    <2> QED  BY <2>1, <2>2, <1>1, <1>20 DEF FblockInv, HistoryInv
  <1>23. RestInv'
    BY <1>1, <1>6, <1>20 DEF FblockInv, RestInv
  <1>24. BufferInv'
    BY <1>1 DEF FblockInv, BufferInv
  <1>25. ImageInv'
    BY <1>1 DEF FblockInv, ImageInv, ImageFaithfulWithLookup, ImageFaithful
  <1> QED  BY <1>21, <1>22, <1>23, <1>24, <1>25 DEF FblockInv

LEMMA WriteFblockStep == ASSUME FblockInv, WriteFblock PROVE FblockInv'
  <1>1. pc = "final" /\ UNCHANGED <<stored, idle, counter, buffer, pc, done, lookup>>
    BY DEF WriteFblock
  <1>2. PICK c : /\ Sound(fb, c)
                 /\ \A f \in 1..Len(fb) : lookup \/ f \notin done => c[f] = stored[f]
    BY SomeSound
  <1>3. fb \in Seq(Fblock) /\ DOMAIN fb = 1..Len(fb) /\ Len(fb) \in Nat
    BY SomeSound
  <1>4. PICK f : f = Len(image) + 1
    OBVIOUS
  <1>5. f \in 1..Len(fb)
    BY <1>3, <1>4 DEF WriteFblock
  <1>6. PICK e \in Outcomes, again \in BOOLEAN :
          \E r \in {InitCompressedDataReadBuffer(fb, f, again, e)} :
            /\ fb' = r.fb
            /\ image' = Append(image, [ok |-> r.ok, data |-> LZMADeCompress(Stored(r.fb, f))])
    BY <1>4 DEF WriteFblock
  <1>7. PICK x : x = Compress(fb, f, e)
    OBVIOUS
  <1>8. Fits(e, Len(fb), f)
    BY <1>3, OutcomesFit
  <1>9. Sound(x, c) /\ Others(fb, x, f) /\ x[f].is_compressed
    BY <1>2, <1>5, <1>7, <1>8, CompressStep
  <1>10. f \in 1..Len(x) /\ Fits(e, Len(x), f)
    BY <1>5, <1>8, <1>9 DEF Others
  <1>11. PICK m : m = MapAsIs(x, f, again, e)
    OBVIOUS
  <1>12. Sound(m, c) /\ Others(x, m, f) /\ m[f].is_compressed = x[f].is_compressed
    BY <1>9, <1>10, <1>11, MapAsIsStep
  <1>13. f \in 1..Len(m) /\ Len(m) = Len(fb)
    BY <1>5, <1>9, <1>12 DEF Others
  <1>14. Stored(m, f) = LZMACompress(c[f]) /\ c[f] \in Contents
    BY <1>9, <1>12, <1>13, FblockHas DEF OnDisk
  <1>15. LZMADeCompress(Stored(m, f)) = c[f]
    BY <1>14, Codec
  <1>16. PICK ok \in BOOLEAN : ok = (IsMapped(m, f) \/ ~fb[f].is_compressed)
    BY DEF IsMapped
  <1>17. InitCompressedDataReadBuffer(fb, f, again, e) = [fb |-> m, ok |-> ok]
    BY <1>7, <1>11, <1>16 DEF InitCompressedDataReadBuffer
  <1>18. fb' = m /\ image' = Append(image, [ok |-> ok, data |-> c[f]])
    BY <1>6, <1>15, <1>17
  <1>19. ContentsInv'
    BY <1>1, <1>2, <1>12, <1>13, <1>18 DEF ContentsInv
  <1>20. HistoryInv'
    BY <1>1, <1>13, <1>18 DEF FblockInv, HistoryInv
  <1>21. RestInv'
    BY <1>1, <1>13, <1>18 DEF FblockInv, RestInv
  <1>22. BufferInv'
    BY <1>1 DEF FblockInv, BufferInv
  <1>23. ImageInv'
    <2>1. PICK r : r = [ok |-> ok, data |-> c[f]]
      OBVIOUS
    <2>2. r \in [ok : BOOLEAN, data : Contents] /\ r.data = c[f]
      BY <2>1, <1>14
    <2>3. image \in Seq([ok : BOOLEAN, data : Contents]) /\ image' = Append(image, r)
      BY <2>1, <1>18 DEF FblockInv, ImageInv
    <2>4. PICK R : R = [ok : BOOLEAN, data : Contents]
      OBVIOUS
    <2>5. image' \in Seq(R) /\ Len(image') = f /\ image'[f] = r
          /\ \A g \in 1..Len(image) : image'[g] = image[g]
      BY <2>2, <2>3, <2>4, <1>4
    <2>6. Len(image') <= Len(stored')
      <3>1. Len(stored) = Len(fb)
        BY <1>1 DEF FblockInv, HistoryInv
      <3> QED  BY <3>1, <2>5, <1>1, <1>5, <1>3
    <2>7. lookup => \A g \in 1..Len(image') : image'[g].ok => image'[g].data = stored[g]
      <3>1. SUFFICES ASSUME lookup, NEW g \in 1..Len(image'), image'[g].ok
                     PROVE  image'[g].data = stored[g]
        OBVIOUS
      <3>2. CASE g = f
        BY <3>1, <3>2, <2>2, <2>5, <1>2, <1>5
      <3>3. CASE g # f
        <4>1. g \in 1..Len(image)
          BY <3>1, <3>3, <2>3, <2>5, <1>4
        <4>2. DOMAIN image = 1..Len(image)
          BY <2>3
        <4> QED  BY <3>1, <4>1, <4>2, <2>5
                 DEF FblockInv, ImageInv, ImageFaithfulWithLookup, ImageFaithful
      <3> QED  BY <3>2, <3>3
    <2>8. DOMAIN image' = 1..Len(image')
      BY <2>5
    <2> QED  BY <2>4, <2>5, <2>6, <2>7, <2>8, <1>1
             DEF ImageInv, ImageFaithfulWithLookup, ImageFaithful
  <1> QED  BY <1>19, <1>20, <1>21, <1>22, <1>23 DEF FblockInv

LEMMA DeleteAllStep == ASSUME FblockInv, DeleteAll PROVE FblockInv'
  <1>1. /\ pc = "final" /\ pc' = "end" /\ fb' = <<>> /\ idle' = {}
        /\ UNCHANGED <<stored, counter, buffer, done, image, lookup>>
    BY DEF DeleteAll
  <1>2. Sound(fb', <<>>)
    BY <1>1, EmptySound
  <1>3. ContentsInv'
    BY <1>1, <1>2 DEF ContentsInv
  <1>4. HistoryInv' /\ RestInv' /\ BufferInv'
    BY <1>1 DEF FblockInv, HistoryInv, RestInv, BufferInv
  <1>5. ImageInv'
    BY <1>1 DEF FblockInv, ImageInv, ImageFaithfulWithLookup, ImageFaithful
  <1> QED  BY <1>3, <1>4, <1>5 DEF FblockInv

-----------------------------------------------------------------------------
(* The theorems.                                                            *)

(* FblockInv is an invariant: whatever member functions of mkcromfs_fblock  *)
(* follow one another, a file has contents, and those of the history unless *)
(* FinalCompressFblock has had no length to go by.                          *)
THEOREM FblockInvariance == Spec => []FblockInv
  <1>1. Init => FblockInv
    BY InitialInv
  <1>2. FblockInv /\ [Next]_vars => FblockInv'
    <2> SUFFICES ASSUME FblockInv, [Next]_vars PROVE FblockInv'
      OBVIOUS
    <2>1. CASE UNCHANGED vars
      BY <2>1 DEF vars, FblockInv, ContentsInv, HistoryInv, RestInv, BufferInv, ImageInv,
                  ImageFaithfulWithLookup, ImageFaithful
    <2>2. CASE Next
      BY <2>2, TimePassesStep, ExecuteAppendStep, FreeSomeResourcesStep, MapCandidateStep,
         AskSizeStep, ReadActionStep, ReadAnotherStep, ReleaseStep, BeginWritingStep,
         FinalCompressStep, WriteFblockStep, DeleteAllStep DEF Next
    <2> QED  BY <2>1, <2>2
  <1> QED  BY <1>1, <1>2, PTL DEF Spec

(* At no time are more files open than there may be, and sizes, mappings    *)
(* and the counter of FreeSomeResources stay in their ranges.               *)
THEOREM FilesTyped == Spec => []TypeOK
  <1>1. FblockInv => TypeOK
    <2> SUFFICES ASSUME FblockInv PROVE TypeOK
      OBVIOUS
    <2>1. PICK c : Sound(fb, c)
      BY SomeSound
    <2>2. fb \in Seq(Fblock) /\ Cardinality(OpenFiles(fb)) <= MaxOpen
      BY <2>1 DEF Sound, Files
    <2>3. DOMAIN fb = 1..Len(fb) /\ \A f \in 1..Len(fb) : fb[f] \in Fblock
      BY <2>2
    <2>4. \A f \in DOMAIN fb :
            /\ fb[f].filesize \in Nat /\ fb[f].mapped \in Nat \cup {NotMapped}
            /\ fb[f].fd \in BOOLEAN /\ fb[f].is_compressed \in BOOLEAN
      BY <2>3 DEF Fblock
    <2>5. Len(fb) \in 0..MaxFblocks /\ Len(image) <= MaxFblocks
      <3>1. /\ stored \in Seq(Contents) /\ Len(stored) <= MaxFblocks
            /\ Len(image) <= Len(stored)
            /\ image \in Seq([ok : BOOLEAN, data : Contents])
        BY DEF FblockInv, HistoryInv, ImageInv
      <3>2. Len(stored) \in Nat /\ Len(image) \in Nat
        BY <3>1
      <3>3. Len(fb) = 0 \/ Len(fb) = Len(stored)
        BY DEF FblockInv, HistoryInv
      <3> QED  BY <3>1, <3>2, <3>3, FblockFileParameters
    <2>6. /\ idle \subseteq DOMAIN fb /\ counter \in 0..RandomCompressPeriod
          /\ pc \in {"plan", "index", "final", "end"}
      BY <2>3 DEF FblockInv, RestInv
    <2> QED  BY <2>2, <2>4, <2>5, <2>6 DEF TypeOK
  <1> QED  BY <1>1, FblockInvariance, PTL

(* However put_appended_raw, lookups, FreeSomeResources and the shortage of *)
(* descriptors or of address space follow one another, the file of a fblock *)
(* amounts to the bytes that were put into it.                              *)
THEOREM ContentsStay == Spec => []ContentsKept
  <1>1. FblockInv => ContentsKept
    <2> SUFFICES ASSUME FblockInv, pc \in {"plan", "index"} \/ lookup,
                        NEW f \in DOMAIN fb
                 PROVE  Raw(fb, f) = stored[f]
      BY DEF ContentsKept
    <2>1. PICK c : /\ Sound(fb, c)
                   /\ \A g \in 1..Len(fb) : lookup \/ g \notin done => c[g] = stored[g]
      BY SomeSound
    <2>2. f \in 1..Len(fb)
      BY SomeSound
    <2>3. lookup \/ f \notin done
      BY DEF FblockInv, HistoryInv
    <2>4. Raw(fb, f) = c[f]
      BY <2>1, <2>2, FblockHas
    <2> QED  BY <2>1, <2>2, <2>3, <2>4
  <1> QED  BY <1>1, FblockInvariance, PTL

(* A mapping always covers its file, and the buffer of InitDataReadBuffer   *)
(* shows what was asked for as long as it is used, whatever fblocks other   *)
(* readers map or decompress meanwhile.                                     *)
THEOREM ReadersSafe == Spec => []BuffersValid
  <1>1. FblockInv => MappingCovers
    <2> SUFFICES ASSUME FblockInv, NEW f \in DOMAIN fb, IsMapped(fb, f)
                 PROVE  /\ fb[f].mapped = fb[f].filesize
                        /\ fb[f].filesize <= Len(fb[f].file)
      BY DEF MappingCovers
    <2>1. PICK c : Sound(fb, c)
      BY SomeSound
    <2>2. f \in 1..Len(fb)
      BY SomeSound
    <2> QED  BY <2>1, <2>2, FblockHas DEF Amounts, IsMapped
  <1>2. FblockInv => BufferFaithful
    <2> SUFFICES ASSUME FblockInv, buffer # NoBuffer
                 PROVE  /\ Wanted(buffer.f, buffer.offset, buffer.request) =
                             Seen(fb, buffer.f, buffer)
                        /\ buffer.ref => fb[buffer.f].refd
                        /\ buffer.size \in {Unset, Len(stored[buffer.f])}
      BY DEF BufferFaithful
    <2>1. Serves(buffer, fb, stored)
      BY DEF FblockInv, BufferInv
    <2> QED  BY <2>1 DEF Serves, Shows, Wanted
  <1>3. FblockInv => BuffersValid
    BY <1>1, <1>2 DEF BuffersValid
  <1> QED  BY <1>3, FblockInvariance, PTL

(* With --decompresslookups every fblock that CreateAndWriteFs writes has   *)
(* the bytes that were put into it.                                         *)
THEOREM ImageRight == Spec => []ImageFaithfulWithLookup
  <1>1. FblockInv => ImageFaithfulWithLookup
    BY DEF FblockInv, ImageInv
  <1> QED  BY <1>1, FblockInvariance, PTL

=============================================================================
