----------------------------- MODULE HashIndex ------------------------------
(***************************************************************************)
(* The index in which FlushBlockifyRequests looks for identical blocks: a  *)
(* block_index_stack of layers, each a map from hashes to block numbers    *)
(* that keeps one block of a hash, so that the blocks with one hash are    *)
(* in successive layers.                                                   *)
(*                                                                         *)
(* A layer is a CompressedHashLayer_Sparse: stripes of buckets, where the  *)
(* buckets are compressed except for one of each stripe.  The other layer  *)
(* types of the source (TrivialHashLayer, GoogleSparseMap, CacheFile) have *)
(* the same interface and are other values of "kind".  What is compressed  *)
(* here is what was put in: lzo is not modelled.                           *)
(***************************************************************************)
EXTENDS Ranges

CONSTANTS
    Kinds,       \* the layer types: lzo_sparse, trivial, google, file_large, file_small
    Hashes,      \* newhash_t values that occur
    Granu,       \* n_per_bucket
    HashMax,     \* the largest newhash_t
    MaxStripes,  \* MAX_LZO_STRIPES
    PerFile,     \* records in a file of 2^31 bytes
    MaxBlocks    \* bound on the blocks of a run

ASSUME HashIndexAssumption ==
    /\ Hashes \subseteq 0 .. HashMax /\ Granu \in Nat \ {0} /\ MaxStripes \in Nat \ {0, 1}
    /\ PerFile \in Nat \ {0}

VARIABLES
    kind,        \* the type of the layers
    speedup,     \* the method is All_Speedup, not All
    hash_seen,
    blockhashlist, blockhashlist_firsttime,
    blocks_done,
    had          \* for each hash, the blocks that were to be indexed, in order

indexVars == <<kind, speedup, hash_seen, blockhashlist, blockhashlist_firsttime, blocks_done, had>>

-----------------------------------------------------------------------------
(* CompressedHashLayer: n buckets of Granu values.                           *)

NewArray(length) ==
    LET n == (length + Granu - 1) \div Granu
    IN  [n |-> n, hashbits |-> <<>>, buckets |-> [b \in 0 .. n - 1 |-> <<>>],
         dirtybucket |-> <<>>, dirtybucketno |-> n, dirtystate |-> "none"]

GetLength(a) == a.n * Granu

flushdirty(a) ==
    IF a.dirtystate # "rw" THEN a
    ELSE [a EXCEPT !.buckets[a.dirtybucketno] = a.dirtybucket, !.dirtystate = "ro"]

\* Mutant: the bucket that is replaced is not compressed first.
LoadOver(a, b) ==
    IF a.dirtystate # "none" /\ a.dirtybucketno = b THEN a
    ELSE [a EXCEPT !.dirtybucket = a.buckets[b], !.dirtybucketno = b, !.dirtystate = "ro"]

load(a, b) ==
    IF a.dirtystate # "none" /\ a.dirtybucketno = b THEN a
    ELSE LET f == flushdirty(a)
         IN  [f EXCEPT !.dirtybucket = f.buckets[b], !.dirtybucketno = b, !.dirtystate = "ro"]

\* In the width of newhash_t.
After(i) == (i + 1) % (HashMax + 1)

Bucket(i) == i \div Granu

\* Mutant: one slot too far.
SlotAfter(i) == (i % Granu) + 2

Slot(i) == (i % Granu) + 1

\* extract leaves the bucket loaded.
ArrayValue(a, i) ==
    LET d == load(a, Bucket(i)).dirtybucket
    IN  IF Slot(i) <= Len(d) THEN d[Slot(i)] ELSE 0

set_no_update_hashbits(a, i, v) ==
    LET l == load(a, Bucket(i))
        d == l.dirtybucket
    IN  [l EXCEPT !.dirtystate = "rw",
                  !.dirtybucket = [s \in 1 .. Max({Len(d), Slot(i)}) |->
                                     IF s = Slot(i) THEN v ELSE IF s <= Len(d) THEN d[s] ELSE 0]]

ArraySet(a, i, v) ==
    LET l == set_no_update_hashbits(a, i, v)
    IN  [l EXCEPT !.hashbits = RangeSet(@, i, After(i))]

\* The values before slot s, without the zeros at their end.
Shrunk(d, s) ==
    SubSeq(d, 1, Max({0} \cup {t \in 1 .. Min({s - 1, Len(d)}) : d[t] # 0}))

\* The last value of a bucket takes the zeros before it along.
ArrayUnset(a, i) ==
    LET l == load(a, Bucket(i))
        d == l.dirtybucket
        s == Slot(i)
    IN  [l EXCEPT !.hashbits = RangeErase(@, i, After(i)),
                  !.dirtybucket = IF s >= Len(d) THEN Shrunk(d, s) ELSE [d EXCEPT ![s] = 0],
                  !.dirtystate = IF s >= Len(d) /\ Shrunk(d, s) = d THEN @ ELSE "rw"]

Resize(a, length) ==
    LET n == NewArray(length).n
    IN  IF n <= a.n THEN a
        ELSE [a EXCEPT !.n = n, !.buckets = @ @@ [b \in a.n .. n - 1 |-> <<>>]]

Merge(a, b, offset) ==
    LET r == Resize(a, offset + GetLength(b))
        copy(acc, p) == set_no_update_hashbits(acc, p + offset, ArrayValue(b, p))
        copied == FoldLeft(LAMBDA acc, x : FoldLeft(copy, acc, [k \in 1 .. x[2] - x[1] |-> x[1] + k - 1]),
                           r, RangeList(b.hashbits))
    IN  [copied EXCEPT !.hashbits = FoldLeft(LAMBDA d, x : RangeSet(d, x[1] + offset, x[2] + offset),
                                             @, RangeList(b.hashbits))]

-----------------------------------------------------------------------------
(* CompressedHashLayer_Sparse: the begins of the stripes to the stripes.     *)

End(data, b) == b + GetLength(data[b])

\* The begin of the stripe that has the hash, if there is one.
StripeOf(data, i) == {b \in DOMAIN data : b <= i /\ i < End(data, b)}

Prev(data, i) == {b \in DOMAIN data : b < i /\ \A c \in DOMAIN data : c < i => c <= b}
Following(data, i) == {b \in DOMAIN data : b > i /\ \A c \in DOMAIN data : c > i => b <= c}

NewBegin(i) == Granu * (i \div Granu)

\* Mutant: a stripe that is next to the new one, or near it, stays apart.
NearNever(distance) == FALSE

Near(distance) == distance <= 3 * Granu

MergePrev(data, i) == {b \in Prev(data, i) : Near(NewBegin(i) - End(data, b))}
MergeNext(data, i) == {b \in Following(data, i) : Near(b - (NewBegin(i) + Granu))}

\* The stripe at c becomes part of the one at b.
Joined(data, b, c) ==
    [d \in DOMAIN data \ {c} |-> IF d = b THEN Merge(data[b], data[c], c - b) ELSE data[d]]

\* The stripe that together with the next one is shortest takes it in.
MergeShortest(data) ==
    LET span(b) == LET c == CHOOSE c \in Following(data, b) : TRUE IN End(data, c) - b
        firsts  == {b \in DOMAIN data : Following(data, b) # {}}
        b       == CHOOSE b \in firsts : \A c \in firsts : span(b) < span(c) \/ (span(b) = span(c) /\ b <= c)
    IN  Joined(data, b, CHOOSE c \in Following(data, b) : TRUE)

\* A stripe has the hash, or a near stripe grows, or there is a new one.
Put(data, i, v) ==
    LET at == StripeOf(data, i)
        mp == MergePrev(data, i)
        mn == MergeNext(data, i)
        nb == NewBegin(i)
    IN  IF at # {} THEN LET b == CHOOSE b \in at : TRUE
                        IN  [data EXCEPT ![b] = ArraySet(@, i - b, v)]
        ELSE IF mp # {}
        THEN LET b == CHOOSE b \in mp : TRUE
                 grown == IF mn # {} THEN Joined(data, b, CHOOSE c \in mn : TRUE)
                          ELSE [data EXCEPT ![b] = Resize(@, nb + Granu - b)]
             IN  [grown EXCEPT ![b] = ArraySet(@, i - b, v)]
        ELSE LET new == data @@ (nb :> ArraySet(NewArray(Granu), i - nb, v))
             IN  IF mn = {} THEN new ELSE Joined(new, nb, CHOOSE c \in mn : TRUE)

\* With all the stripes that there may be, two are joined first.
SparseSet(data, i, v) ==
    IF /\ StripeOf(data, i) = {} /\ MergePrev(data, i) = {} /\ MergeNext(data, i) = {}
       /\ Cardinality(DOMAIN data) >= MaxStripes
    THEN Put(MergeShortest(data), i, v)
    ELSE Put(data, i, v)

SparseHas(data, i) == \E b \in StripeOf(data, i) : RangeFind(data[b].hashbits, i - b)

SparseUnset(data, i) ==
    [b \in DOMAIN data |-> IF b \in StripeOf(data, i) THEN ArrayUnset(data[b], i - b) ELSE data[b]]

SparseExtracted(data, i) ==
    [b \in DOMAIN data |-> IF b \in StripeOf(data, i) THEN load(data[b], Bucket(i - b)) ELSE data[b]]

-----------------------------------------------------------------------------
(* CacheFile: sparse files of records; a record of zeros is none.            *)

GetPos(i) == IF kind = "file_large" THEN <<0, i>> ELSE <<i \div PerFile, i % PerFile>>

FileRead(f, i) == IF GetPos(i) \in DOMAIN f THEN f[GetPos(i)] ELSE 0

-----------------------------------------------------------------------------
(* The interface of the layers.                                              *)

layer == <<>>

\* TrivialHashLayer inserts: what is there stays.
LaySet(l, i, v) ==
    CASE kind = "lzo_sparse" -> SparseSet(l, i, v)
      [] kind = "trivial"    -> l @@ (i :> v)
      [] kind = "google"     -> (i :> v) @@ l
      [] OTHER               -> (GetPos(i) :> v) @@ l

LayUnset(l, i) ==
    CASE kind = "lzo_sparse"            -> SparseUnset(l, i)
      [] kind \in {"trivial", "google"} -> [j \in DOMAIN l \ {i} |-> l[j]]
      [] OTHER                          -> (GetPos(i) :> 0) @@ l

LayHas(l, i) ==
    CASE kind = "lzo_sparse"            -> SparseHas(l, i)
      [] kind \in {"trivial", "google"} -> i \in DOMAIN l
      [] OTHER                          -> FileRead(l, i) # 0

LayValue(l, i) ==
    CASE kind = "lzo_sparse"            -> LET b == CHOOSE b \in StripeOf(l, i) : TRUE
                                           IN  ArrayValue(l[b], i - b)
      [] kind \in {"trivial", "google"} -> l[i]
      [] OTHER                          -> FileRead(l, i)

Extracted(l, i) == IF kind = "lzo_sparse" THEN SparseExtracted(l, i) ELSE l

-----------------------------------------------------------------------------
(* block_index_stack.                                                        *)

\* The layers that have the hash before one that has not.
Depth(layers, i) ==
    Max({0} \cup {n \in DOMAIN layers : \A m \in 1 .. n : LayHas(layers[m], i)})

\* What Find gives for 0, 1, 2 and so on until it fails.
FindAll(layers, i) == [n \in 1 .. Depth(layers, i) |-> LayValue(layers[n], i)]

\* The layers after the blocks were read.
Searched(layers, i) ==
    [n \in DOMAIN layers |-> IF n <= Depth(layers, i) THEN Extracted(layers[n], i) ELSE layers[n]]

Add(layers, i, v) ==
    LET d == Depth(layers, i)
    IN  IF d = Len(layers) THEN Append(layers, LaySet(layer, i, v))
        ELSE [layers EXCEPT ![d + 1] = LaySet(@, i, v)]

Del(layers, i, v) ==
    LET ns == {n \in 1 .. Depth(layers, i) : LayValue(layers[n], i) = v}
    IN  IF ns = {} THEN layers ELSE [layers EXCEPT ![Min(ns)] = LayUnset(@, i)]

-----------------------------------------------------------------------------
(* The search for identical blocks, as far as the index goes.                *)

IndexIdle ==
    /\ kind = "none" /\ speedup = FALSE /\ hash_seen = {} /\ had = [h \in Hashes |-> <<>>]
    /\ blockhashlist = <<>> /\ blockhashlist_firsttime = <<>> /\ blocks_done = MaxBlocks

IndexInit ==
    /\ kind \in Kinds /\ speedup \in BOOLEAN
    /\ hash_seen = {}
    /\ blockhashlist = <<>> /\ blockhashlist_firsttime = <<>>
    /\ blocks_done = IF kind \in {"file_large", "file_small"} THEN 1 ELSE 0
    /\ had = [h \in Hashes |-> <<>>]

Count(h) ==
    /\ blocks_done < MaxBlocks
    /\ blocks_done' = blocks_done + 1
    /\ UNCHANGED <<kind, speedup>>

\* A hash that was not seen before: no search, and the block goes into the
\* list of those that might never be needed.
FirstTime(h) ==
    /\ Count(h) /\ speedup /\ h \notin hash_seen
    /\ hash_seen' = hash_seen \cup {h}
    /\ blockhashlist_firsttime' = Add(blockhashlist_firsttime, h, blocks_done)
    /\ had' = [had EXCEPT ![h] = Append(@, blocks_done)]
    /\ UNCHANGED blockhashlist

\* The first block with the hash moves to the list that is searched.
Moves(h) ==
    /\ speedup /\ FindAll(blockhashlist, h) = <<>>
    /\ FindAll(blockhashlist_firsttime, h) # <<>>

MovedTo(h) ==
    IF Moves(h) THEN Add(blockhashlist, h, FindAll(blockhashlist_firsttime, h)[1]) ELSE blockhashlist

MovedFrom(h) ==
    IF Moves(h)
    THEN Del(blockhashlist_firsttime, h, FindAll(blockhashlist_firsttime, h)[1])
    ELSE blockhashlist_firsttime

\* The list is searched; a block that equals none of the found is added.
Search(h) ==
    /\ Count(h) /\ (speedup => h \in hash_seen)
    /\ blockhashlist_firsttime' = MovedFrom(h)
    /\ \E list \in {Searched(MovedTo(h), h)}, identical \in BOOLEAN :
          \/ /\ identical /\ FindAll(list, h) # <<>>
             /\ blockhashlist' = list /\ UNCHANGED had
          \/ /\ ~identical
             /\ blockhashlist' = Add(list, h, blocks_done)
             /\ had' = [had EXCEPT ![h] = Append(@, blocks_done)]
    /\ UNCHANGED hash_seen

IndexDone == blocks_done = MaxBlocks /\ UNCHANGED indexVars

IndexNext == (\E h \in Hashes : FirstTime(h) \/ Search(h)) \/ IndexDone

-----------------------------------------------------------------------------
(* Properties.                                                               *)

Stacks == {blockhashlist, blockhashlist_firsttime}

ArrayOK(a) ==
    /\ DOMAIN a.hashbits \subseteq 0 .. GetLength(a)
    /\ DOMAIN a.buckets = 0 .. a.n - 1
    /\ \A b \in DOMAIN a.buckets : Len(a.buckets[b]) <= Granu
    /\ a.dirtystate # "none" => a.dirtybucketno \in DOMAIN a.buckets /\ Len(a.dirtybucket) <= Granu

\* The type of the index: layers, stripes and buckets stay within the sizes that
\* the layer classes were built with.
IndexOK ==
    /\ hash_seen \subseteq Hashes
    /\ kind = "lzo_sparse" =>
          \A s \in Stacks : \A n \in DOMAIN s : \A b \in DOMAIN s[n] : ArrayOK(s[n][b])

\* A block that was entered under a hash is found again under it, in the order
\* of the blocks and with no other block between, whatever stripes were grown,
\* merged and compressed in the meantime and in which of the two lists it is:
\* a block that is not found is stored a second time.
CandidatesComplete ==
    \A h \in Hashes :
       FindAll(IF speedup /\ FindAll(blockhashlist, h) = <<>>
               THEN blockhashlist_firsttime ELSE blockhashlist, h) = had[h]

\* The stripes of a layer do not meet, stand on bucket boundaries with more
\* than three buckets between them, as the assertions of set expect, and are
\* never more than MAX_LZO_STRIPES.
StripesApart ==
    kind = "lzo_sparse" =>
       \A s \in Stacks : \A n \in DOMAIN s :
          /\ Cardinality(DOMAIN s[n]) <= MaxStripes
          /\ \A b, c \in DOMAIN s[n] :
                /\ b % Granu = 0
                /\ b < c => c - End(s[n], b) > 3 * Granu

\* The stacks of layers are one set of pairs of hash and block, over every kind
\* of hash map, and the compressed one keeps its stripes as set expects them.
IndexFaithful == IndexOK /\ StripesApart /\ CandidatesComplete
=============================================================================
