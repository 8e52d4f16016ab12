---------------------------- MODULE MatchFinder -----------------------------
(***************************************************************************)
(* The match finder of the LZMA encoder (lzma/C/LzFind.c), as LZMACompress *)
(* uses it: four hash bytes, binary trees, input through MemReader.        *)
(*                                                                         *)
(* A window slides over the data.  Positions are 32-bit numbers that are   *)
(* reduced before they overflow, sons a cyclic buffer, and a position is   *)
(* kept in a hash and in the trees until it is too far back to be used.    *)
(***************************************************************************)
EXTENDS Integers, Sequences, FiniteSets, TLC, SequencesExt
LOCAL INSTANCE Bitwise

CONSTANTS
    Finds,                 \* calls: [data, historySize, cutValue]
    SymbolBits,            \* bits of a byte of the data, 8
    Crc,                   \* the table p->crc
    Hash2Size, Hash3Size,  \* kHash2Size and kHash3Size, 2^10 and 2^16
    HashMask,              \* of the hash of four bytes, at least 2^16 - 1
    KeepAddBufferBefore,   \* kNumOpts
    MatchMaxLen,           \* numFastBytes
    KeepAddBufferAfter,    \* LZMA_MATCH_LEN_MAX
    SizeReserv,            \* the room beyond what is kept
    MaxValForNormalize,    \* 0xFFFFFFFF
    NormalizeStep          \* kNormalizeStepMin, 2^10

VARIABLES
    mf,                    \* CMatchFinder, and how much MemReader has handed out
    distances              \* what the last call returned: a list of <<len, dist>>, and lenLimit

finderVars == <<mf, distances>>

kEmptyHashValue == 0
\* What was allocated and not written; sons that were never written are left out.
Junk == -1

Least(a, b) == IF a < b THEN a ELSE b

\* MatchFinder_Create.
KeepSizeBefore(f) == f.historySize + KeepAddBufferBefore + 1
KeepSizeAfter == MatchMaxLen + KeepAddBufferAfter
BlockSizeOf(f) == KeepSizeBefore(f) + KeepSizeAfter + SizeReserv
CyclicBufferSize(f) == f.historySize + 1

GetNumAvailableBytes(f) == f.streamPos - f.pos

-----------------------------------------------------------------------------
(* The window.                                                               *)

\* One call of MemReader::ReadMethod, for all the room behind what is there.
ReadOnce(f) ==
    LET dest == f.buffer + GetNumAvailableBytes(f)
        size == BlockSizeOf(f) - dest
        n    == Least(size, Len(f.data) - f.read)
    IN  IF size = 0 THEN f
        ELSE IF n = 0 THEN [f EXCEPT !.streamEndWasReached = TRUE]
        ELSE [f EXCEPT !.buf = [i \in 1 .. Len(@) |-> IF i \in dest + 1 .. dest + n
                                                      THEN f.data[f.read + i - dest] ELSE @[i]],
                       !.read = @ + n, !.streamPos = @ + n]

MatchFinder_ReadBlock(f) ==
    IF f.streamEndWasReached THEN f
    ELSE LET g == ReadOnce(f)
         IN  IF GetNumAvailableBytes(g) > KeepSizeAfter THEN g ELSE ReadOnce(g)

\* memmove and the new place of the current position.
MatchFinder_MoveBlock(f) ==
    LET from == f.buffer - KeepSizeBefore(f)
        n    == GetNumAvailableBytes(f) + KeepSizeBefore(f)
    IN  [f EXCEPT !.buf = [i \in 1 .. Len(@) |-> IF i <= n THEN @[from + i] ELSE @[i]],
                  !.buffer = KeepSizeBefore(f)]

MatchFinder_NeedMove(f) == BlockSizeOf(f) - f.buffer <= KeepSizeAfter

MatchFinder_CheckAndMoveAndRead(f) ==
    MatchFinder_ReadBlock(IF MatchFinder_NeedMove(f) THEN MatchFinder_MoveBlock(f) ELSE f)

\* Mutant: the bytes to look ahead at are not kept back.
LimitByAvailable(f) ==
    LET limit == Least(Least(MaxValForNormalize - f.pos, CyclicBufferSize(f) - f.cyclicBufferPos),
                       GetNumAvailableBytes(f))
    IN  [f EXCEPT !.lenLimit = Least(GetNumAvailableBytes(f), MatchMaxLen), !.posLimit = f.pos + limit]

\* How far the position may go before something has to be done.
MatchFinder_SetLimits(f) ==
    LET avail  == GetNumAvailableBytes(f)
        limit2 == IF avail > KeepSizeAfter THEN avail - KeepSizeAfter ELSE Least(avail, 1)
        limit  == Least(Least(MaxValForNormalize - f.pos, CyclicBufferSize(f) - f.cyclicBufferPos), limit2)
    IN  [f EXCEPT !.lenLimit = Least(avail, MatchMaxLen), !.posLimit = f.pos + limit]

\* MatchFinder_GetSubValue.
SubValue(f) == ((f.pos - f.historySize - 1) \div NormalizeStep) * NormalizeStep

\* Mutant: what is too old is kept as it is.
KeepOld(sub, items) == [i \in DOMAIN items |-> IF items[i] <= sub THEN items[i] ELSE items[i] - sub]

\* MatchFinder_Normalize3.
Normalize3(sub, items) ==
    [i \in DOMAIN items |-> IF items[i] <= sub THEN kEmptyHashValue ELSE items[i] - sub]

MatchFinder_Normalize(f) ==
    LET sub == SubValue(f)
    IN  [f EXCEPT !.hash = Normalize3(sub, @), !.son = Normalize3(sub, @),
                  !.pos = @ - sub, !.streamPos = @ - sub, !.posLimit = @ - sub]

MatchFinder_CheckLimits(f) ==
    LET g == IF f.pos = MaxValForNormalize THEN MatchFinder_Normalize(f) ELSE f
        h == IF ~g.streamEndWasReached /\ KeepSizeAfter = GetNumAvailableBytes(g)
             THEN MatchFinder_CheckAndMoveAndRead(g) ELSE g
    IN  MatchFinder_SetLimits([h EXCEPT !.cyclicBufferPos = IF @ = CyclicBufferSize(h) THEN 0 ELSE @])

MOVE_POS(f) ==
    LET g == [f EXCEPT !.cyclicBufferPos = @ + 1, !.buffer = @ + 1, !.pos = @ + 1]
    IN  IF g.pos = g.posLimit THEN MatchFinder_CheckLimits(g) ELSE g

-----------------------------------------------------------------------------
(* Hashes and trees.                                                         *)

Cur(f, i) == f.buf[f.buffer + i + 1]

\* HASH4_CALC.
Temp(f) == Crc[Cur(f, 0)] ^^ Cur(f, 1)
Hash2(f) == <<2, Temp(f) % Hash2Size>>
Temp3(f) == Temp(f) ^^ (Cur(f, 2) * 2^SymbolBits)
Hash3(f) == <<3, Temp3(f) % Hash3Size>>
Hash4(f) == <<4, (Temp3(f) ^^ (Crc[Cur(f, 3)] * 2^5)) % (HashMask + 1)>>

Latest(f, h) == IF h \in DOMAIN f.hash THEN f.hash[h] ELSE kEmptyHashValue

Hashed(f) == [f EXCEPT !.hash = (Hash2(f) :> f.pos) @@ (Hash3(f) :> f.pos) @@ (Hash4(f) :> f.pos) @@ @]

\* From how many bytes on, at least len of them, what is at delta differs.
Alike(f, delta, len) ==
    LET differ == {i \in len .. f.lenLimit - 1 : Cur(f, i - delta) # Cur(f, i)}
    IN  IF differ = {} THEN f.lenLimit ELSE CHOOSE i \in differ : \A j \in differ : i <= j

PairOf(f, delta) ==
    2 * (f.cyclicBufferPos - delta + (IF delta > f.cyclicBufferPos THEN CyclicBufferSize(f) ELSE 0))

\* A walk down a tree: the node, the links to be set to what is less and to what
\* is greater, what both sides have in common with the current position.
Walk(f, curMatch, maxLen) ==
    [node |-> curMatch, son |-> f.son, ptr0 |-> 2 * f.cyclicBufferPos + 1, ptr1 |-> 2 * f.cyclicBufferPos,
     len0 |-> 0, len1 |-> 0, maxLen |-> maxLen, found |-> <<>>, over |-> FALSE]

Unlinked(w) == [w EXCEPT !.son = (w.ptr0 :> kEmptyHashValue) @@ (w.ptr1 :> kEmptyHashValue) @@ @, !.over = TRUE]

TooOld(f, delta) == delta >= CyclicBufferSize(f)

\* A node of GetMatchesSpec1; SkipMatchesSpec does the same and returns nothing.
Descend(f, w) ==
    LET delta == f.pos - w.node
        pair  == PairOf(f, delta)
        len   == Alike(f, delta, Least(w.len0, w.len1))
        seen  == IF w.maxLen < len
                 THEN [w EXCEPT !.found = Append(@, <<len, delta - 1>>), !.maxLen = len] ELSE w
    IN  IF w.over THEN w
        ELSE IF TooOld(f, delta) THEN Unlinked(w)
        ELSE IF len = f.lenLimit
        THEN [seen EXCEPT !.son = (w.ptr1 :> w.son[pair]) @@ (w.ptr0 :> w.son[pair + 1]) @@ @, !.over = TRUE]
        ELSE IF Cur(f, len - delta) < Cur(f, len)
        THEN [seen EXCEPT !.son = (w.ptr1 :> w.node) @@ @, !.ptr1 = pair + 1, !.node = w.son[pair + 1], !.len1 = len]
        ELSE [seen EXCEPT !.son = (w.ptr0 :> w.node) @@ @, !.ptr0 = pair, !.node = w.son[pair], !.len0 = len]

GetMatchesSpec1(f, curMatch, maxLen) ==
    LET w == FoldLeft(LAMBDA v, i : Descend(f, v), Walk(f, curMatch, maxLen), [i \in 1 .. f.cutValue |-> i])
    IN  IF w.over THEN w ELSE Unlinked(w)

\* What the two short hashes find: only the first byte is compared.
Short(f) ==
    LET d2 == f.pos - Latest(f, Hash2(f))
        d3 == f.pos - Latest(f, Hash3(f))
        ok(d) == d < CyclicBufferSize(f) /\ Cur(f, -d) = Cur(f, 0)
        two   == IF ok(d2) THEN <<<<2, d2 - 1>>>> ELSE <<>>
        three == IF d2 # d3 /\ ok(d3) THEN Append(two, <<3, d3 - 1>>) ELSE two
    IN  IF three = <<>> THEN <<>>
        ELSE LET last == three[Len(three)]
             IN  [three EXCEPT ![Len(three)] = <<Alike(f, last[2] + 1, last[1]), last[2]>>]

-----------------------------------------------------------------------------

NoMatches == [list |-> <<>>, lenLimit |-> 0]

FinderInit ==
    /\ mf \in {LET f == [data |-> c.data, historySize |-> c.historySize, cutValue |-> c.cutValue, read |-> 0, buffer |-> 0,
                         buf |-> <<>>, pos |-> c.historySize + 1, streamPos |-> c.historySize + 1,
                         posLimit |-> 0, lenLimit |-> 0, cyclicBufferPos |-> 0, streamEndWasReached |-> FALSE,
                         hash |-> <<>>, son |-> <<>>]
               IN  MatchFinder_SetLimits(MatchFinder_ReadBlock(
                        [f EXCEPT !.buf = [i \in 1 .. BlockSizeOf(f) |-> Junk]])) : c \in Finds}
    /\ distances = NoMatches

\* Bt4_MatchFinder_GetMatches.
GetMatchesBt4 ==
    /\ GetNumAvailableBytes(mf) > 0
    /\ IF mf.lenLimit < 4 THEN mf' = MOVE_POS(mf) /\ distances' = NoMatches
       ELSE \E short \in {Short(mf)} :
               LET len == IF short = <<>> THEN 1 ELSE short[Len(short)][1]
               IN  \E w \in {GetMatchesSpec1(mf, Latest(mf, Hash4(mf)), IF len < 3 THEN 3 ELSE len)} :
                      /\ mf' = MOVE_POS([Hashed(mf) EXCEPT !.son = w.son])
                      /\ distances' = [list |-> short \o w.found, lenLimit |-> mf.lenLimit]

\* Mutant: positions that are skipped do not get into the trees.
SkipOnlyMoves ==
    /\ GetNumAvailableBytes(mf) > 0
    /\ mf' = MOVE_POS(mf)
    /\ distances' = NoMatches

\* Bt4_MatchFinder_Skip, for one position.
SkipBt4 ==
    /\ GetNumAvailableBytes(mf) > 0
    /\ mf' = MOVE_POS(IF mf.lenLimit < 4 THEN mf
                      ELSE [Hashed(mf) EXCEPT !.son = GetMatchesSpec1(mf, Latest(mf, Hash4(mf)), 3).son])
    /\ distances' = NoMatches

FinderIdle ==
    /\ mf = [data |-> <<>>, pos |-> 0, streamPos |-> 0, lenLimit |-> 0, historySize |-> 0, cutValue |-> 0,
            buffer |-> 0, read |-> 0]
    /\ distances = NoMatches

FinderDone == GetNumAvailableBytes(mf) = 0 /\ UNCHANGED finderVars

FinderNext == GetMatchesBt4 \/ SkipBt4 \/ FinderDone

-----------------------------------------------------------------------------
(* Properties.                                                               *)

\* The current position in the data.
DataPos == mf.read - GetNumAvailableBytes(mf)

\* At position p of the data, len bytes are those that lie dist + 1 before.
IsRepeat(p, len, dist) ==
    dist < p /\ p + len <= Len(mf.data)
    /\ \A i \in 1 .. len : mf.data[p + i] = mf.data[p + i - dist - 1]

\* Every match that the encoder is given repeats bytes of the data that the
\* decoder still has, whatever positions were reduced, bytes moved and nodes
\* overwritten since; longer matches come later.  LzmaCodec rests on this.
MatchesAreRepeats ==
    LET list == distances.list
    IN  /\ \A k \in DOMAIN list : list[k][2] < mf.historySize /\ IsRepeat(DataPos - 1, list[k][1], list[k][2])
        /\ \A k \in 2 .. Len(list) : list[k - 1][1] < list[k][1]

\* The encoder never sees less than what it has to: the end is seen only when
\* all the data was read, and as long as there is more, the longest match and
\* what is read behind it are in the buffer; the bytes in the buffer, back to
\* the oldest that may be asked for, are those of the data.
WindowFaithful ==
    /\ GetNumAvailableBytes(mf) = 0 => mf.read = Len(mf.data)
    /\ mf.lenLimit <= GetNumAvailableBytes(mf)
    /\ mf.read < Len(mf.data) => GetNumAvailableBytes(mf) >= KeepSizeAfter
    /\ \A i \in -Least(DataPos, KeepSizeBefore(mf) - 1) .. GetNumAvailableBytes(mf) - 1 :
          Cur(mf, i) = mf.data[DataPos + i + 1]

\* With trees that are not cut, a call of GetMatches finds the longest match of
\* four bytes or more in the window (up to MatchMaxLen): no node is lost when
\* trees are split, positions reduced and old nodes overwritten.
LongestFound ==
    mf.cutValue >= mf.historySize /\ distances.lenLimit > 0 =>
        \A len \in 4 .. distances.lenLimit : \A dist \in 0 .. mf.historySize - 1 :
            IsRepeat(DataPos - 1, len, dist) => \E k \in DOMAIN distances.list : distances.list[k][1] >= len

\* The match finder shows the encoder the data as it is, with the longest of the
\* matches and none that is not one, through moves of the window and the
\* reduction of positions.
MatchFinderRight == MatchesAreRepeats /\ WindowFaithful /\ LongestFound
=============================================================================
