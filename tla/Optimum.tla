------------------------------ MODULE Optimum -------------------------------
(***************************************************************************)
(* How the encoder of the bundled SDK (lzma/C/LzmaEnc.c) parses the data   *)
(* into literals, matches and repeated matches: GetOptimum, which looks    *)
(* for the cheapest parse of the next bytes, GetOptimumFast, which does    *)
(* not (fastMode, from props.algo), and what LzmaEnc_CodeOneBlock does     *)
(* with the step that they return.                                         *)
(*                                                                         *)
(* Both read the matches of positions ahead of the one that is coded, and  *)
(* keep what they read there.  The prices are left out: of two ways to the *)
(* same position either may be the cheaper one, and the states, which only *)
(* select prices, are left out with them.                                  *)
(***************************************************************************)
EXTENDS Integers, Sequences, FiniteSets, SequencesExt

CONSTANTS
    Parses,         \* the calls: [data, fast]
    NumFastBytes,   \* numFastBytes, at least 5
    MatchLenMax,    \* LZMA_MATCH_LEN_MAX, 273
    NumOpts,        \* kNumOpts, 4096
    NumReps,        \* LZMA_NUM_REPS, 4
    FarDistances,   \* the distances 0x80, 1 << 9 and 1 << 15
    ChangeFactor    \* ChangePair: 1 << 7

VARIABLES
    parse,          \* the call; never changes
    lz              \* what CLzmaEnc keeps, and the variables of GetOptimum

optimumVars == <<parse, lz>>

Literal == -1       \* (UInt32)(-1)

Lesser(a, b) == IF a < b THEN a ELSE b
Greater(a, b) == IF a > b THEN a ELSE b

D(i) == parse.data[i + 1]

\* for(len = from; len < limit && data[len] == data2[len]; len++)
AgreeTo(i, dist, from, limit) ==
    CHOOSE n \in from .. Greater(from, limit) :
        /\ \A k \in from .. n - 1 : D(i + k) = D(i + k - dist - 1)
        /\ n >= limit \/ D(i + n) # D(i + n - dist - 1)

BeginsAlike(i, dist) == \A k \in {0, 1} : D(i + k) = D(i + k - dist - 1)

\* Where the match finder is: behind what has been read ahead.
Ahead == lz.now + lz.additionalOffset

\* External: the pairs of a length and the least distance with it, both growing.
AllPairs(i) ==
    LET len(d) == AgreeTo(i, d, 0, Lesser(NumFastBytes, Len(parse.data) - i))
        longer == {d \in 0 .. i - 1 : len(d) >= 2 /\ \A e \in 0 .. d - 1 : len(e) < len(d)}
        sorted == SetToSortSeq(longer, <)
    IN  [n \in 1 .. Len(sorted) |-> [len |-> len(sorted[n]), dist |-> sorted[n]]]

\* External: the match finder may give up before it has them all, and miss short
\* ones, when other bytes took their place in the hash of two or three bytes.
Found(all) ==
    {SelectSeq(SubSeq(all, 1, n), LAMBDA p : p \notin missed) :
        n \in 0 .. Len(all), missed \in SUBSET {p \in ToSet(all) : p.len <= 3}}

LongestOf(i, pairs, avail) ==
    IF pairs = <<>> THEN 0
    ELSE LET p == Last(pairs)
         IN  IF p.len = NumFastBytes THEN AgreeTo(i, p.dist, p.len, Lesser(avail, MatchLenMax)) ELSE p.len

\* What ReadMatchDistances may find at the position of the match finder.
ReadMatchDistances(z) ==
    LET i     == z.now + z.additionalOffset
        avail == Len(parse.data) - i
    IN  {[z EXCEPT !.numAvail = avail, !.matches = pairs, !.additionalOffset = @ + 1,
                   !.lenRes = LongestOf(i, pairs, avail)] : pairs \in Found(AllPairs(i))}

MovePos(z, num) == [z EXCEPT !.additionalOffset = @ + num]

\* The matches of the position to code: read now, or read ahead before.
CurrentMatches(z) ==
    IF z.additionalOffset = 0 THEN ReadMatchDistances(z)
    ELSE {[z EXCEPT !.lenRes = z.longestMatchLength, !.matches = SubSeq(@, 1, z.numPairs)]}

\* Distance k is the last one now, or a new one.
RepsAfter(reps, back) ==
    IF back < NumReps
    THEN <<reps[back + 1]>> \o [k \in 1 .. NumReps - 1 |-> IF k <= back THEN reps[k] ELSE reps[k + 1]]
    ELSE <<back - NumReps>> \o SubSeq(reps, 1, NumReps - 1)

\* LzmaEnc_CodeOneBlock codes what was chosen.
CodeStep(z, len, back) ==
    [z EXCEPT !.step = [pos |-> z.now, len |-> len, back |-> back, reps |-> z.reps],
              !.reps = IF back = Literal THEN @ ELSE RepsAfter(@, back),
              !.now = @ + len, !.additionalOffset = @ - len, !.pc = "code"]

-----------------------------------------------------------------------------
(* The table opt: how a position is best reached.  set is price <            *)
(* kInfinityPrice; what an entry had before stays where it is not written.   *)

Blank == [set |-> FALSE, posPrev |-> 0, backPrev |-> 0, prev1IsChar |-> FALSE, prev2 |-> FALSE,
          posPrev2 |-> 0, backPrev2 |-> 0, backs |-> [k \in 1 .. NumReps |-> 0]]

Step(o, prev, back) == [o EXCEPT !.set = TRUE, !.posPrev = prev, !.backPrev = back, !.prev1IsChar = FALSE]

MakeAsChar(o, prev) == Step(o, prev, Literal)
MakeAsShortRep(o, prev) == Step(o, prev, 0)

\* Mutant: prev2 keeps the value of an earlier way to this position.
CharRep0KeepsPrev2(o, prev) ==
    [o EXCEPT !.set = TRUE, !.posPrev = prev, !.backPrev = 0, !.prev1IsChar = TRUE]

\* A literal before the rep0.
CharRep0(o, prev) ==
    [o EXCEPT !.set = TRUE, !.posPrev = prev, !.backPrev = 0, !.prev1IsChar = TRUE, !.prev2 = FALSE]

\* And a match before the literal.
MatchCharRep0(o, prev, prev2, back2) ==
    [CharRep0(o, prev) EXCEPT !.prev2 = TRUE, !.posPrev2 = prev2, !.backPrev2 = back2]

\* The tables in which each position of ways is reached one of these ways, or as
\* before, up to the position end; before that there was nothing behind lenEnd.
Relaxed(opt, lenEnd, end, ways) ==
    LET open == [o \in DOMAIN opt |-> IF o \in lenEnd + 1 .. end THEN [opt[o] EXCEPT !.set = FALSE] ELSE opt[o]]
        choice(o) == {w.entry : w \in {v \in ways : v.at = o}} \cup (IF open[o].set THEN {open[o]} ELSE {})
    IN  FoldLeft(LAMBDA all, o : {[t EXCEPT ![o] = e] : t \in all, e \in choice(o)}, {open},
                 SetToSeq({w.at : w \in ways}))

\* Mutant: the literal between a match and its continuation is forgotten.
RECURSIVE BackwardWithoutChars(_, _, _, _)
BackwardWithoutChars(opt, cur, posMem, backMem) ==
    LET back == [opt EXCEPT ![posMem] = [@ EXCEPT !.backPrev = backMem, !.posPrev = cur]]
    IN  IF posMem = 0 THEN back
        ELSE BackwardWithoutChars(back, posMem, opt[posMem].posPrev, opt[posMem].backPrev)

\* The way to cur, from its end, turned into the way from 0: posPrev is then
\* the next position.
RECURSIVE Backward(_, _, _, _)
Backward(opt, cur, posMem, backMem) ==
    LET e     == opt[cur]
        chars == IF e.prev1IsChar
                 THEN [opt EXCEPT ![posMem] = MakeAsChar(@, posMem - 1),
                                  ![posMem - 1] = IF e.prev2 THEN Step(@, e.posPrev2, e.backPrev2) ELSE @]
                 ELSE opt
        back  == [chars EXCEPT ![posMem] = [@ EXCEPT !.backPrev = backMem, !.posPrev = cur]]
    IN  IF posMem = 0 THEN back
        ELSE Backward(back, posMem, chars[posMem].posPrev, chars[posMem].backPrev)

\* GetOptimum returns the first step of the way; the others are kept.
ReturnFirst(z, cur) ==
    LET opt == Backward(z.opt, cur, z.opt[cur].posPrev, z.opt[cur].backPrev)
    IN  CodeStep([z EXCEPT !.opt = opt, !.optimumEndIndex = cur, !.optimumCurrentIndex = opt[0].posPrev],
                 opt[0].posPrev, opt[0].backPrev)

-----------------------------------------------------------------------------
(* GetOptimum.                                                               *)

NotFinished == lz.pc = "code" /\ ~(lz.additionalOffset = 0 /\ Ahead = Len(parse.data))

\* A step that an earlier call has found.
NextKept ==
    /\ NotFinished /\ ~parse.fast /\ lz.optimumEndIndex # lz.optimumCurrentIndex
    /\ LET e == lz.opt[lz.optimumCurrentIndex]
       IN  lz' = CodeStep([lz EXCEPT !.optimumCurrentIndex = e.posPrev], e.posPrev - lz.optimumCurrentIndex, e.backPrev)
    /\ UNCHANGED parse

\* The pair with the least distance for a length.
PairFor(pairs, len) == CHOOSE p \in ToSet(pairs) : p.len >= len /\ \A q \in ToSet(pairs) : q.len >= len => p.dist <= q.dist

\* The first index of the greatest.
RepMaxIndex(repLens) ==
    CHOOSE k \in DOMAIN repLens : \A j \in DOMAIN repLens : repLens[j] <= repLens[k] /\ (j < k => repLens[j] < repLens[k])

\* The ways to the positions that the repeated and the other matches reach at once.
FirstWays(z, i, repLens) ==
    {[at |-> l, entry |-> Step(z.opt[l], 0, k - 1)] : <<k, l>> \in {<<k, l>> \in (1 .. NumReps) \X (2 .. MatchLenMax) : l <= repLens[k]}}
    \cup {[at |-> l, entry |-> Step(z.opt[l], 0, PairFor(z.matches, l).dist + NumReps)] :
             l \in (IF repLens[1] >= 2 THEN repLens[1] + 1 ELSE 2) .. z.lenRes}

\* Up to the loop: the returns without a search, and the first ways.
BeginOptimum ==
    /\ NotFinished /\ ~parse.fast /\ lz.optimumEndIndex = lz.optimumCurrentIndex
    /\ \E z \in CurrentMatches([lz EXCEPT !.optimumEndIndex = 0, !.optimumCurrentIndex = 0]) :
         LET i       == z.now + z.additionalOffset - 1
             avail   == Lesser(z.numAvail, MatchLenMax)
             repLens == [k \in 1 .. NumReps |-> IF BeginsAlike(i, z.reps[k]) THEN AgreeTo(i, z.reps[k], 2, avail) ELSE 0]
             best    == RepMaxIndex(repLens)
             same    == D(i) = D(i - z.reps[1] - 1)
             lenEnd  == Greater(z.lenRes, repLens[best])
         IN  IF z.numAvail < 2 THEN lz' = CodeStep(z, 1, Literal)
             ELSE IF repLens[best] >= NumFastBytes
             THEN lz' = CodeStep(MovePos(z, repLens[best] - 1), repLens[best], best - 1)
             ELSE IF z.lenRes >= NumFastBytes
             THEN lz' = CodeStep(MovePos(z, z.lenRes - 1), z.lenRes, Last(z.matches).dist + NumReps)
             ELSE \E first \in {MakeAsChar(z.opt[1], 0)} \cup (IF same THEN {MakeAsShortRep(z.opt[1], 0)} ELSE {}) :
                    IF lenEnd < 2 /\ ~same THEN lz' = CodeStep(z, 1, Literal)
                    ELSE IF lenEnd < 2
                    THEN lz' = CodeStep([z EXCEPT !.opt[1].backPrev = first.backPrev, !.opt[1].prev1IsChar = FALSE],
                                        1, first.backPrev)
                    ELSE \E opt \in Relaxed([z.opt EXCEPT ![0].backs = z.reps, ![1] = first], 1, lenEnd,
                                            FirstWays(z, i, repLens)) :
                           lz' = [z EXCEPT !.pc = "loop", !.opt = opt, !.cur = 0, !.lenEnd = lenEnd, !.local = z.reps]
    /\ UNCHANGED parse

\* The last distances at cur, from the way it is reached; a literal or a short
\* rep leaves those of the position before.
RepsAt(z, cur) ==
    LET e    == z.opt[cur]
        prev == IF e.prev1IsChar THEN e.posPrev - 1 ELSE e.posPrev
        two  == e.prev1IsChar /\ e.prev2
    IN  IF prev = cur - 1 THEN z.local
        ELSE RepsAfter(z.opt[IF two THEN e.posPrev2 ELSE prev].backs, IF two THEN e.backPrev2 ELSE e.backPrev)

\* The ways to the next position: as before, or by a literal if that is cheaper;
\* or by a short rep in place of what was chosen, unless that is a rep0 already.
NextEntries(z, cur, same) ==
    LET old   == z.opt[cur + 1]
        first == (IF old.set THEN {old} ELSE {}) \cup {MakeAsChar(old, cur)}
    IN  first \cup {MakeAsShortRep(e, cur) : e \in {e \in first : same /\ ~(e.posPrev < cur /\ e.backPrev = 0)}}

\* A match of len bytes, a literal, and the match continued.
Continued(z, cur, i, dist, len, back, full) ==
    LET more == AgreeTo(i, dist, len + 1, Lesser(len + 1 + NumFastBytes, full)) - (len + 1)
        at   == cur + len + 1 + more
    IN  IF more >= 2 THEN {[at |-> at, entry |-> MatchCharRep0(z.opt[at], cur + len + 1, cur, back)]} ELSE {}

\* A literal and then the last distance again.
LiteralRep0(z, cur, i, dist, full) ==
    LET more == AgreeTo(i, dist, 1, Lesser(NumFastBytes + 1, full)) - 1
        at   == cur + 1 + more
    IN  IF more >= 2 THEN {[at |-> at, entry |-> CharRep0(z.opt[at], cur + 1)]} ELSE {}

RepWays(z, cur, i, reps, avail, full) ==
    UNION {LET len == AgreeTo(i, reps[k], 2, avail)
           IN  {[at |-> cur + l, entry |-> Step(z.opt[cur + l], cur, k - 1)] : l \in 2 .. len}
               \cup Continued(z, cur, i, reps[k], len, k - 1, full) :
           k \in {j \in 1 .. NumReps : BeginsAlike(i, reps[j])}}

\* Not longer than the space left.
FitPairs(pairs, avail) ==
    LET short == SelectSeq(pairs, LAMBDA p : p.len < avail)
    IN  IF Len(short) = Len(pairs) THEN pairs
        ELSE Append(short, [len |-> avail, dist |-> pairs[Len(short) + 1].dist])

MatchWays(z, cur, i, pairs, startLen, full) ==
    UNION {LET p == PairFor(pairs, l)
           IN  {[at |-> cur + l, entry |-> Step(z.opt[cur + l], cur, p.dist + NumReps)]}
               \cup (IF l = p.len THEN Continued(z, cur, i, p.dist, l, p.dist + NumReps, full) ELSE {}) :
           l \in startLen .. (IF pairs = <<>> THEN 0 ELSE Last(pairs).len)}

\* Mutant: the matches that were read ahead are forgotten.
StopAtLongWithoutSave(z, cur) == ReturnFirst(z, cur)

\* A long match ahead ends the search; it is for a later call.
StopAtLong(z, cur) ==
    ReturnFirst([z EXCEPT !.numPairs = Len(z.matches), !.longestMatchLength = z.lenRes], cur)

\* An iteration of the loop: the next position, and the ways from there.
NextPosition ==
    /\ lz.pc = "loop"
    /\ LET cur == lz.cur + 1
       IN  IF cur = lz.lenEnd THEN lz' = ReturnFirst(lz, cur)
           ELSE \E r \in ReadMatchDistances(lz) :
                  IF r.lenRes >= NumFastBytes THEN lz' = StopAtLong(r, cur)
                  ELSE LET reps  == RepsAt(r, cur)
                           i     == r.now + r.additionalOffset - 1
                           same  == D(i) = D(i - reps[1] - 1)
                           full  == Lesser(r.numAvail, NumOpts - 1 - cur)
                           avail == Lesser(full, NumFastBytes)
                           start == IF BeginsAlike(i, reps[1]) THEN AgreeTo(i, reps[1], 2, avail) + 1 ELSE 2
                       IN  \E next \in NextEntries(r, cur, same) :
                             LET z    == [r EXCEPT !.opt[cur].backs = reps, !.opt[cur + 1] = next, !.cur = cur, !.local = reps]
                                 ways == IF full < 2 THEN {}
                                         ELSE (IF next = r.opt[cur + 1] /\ ~same THEN LiteralRep0(z, cur, i, reps[1], full) ELSE {})
                                              \cup RepWays(z, cur, i, reps, avail, full)
                                              \cup MatchWays(z, cur, i, FitPairs(r.matches, avail), start, full)
                                 end  == CHOOSE e \in {z.lenEnd} \cup {w.at : w \in ways} :
                                            \A f \in {z.lenEnd} \cup {w.at : w \in ways} : f <= e
                             IN  \E opt \in Relaxed(z.opt, z.lenEnd, end, ways) :
                                   lz' = [z EXCEPT !.opt = opt, !.lenEnd = end]
    /\ UNCHANGED parse

-----------------------------------------------------------------------------
(* GetOptimumFast.                                                           *)

ChangePair(smallDist, bigDist) == bigDist \div ChangeFactor > smallDist

\* The pairs without the last ones, which are one byte longer and much farther.
WithoutFar(pairs) ==
    LET change(k) == pairs[k].len = pairs[k - 1].len + 1 /\ ChangePair(pairs[k - 1].dist, pairs[k].dist)
        last == CHOOSE n \in DOMAIN pairs : (\A k \in n + 1 .. Len(pairs) : change(k)) /\ ~(n > 1 /\ change(n))
    IN  IF pairs = <<>> THEN <<>> ELSE SubSeq(pairs, 1, last)

\* A repeated match is nearly as long as the other one, or that one is far.
RepPreferred(repLen, main) ==
    /\ repLen >= 2
    /\ \/ repLen + 1 >= main.len
       \/ repLen + 2 >= main.len /\ main.dist >= FarDistances[2]
       \/ repLen + 3 >= main.len /\ main.dist >= FarDistances[3]

\* The match of the next position is the better one.
NextIsBetter(z, main) ==
    /\ z.longestMatchLength >= 2
    /\ LET newDistance == Last(z.matches).dist
       IN  \/ z.longestMatchLength >= main.len /\ newDistance < main.dist
           \/ z.longestMatchLength = main.len + 1 /\ ~ChangePair(main.dist, newDistance)
           \/ z.longestMatchLength > main.len + 1
           \/ z.longestMatchLength + 1 >= main.len /\ main.len >= 3 /\ ChangePair(newDistance, main.dist)

\* Mutant: the position that was read ahead is skipped a second time.
TakeOrWaitMovesAll(z, main) ==
    LET i == z.now + z.additionalOffset - 1
    IN  IF NextIsBetter(z, main)
           \/ \E k \in 1 .. NumReps : BeginsAlike(i, z.reps[k]) /\ AgreeTo(i, z.reps[k], 2, main.len - 1) >= main.len - 1
        THEN CodeStep(z, 1, Literal)
        ELSE CodeStep(MovePos(z, main.len - 1), main.len, main.dist + NumReps)

\* With the matches of the next position read and kept: a literal when it is
\* better to wait, or the match.
TakeOrWait(z, main) ==
    LET i == z.now + z.additionalOffset - 1
    IN  IF NextIsBetter(z, main)
           \/ \E k \in 1 .. NumReps : BeginsAlike(i, z.reps[k]) /\ AgreeTo(i, z.reps[k], 2, main.len - 1) >= main.len - 1
        THEN CodeStep(z, 1, Literal)
        ELSE CodeStep(MovePos(z, main.len - 2), main.len, main.dist + NumReps)

GetOptimumFast ==
    /\ NotFinished /\ parse.fast
    /\ \E z \in CurrentMatches(lz) :
         LET i       == z.now + z.additionalOffset - 1
             avail   == Lesser(z.numAvail, MatchLenMax)
             repLens == [k \in 1 .. NumReps |-> IF BeginsAlike(i, z.reps[k]) THEN AgreeTo(i, z.reps[k], 2, avail) ELSE 0]
             long    == {k \in 1 .. NumReps : repLens[k] >= NumFastBytes}
             best    == IF long = {} THEN RepMaxIndex(repLens) ELSE CHOOSE k \in long : \A j \in long : k <= j
             near    == WithoutFar(z.matches)
             main    == IF near = <<>> THEN [len |-> 0, dist |-> 0]
                        ELSE [Last(near) EXCEPT !.len = IF @ = 2 /\ Last(near).dist >= FarDistances[1] THEN 1 ELSE @]
         IN  IF z.numAvail < 2 THEN lz' = CodeStep(z, 1, Literal)
             ELSE IF long # {} \/ (z.lenRes < NumFastBytes /\ RepPreferred(repLens[best], main))
             THEN lz' = CodeStep(MovePos(z, repLens[best] - 1), repLens[best], best - 1)
             ELSE IF z.lenRes >= NumFastBytes
             THEN lz' = CodeStep(MovePos(z, z.lenRes - 1), z.lenRes, Last(z.matches).dist + NumReps)
             ELSE IF main.len < 2 \/ avail <= 2 THEN lz' = CodeStep(z, 1, Literal)
             ELSE \E r \in ReadMatchDistances(z) :
                    lz' = TakeOrWait([r EXCEPT !.longestMatchLength = r.lenRes, !.numPairs = Len(r.matches)], main)
    /\ UNCHANGED parse

-----------------------------------------------------------------------------

\* After the first byte, which is coded as a literal.
Coding ==
    [pc |-> "code", now |-> 1, additionalOffset |-> 0, reps |-> [k \in 1 .. NumReps |-> 0], numAvail |-> 0,
     matches |-> <<>>, lenRes |-> 0, numPairs |-> 0, longestMatchLength |-> 0, opt |-> [o \in 0 .. NumOpts - 1 |-> Blank],
     optimumEndIndex |-> 0, optimumCurrentIndex |-> 0, cur |-> 0, lenEnd |-> 0, local |-> <<>>,
     step |-> [pos |-> 0, len |-> 1, back |-> Literal, reps |-> <<>>]]

OptimumInit == parse \in Parses /\ lz = Coding
OptimumIdle == parse = [data |-> <<>>, fast |-> FALSE] /\ lz = [pc |-> "idle"]

OptimumDone == lz.pc = "code" /\ ~NotFinished /\ UNCHANGED optimumVars

OptimumNext == NextKept \/ BeginOptimum \/ NextPosition \/ GetOptimumFast \/ OptimumDone

-----------------------------------------------------------------------------

RepeatsAt(i, dist, len) == dist < i /\ i + len <= Len(parse.data) /\ \A k \in i .. i + len - 1 : D(k) = D(k - dist - 1)

\* Each step that is coded stands for the bytes at its position: a literal, a
\* repeat of one of the last distances as the decoder will have them then (one
\* byte only with the last of them), or a match; none is longer than a length can
\* be coded.  What has been read ahead is exactly what the kept steps still cover,
\* and at most one position more, the matches of which are the ones kept for the
\* call that codes it; and the table of ways is never written past its end.
ParseRight ==
    lz.pc # "idle" =>
        LET s    == lz.step
            kept == lz.optimumEndIndex - lz.optimumCurrentIndex
        IN  /\ IF s.back = Literal THEN s.len = 1
               ELSE /\ s.len \in 1 .. MatchLenMax /\ (s.len = 1 => s.back = 0)
                    /\ RepeatsAt(s.pos, IF s.back < NumReps THEN s.reps[s.back + 1] ELSE s.back - NumReps, s.len)
            /\ lz.lenEnd < NumOpts
            /\ lz.pc = "code" =>
                   /\ lz.additionalOffset - kept \in {0, 1} /\ Ahead <= Len(parse.data)
                   /\ lz.additionalOffset - kept = 1 =>
                          /\ lz.numPairs = Len(lz.matches) /\ lz.longestMatchLength = lz.lenRes
                          /\ \A p \in ToSet(lz.matches) : RepeatsAt(lz.now + kept, p.dist, p.len)
                          /\ lz.numPairs > 0 => RepeatsAt(lz.now + kept, Last(lz.matches).dist, lz.lenRes)
=============================================================================
