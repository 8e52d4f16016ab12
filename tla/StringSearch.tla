---------------------------- MODULE StringSearch ----------------------------
(***************************************************************************)
(* The searches of lib/boyermoore.cc, lib/boyermooreneedle.hh and          *)
(* lib/stringsearchutil.cc: a search is a loop over positions of the       *)
(* haystack, one step of the model for each.  What they are for, the       *)
(* module Overlap says in one line each; here is how they do it.           *)
(*                                                                         *)
(* Offsets are zero-based as in the source: byte p is h[p + 1].            *)
(***************************************************************************)
EXTENDS Integers, Sequences, FiniteSets, SequencesExt, FiniteSetsExt, TLC

CONSTANTS
    Searches,   \* calls: [kind, needle, haystack, minimum, granularity]
    Letters,    \* unsigned char
    WordSize,   \* bytes that backwards_match_len compares at once
    IntSize     \* and after these

VARIABLES
    search,     \* the call
    occ, skip,  \* the tables of the needle
    hpos,       \* where the loop is; for the append search, what remains
    turbo,      \* [ignore, shift]: ignore_num and shift
    found       \* the result, or -1

searchVars == <<search, occ, skip, hpos, turbo, found>>

O(g) == INSTANCE Overlap WITH FSIZE <- 1, BSIZE <- 1, MinimumFreeSpace <- 0,
            OverlapGranularity <- g, MaxFblockCountForBruteForce <- 0, AutoIndexPeriod <- 0

-----------------------------------------------------------------------------
(* backwards_match_len_max_min: k counts bytes from the ends of the strings. *)

Eq(p, q, length, k) == p[length - k + 1] = q[length - k + 1]

Words(max, min) == (max - min) \div WordSize

\* The words with a byte that differs.
BadWords(p, q, length, max, min) ==
    {w \in 1 .. Words(max, min) :
        \E n \in 1 .. WordSize : ~Eq(p, q, length, min + (w - 1) * WordSize + n)}

\* Mutant: the byte that differs counts as a match.
InWordAndOne(p, q, length, base) ==
    LET bad == {n \in 1 .. WordSize - 1 : ~Eq(p, q, length, base + n)}
    IN  base + (IF bad = {} THEN WordSize ELSE Min(bad))

\* The bytes of a word that matched: the last one is not looked at.
InWord(p, q, length, base) ==
    LET bad == {n \in 1 .. WordSize - 1 : ~Eq(p, q, length, base + n)}
    IN  base + (IF bad = {} THEN WordSize ELSE Min(bad)) - 1

SkipInt(n) == WordSize > IntSize /\ n >= IntSize

\* What is left after the words: an int, then single bytes.
InTail(p, q, length, max, r) ==
    LET int == SkipInt(max - r) /\ \A k \in r + 1 .. r + IntSize : k > length \/ Eq(p, q, length, k)
        bad == {k \in (IF int THEN r + IntSize ELSE r) + 1 .. max : ~Eq(p, q, length, k)}
    IN  IF bad = {} THEN max ELSE Min(bad) - 1

backwards_match_len(p, q, length, max, min) ==
    LET bad == BadWords(p, q, length, max, min)
    IN  IF min > max THEN min
        ELSE IF bad # {} THEN InWord(p, q, length, min + (Min(bad) - 1) * WordSize)
        ELSE InTail(p, q, length, max, min + Words(max, min) * WordSize)

\* A string that begins at a byte of another one.
At(h, p, n) == SubSeq(h, p + 1, p + n)

-----------------------------------------------------------------------------
(* The tables.                                                               *)

InitOcc(n) ==
    [c \in Letters |-> LET s == {a \in 1 .. Len(n) - 1 : n[a] = c}
                       IN  IF s = {} THEN Len(n) ELSE Len(n) - Max(s)]

\* One suffix length of the loop of InitSkip.  (The source fills skip also
\* where suff[i + f] = i; that never is below i - g.)
SuffStep(n, acc, i) ==
    LET len == Len(n)
        f   == len - i
        g0  == IF acc.g < i THEN acc.g ELSE i
        g   == g0 - backwards_match_len(At(n, 0, g0), At(n, f, g0), g0, g0, 0)
    IN  IF acc.g < i /\ i - acc.g > acc.suff[i + acc.f]
        THEN [acc EXCEPT !.suff = (i :> acc.suff[i + acc.f]) @@ @]
        ELSE [f |-> f, g |-> g, suff |-> (i :> i - g) @@ acc.suff,
              j |-> IF g = 0 THEN Max({acc.j, f}) ELSE acc.j,
              skip |-> IF g = 0 THEN [k \in DOMAIN acc.skip |-> IF k \in acc.j .. f - 1 THEN f ELSE acc.skip[k]]
                       ELSE acc.skip]

\* Mutant: the suffixes in the other order, so that the longest shift stays.
LastFirst(len) == [k \in 1 .. len - 1 |-> len - 1 - k]

SuffixOrder(len) == [k \in 1 .. len - 1 |-> k - 1]

InitSkip(n) ==
    LET len == Len(n)
        start == [f |-> len - 1, g |-> len, suff |-> len :> len, j |-> 0,
                  skip |-> [k \in 0 .. len - 1 |-> len]]
        built == FoldLeft(LAMBDA acc, i : SuffStep(n, acc, i), start, [k \in 1 .. len - 1 |-> len - k])
    IN  FoldLeft(LAMBDA s, i : [s EXCEPT ![len - 1 - built.suff[i + 1]] = len - 1 - i],
                 built.skip, SuffixOrder(len))

\* The constructor, for each of the needles.
Tables == [n \in {s.needle : s \in Searches} |-> [occ |-> InitOcc(n), skip |-> InitSkip(n)]]

-----------------------------------------------------------------------------

SearchInit ==
    /\ search \in Searches /\ found = -1
    /\ occ = Tables[search.needle].occ /\ skip = Tables[search.needle].skip
    /\ turbo = [ignore |-> 0, shift |-> Len(search.needle)]
    /\ hpos = IF search.kind = "append" THEN Min({Len(search.haystack), Len(search.needle)}) ELSE 0

SearchIdle ==
    /\ search = [kind |-> "none"] /\ found = 0 /\ occ = <<>> /\ skip = <<>> /\ hpos = 0
    /\ turbo = [ignore |-> 0, shift |-> 0]

nlen == Len(search.needle)
hlen == Len(search.haystack)

Return(p) == found' = p /\ UNCHANGED <<search, occ, skip, hpos, turbo>>

Window == At(search.haystack, hpos, nlen)

\* The searches for the whole needle.
Whole == found = -1 /\ search.kind \in {"horspool", "boyermoore", "turbo"}

\* memchr for a single byte, nothing for a needle that is too long.
SearchSimple ==
    /\ Whole /\ (nlen > hlen \/ nlen = 1)
    /\ Return(Min({p \in 0 .. hlen - 1 : nlen = 1 /\ search.haystack[p + 1] = search.needle[1]} \cup {hlen}))

SearchOver == Whole /\ nlen > 1 /\ hpos > hlen - nlen /\ Return(hlen)

InLoop(kind) == found = -1 /\ search.kind = kind /\ nlen > 1 /\ hpos <= hlen - nlen

LastMatches == Last(search.needle) = Last(Window)

Horspool ==
    /\ InLoop("horspool")
    /\ IF Window = search.needle THEN Return(hpos)
       ELSE /\ hpos' = hpos + occ[Last(Window)]
            /\ UNCHANGED <<search, occ, skip, turbo, found>>

\* The shifts after a match of some bytes, by the bad byte and by the suffix.
BadShift(match)  == occ[Window[nlen - match]] - match
GoodShift(match) == skip[nlen - 1 - match]

BoyerMoore ==
    /\ InLoop("boyermoore")
    /\ \E match \in {IF LastMatches
                     THEN backwards_match_len(search.needle, Window, nlen, nlen, 0) ELSE 0} :
          IF match = nlen THEN Return(hpos)
          ELSE /\ hpos' = hpos + Max({GoodShift(match), BadShift(match)})
               /\ UNCHANGED <<search, occ, skip, turbo, found>>

\* What the last step matched is not compared again.
TurboMatch ==
    LET first == backwards_match_len(search.needle, Window, nlen, turbo.shift, 0)
    IN  IF ~LastMatches THEN 0
        ELSE IF turbo.ignore = 0 THEN backwards_match_len(search.needle, Window, nlen, nlen, 0)
        ELSE IF first = turbo.shift
        THEN backwards_match_len(search.needle, Window, nlen, nlen, turbo.shift + turbo.ignore)
        ELSE first

\* ignore_num and shift after a step.
Remember(shift, match) ==
    IF shift = GoodShift(match)
    THEN [ignore |-> Min({nlen - shift, match}), shift |-> shift]
    ELSE [ignore |-> 0,
          shift |-> IF turbo.ignore - match < BadShift(match) /\ turbo.ignore >= shift
                    THEN turbo.ignore + 1 ELSE shift]

Turbo ==
    /\ InLoop("turbo")
    /\ \E match \in {TurboMatch} :
          IF match >= nlen THEN Return(hpos)
          ELSE /\ turbo' = Remember(Max({GoodShift(match), BadShift(match), turbo.ignore - match}), match)
               /\ hpos' = hpos + turbo'.shift
               /\ UNCHANGED <<search, occ, skip, found>>

-----------------------------------------------------------------------------
(* SearchInWithAppendOnly: the end of the haystack is the needle's begin.    *)

\* ScanByte: offsets from the first position, in steps.
Starts(remain) ==
    {s \in 0 .. remain - search.minimum - 1 :
        s % search.granularity = 0 /\ search.haystack[hlen - remain + s + 1] = search.needle[1]}

AppendOnly ==
    /\ found = -1 /\ search.kind = "append"
    /\ IF hpos < search.minimum \/ hpos = 0 \/ Starts(hpos) = {} THEN Return(hlen)
       ELSE \E here \in {hpos - Min(Starts(hpos))} :
            IF At(search.haystack, hlen - here, here) = At(search.needle, 0, here) THEN Return(hlen - here)
            ELSE IF here < search.granularity THEN Return(hlen)
            ELSE hpos' = here - search.granularity /\ UNCHANGED <<search, occ, skip, turbo, found>>

SearchDone == found # -1 /\ UNCHANGED searchVars

SearchNext ==
    \/ SearchSimple \/ SearchOver \/ Horspool \/ BoyerMoore \/ Turbo \/ AppendOnly
    \/ SearchDone

-----------------------------------------------------------------------------
(* Properties.                                                               *)

\* Each of the searches gives what Overlap takes it for: the first place of the
\* needle or the haystack's length; the append search the first offset, in
\* steps of the granularity, where the needle can be appended with an overlap.
SearchRight ==
    (found # -1 /\ search.kind # "none") =>
       found = IF search.kind = "append"
               THEN O(search.granularity)!SearchInWithAppendOnly(search.haystack, 0, search.needle, search.minimum)
               ELSE O(1)!SearchInTurbo(search.haystack, 0, search.needle)

\* backwards_match_len, on what the search compares: byte by byte it is the
\* same, for every maximum and minimum.
MatchLengthRight ==
    (search.kind = "horspool" /\ found = -1 /\ nlen > 1 /\ hpos = 0 /\ nlen <= hlen) =>
       \A max \in 0 .. nlen : \A min \in 0 .. max :
          backwards_match_len(search.needle, Window, nlen, max, min) =
             Max({k \in min .. max : \A m \in min + 1 .. k : Eq(search.needle, Window, nlen, m)})

\* The string searches, with their tables and with the comparison by words,
\* give the places that Overlap is written with.
SearchesRight == SearchRight /\ MatchLengthRight
=============================================================================
