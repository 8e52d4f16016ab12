------------------------------- MODULE Ranges -------------------------------
(***************************************************************************)
(* rangecollection, rangeset and rangemultimap (lib/range*.tcc): a set of  *)
(* keys kept as the points where membership changes.                       *)
(*                                                                         *)
(* A rangeset is a function from its change points to BOOLEAN: what is     *)
(* TRUE is set up to the next change point, what is FALSE is nil.  The     *)
(* members of the source that nothing calls (offset, erase_before,         *)
(* find_set_subrange, get_slice) are left out.                             *)
(***************************************************************************)
EXTENDS Integers, Sequences, FiniteSets, SequencesExt, FiniteSetsExt, TLC

\* The change points before a key.
Before(data, k) == {p \in DOMAIN data : p < k}

\* What holds just before a key, were there no change point at it; none at all
\* if nothing was before.
Holds(data, k, v) == Before(data, k) # {} /\ data[Max(Before(data, k))] = v

Without(data, points) == [p \in DOMAIN data \ points |-> data[p]]

Inside(data, lo, up) == {p \in DOMAIN data : lo <= p /\ p < up}

\* set and erase first see to what comes after the range.
SetUpper(data, up) ==
    IF up \in DOMAIN data
    THEN IF data[up] THEN Without(data, {up}) ELSE data
    ELSE IF Holds(data, up, TRUE) THEN data ELSE data @@ (up :> FALSE)

EraseUpper(data, up) ==
    IF up \in DOMAIN data
    THEN IF ~data[up] THEN Without(data, {up}) ELSE data
    ELSE IF Holds(data, up, TRUE) THEN data @@ (up :> TRUE) ELSE data

RangeSet(data, lo, up) ==
    LET d == SetUpper(data, up)
        e == Without(d, Inside(d, lo, up))
    IN  IF Holds(e, lo, TRUE) THEN e ELSE e @@ (lo :> TRUE)

RangeErase(data, lo, up) ==
    LET d == EraseUpper(data, up)
        e == Without(d, Inside(d, lo, up))
    IN  IF Holds(e, lo, TRUE) THEN e @@ (lo :> FALSE) ELSE e

\* find succeeds
RangeFind(data, k) ==
    /\ \E p \in DOMAIN data : p >= k
    /\ IF k \in DOMAIN data THEN data[k] ELSE Holds(data, k, TRUE)

\* What the iterator goes through: set ranges in their order.  The last change
\* point is nil.
RangeList(data) ==
    LET upper(p) == Min({q \in DOMAIN data : q > p} \cup {Max(DOMAIN data)})
    IN  SetToSortSeq({<<p, upper(p)>> : p \in {q \in DOMAIN data : data[q]}},
                     LAMBDA r, s : r[1] < s[1])

\* Mutant: the range that ends later is left, not the one that ends first.
AdvanceOther(r, s) == <<IF r[2] >= s[2] THEN 1 ELSE 0, IF s[2] >= r[2] THEN 1 ELSE 0>>

\* Which of the two iterators go on.
Advance(r, s) == <<IF r[2] <= s[2] THEN 1 ELSE 0, IF s[2] <= r[2] THEN 1 ELSE 0>>

intersect(a, b) ==
    LET ra == RangeList(a)
        rb == RangeList(b)
        from[i \in 1 .. Len(ra) + 1, j \in 1 .. Len(rb) + 1] ==
            IF i > Len(ra) \/ j > Len(rb) THEN {}
            ELSE IF ra[i][2] <= rb[j][1] THEN from[i + 1, j]
            ELSE IF rb[j][2] <= ra[i][1] THEN from[i, j + 1]
            ELSE LET step == Advance(ra[i], rb[j])
                 IN  {<<Max({ra[i][1], rb[j][1]}), Min({ra[i][2], rb[j][2]})>>}
                     \cup from[i + step[1], j + step[2]]
    IN  FoldSet(LAMBDA r, d : RangeSet(d, r[1], r[2]), <<>>, from[1, 1])

\* rangemultimap: a value to the rangeset that has it.
MultiSet(map, lo, up, v) ==
    (v :> RangeSet(IF v \in DOMAIN map THEN map[v] ELSE <<>>, lo, up)) @@ map

get_valuelist(map, lo, up) ==
    {v \in DOMAIN map : intersect(map[v], RangeSet(<<>>, lo, up)) # <<>>}
=============================================================================
