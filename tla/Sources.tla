------------------------------ MODULE Sources -------------------------------
(***************************************************************************)
(* Who reads what while FlushBlockifyRequests looks for identical blocks   *)
(* with a team of threads, and then blockifies: the schedule_cache of      *)
(* lib/cromfs-blockifier.cc, which keeps a few data sources open, the data *)
(* sources of lib/datasource_detail.hh, which are mapped into memory in    *)
(* whole, in part or not at all, and the DataReadBuffers, which mostly     *)
(* only point into such a mapping.                                         *)
(*                                                                         *)
(* Which data is equal is left open; a position is counted in blocks.      *)
(***************************************************************************)
EXTENDS Integers, Sequences, FiniteSets, SequencesExt

CONSTANTS
    SourceSizes,   \* the schedule: the number of blocks of each source
    Mappings,      \* what mmap may do with a source: "whole", "part", "none"
    Team,          \* the OpenMP threads, 1 .. n
    MaxOpen,       \* max_open of the two caches: <<10, 4>>
    MapLength,     \* FailSafeMMapLength
    MaxCandidates  \* bound on the earlier blocks with the hash of a block

ASSUME SourcesParameters ==
    /\ SourceSizes \in Seq(Nat \ {0}) /\ SourceSizes # <<>>
    /\ 1 \in Team /\ Team \subseteq Nat \ {0}
    /\ MaxOpen \in [1 .. 2 -> Nat \ {0}]
    /\ MapLength \in Nat \ {0}
    /\ Mappings \subseteq {"whole", "part", "none"}

VARIABLES
    mapping,       \* source to an element of Mappings
    mapped,        \* source to the positions that are mapped
    opened,        \* source to open() minus close()
    open_list,
    can_close,
    at,            \* [pass, a, p]: the loops' position
    mainpc,
    bufs,          \* buf (0) and the threads' buf2: [src, ok]; src is 0 for a
                   \* copy and for a buffer into a source that was closed since
    team,          \* thread to [pc, other]
    candidates,    \* blocks <<source, position>> that no thread has taken
    identical      \* [found, lock, matches, appended]

sourceVars == <<mapping, mapped, opened, open_list, can_close, at, mainpc, bufs, team, candidates, identical>>

Scheduled == DOMAIN SourceSizes

-----------------------------------------------------------------------------
(* The data sources.                                                         *)

\* datasource_file::open maps the file or, failing that, its beginning.
MapAtOpen(s) ==
    IF mapping[s] = "none" THEN {}
    ELSE 0 .. (IF mapping[s] = "whole" THEN SourceSizes[s] ELSE MapLength) - 1

\* Another part of the source is mapped now, or nothing of it.
Displaced(b, s) == IF b.src = s THEN [b EXCEPT !.ok = FALSE] ELSE b

Closed(b, gone) == IF b.src \in gone THEN [src |-> 0, ok |-> FALSE] ELSE b

NoMatch == [found |-> FALSE, lock |-> 0, matches |-> 0, appended |-> 0]
NoTeam  == [t \in Team |-> [pc |-> "done", other |-> <<0, 0>>]]
NoBufs  == [i \in {0} \cup Team |-> [src |-> 0, ok |-> FALSE]]

SourcesInit ==
    /\ mapping \in [Scheduled -> Mappings]
    /\ mapped = [s \in Scheduled |-> {}] /\ opened = [s \in Scheduled |-> 0]
    /\ open_list = <<>> /\ can_close = TRUE
    /\ at = [pass |-> 1, a |-> 1, p |-> 0] /\ mainpc = "open"
    /\ bufs = NoBufs /\ team = NoTeam /\ candidates = {} /\ identical = NoMatch

SourcesIdle ==
    /\ mapping = <<>> /\ mapped = <<>> /\ opened = <<>> /\ open_list = <<>> /\ can_close = TRUE
    /\ at = [pass |-> 0, a |-> 1, p |-> 0] /\ mainpc = "end"
    /\ bufs = NoBufs /\ team = NoTeam /\ candidates = {} /\ identical = NoMatch

\* read: into the mapping if it has the block, else with a mapping of that
\* place, else with pread.  What was mapped before is unmapped.
Read(i, s, p) ==
    LET ref  == [src |-> s, ok |-> TRUE]
        copy == [src |-> 0, ok |-> opened[s] > 0]
    IN  IF mapped[s] = {} THEN bufs' = [bufs EXCEPT ![i] = copy] /\ UNCHANGED mapped
        ELSE IF p \in mapped[s] THEN bufs' = [bufs EXCEPT ![i] = ref] /\ UNCHANGED mapped
        ELSE \E works \in BOOLEAN :
             /\ mapped' = [mapped EXCEPT ![s] =
                             IF works THEN {q \in p .. SourceSizes[s] - 1 : q < p + MapLength} ELSE {}]
             /\ bufs' = [[j \in DOMAIN bufs |-> Displaced(bufs[j], s)]
                           EXCEPT ![i] = IF works THEN ref ELSE copy]

-----------------------------------------------------------------------------
(* schedule_cache::Get.                                                      *)

\* Mutant: a source that is found stays where it is in the list.
StaysInPlace(s) == IF s \in ToSet(open_list) THEN open_list ELSE <<s>> \o open_list

\* open_list.erase(i), if there is one.
Others(s) ==
    IF s \in ToSet(open_list)
    THEN RemoveAt(open_list, CHOOSE i \in DOMAIN open_list : open_list[i] = s) ELSE open_list

InFront(s) == <<s>> \o Others(s)

Get(s, may_close) ==
    \E list \in {InFront(s)} :
       /\ open_list' = IF may_close /\ Len(list) > MaxOpen[at.pass]
                       THEN SubSeq(list, 1, MaxOpen[at.pass]) ELSE list
       /\ LET gone == ToSet(open_list) \ ToSet(open_list')
              new  == s \notin ToSet(open_list)
          IN  /\ mapped' = [x \in Scheduled |-> IF x \in gone THEN {}
                                                ELSE IF x = s /\ new THEN MapAtOpen(s) ELSE mapped[x]]
              /\ opened' = [x \in Scheduled |-> IF x \in gone THEN opened[x] - 1
                                                ELSE IF x = s /\ new THEN opened[x] + 1 ELSE opened[x]]
              /\ bufs' = [i \in DOMAIN bufs |-> Closed(bufs[i], gone)]

-----------------------------------------------------------------------------
(* The loops over the sources and their blocks.                              *)

OpenCurrent ==
    /\ mainpc = "open" /\ Get(at.a, can_close) /\ mainpc' = "block"
    /\ UNCHANGED <<mapping, can_close, at, team, candidates, identical>>

Earlier == {b \in UNION {{s} \X (0 .. SourceSizes[s] - 1) : s \in 1 .. at.a} : b[1] < at.a \/ b[2] < at.p}

\* The next block, the next source, the second loop with a cache of its own
\* (the first one closes what it has open), or the end.
Advanced ==
    IF at.p + 1 < SourceSizes[at.a] THEN [at EXCEPT !.p = @ + 1]
    ELSE IF at.a < Len(SourceSizes) THEN [at EXCEPT !.a = @ + 1, !.p = 0]
    ELSE [pass |-> at.pass + 1, a |-> 1, p |-> 0]

SourceOver == mainpc = "next" /\ Advanced.pass # at.pass

NextBlock ==
    /\ mainpc = "next" /\ ~SourceOver
    /\ at' = Advanced /\ mainpc' = IF Advanced.a = at.a THEN "block" ELSE "open"
    /\ UNCHANGED <<mapping, mapped, opened, open_list, can_close, bufs, team, candidates, identical>>

CloseCache ==
    /\ SourceOver
    /\ at' = Advanced /\ mainpc' = IF at.pass = 1 THEN "open" ELSE "end"
    /\ open_list' = <<>> /\ mapped' = [s \in Scheduled |-> {}]
    /\ opened' = [s \in Scheduled |-> opened[s] - Cardinality({i \in DOMAIN open_list : open_list[i] = s})]
    /\ bufs' = [i \in DOMAIN bufs |-> Closed(bufs[i], ToSet(open_list))]
    /\ UNCHANGED <<mapping, can_close, team, candidates, identical>>

-----------------------------------------------------------------------------
(* The first loop: the block is read, and its hash may ask for a search.     *)

ReadBlock ==
    /\ mainpc = "block" /\ at.pass = 1
    /\ Read(0, at.a, at.p) /\ mainpc' = "hash"
    /\ UNCHANGED <<mapping, opened, open_list, can_close, at, team, candidates, identical>>

NoCheck ==
    /\ mainpc = "hash" /\ mainpc' = "next"
    /\ UNCHANGED <<mapping, mapped, opened, open_list, can_close, at, bufs, team, candidates, identical>>

\* Mutant: sources may be closed while the team compares.
MayCloseInSearch == TRUE

MayClose == FALSE

CheckHash ==
    /\ mainpc = "hash" /\ mainpc' = "search"
    /\ can_close' = MayClose
    /\ candidates' \in {c \in SUBSET Earlier : Cardinality(c) <= MaxCandidates}
    /\ team' = [t \in Team |-> [pc |-> "pick", other |-> <<0, 0>>]]
    /\ identical' = NoMatch
    /\ UNCHANGED <<mapping, mapped, opened, open_list, at, bufs>>

Goes(t, from, to) == team[t].pc = from /\ team' = [team EXCEPT ![t].pc = to]

\* Under index_lock.
Pick(t) ==
    /\ ~identical.found /\ team[t].pc = "pick"
    /\ \E c \in candidates :
          /\ candidates' = candidates \ {c}
          /\ team' = [team EXCEPT ![t] = [pc |-> "get", other |-> c]]
    /\ UNCHANGED <<mapping, mapped, opened, open_list, can_close, at, mainpc, bufs, identical>>

PickNone(t) ==
    /\ identical.found \/ candidates = {}
    /\ Goes(t, "pick", "done")
    /\ UNCHANGED <<mapping, mapped, opened, open_list, can_close, at, mainpc, bufs, candidates, identical>>

GetOther(t) ==
    /\ Goes(t, "get", "size") /\ Get(team[t].other[1], can_close)
    /\ UNCHANGED <<mapping, can_close, at, mainpc, candidates, identical>>

\* The other block is shorter, or of a smaller block size.
Unfit(t) ==
    /\ Goes(t, "size", "pick")
    /\ UNCHANGED <<mapping, mapped, opened, open_list, can_close, at, mainpc, bufs, candidates, identical>>

ReadOther(t) ==
    /\ Goes(t, "size", "compare") /\ Read(t, team[t].other[1], team[t].other[2])
    /\ UNCHANGED <<mapping, opened, open_list, can_close, at, mainpc, candidates, identical>>

Differs(t) ==
    /\ Goes(t, "compare", "pick")
    /\ UNCHANGED <<mapping, mapped, opened, open_list, can_close, at, mainpc, bufs, candidates, identical>>

Equals(t) ==
    /\ Goes(t, "compare", "try")
    /\ identical' = [identical EXCEPT !.matches = @ + 1]
    /\ UNCHANGED <<mapping, mapped, opened, open_list, can_close, at, mainpc, bufs, candidates>>

\* identical_lock.TryLock().
TryLock(t) ==
    /\ IF identical.lock = 0 THEN Goes(t, "try", "append") /\ identical' = [identical EXCEPT !.lock = t]
       ELSE Goes(t, "try", "done") /\ UNCHANGED identical
    /\ UNCHANGED <<mapping, mapped, opened, open_list, can_close, at, mainpc, bufs, candidates>>

\* Mutant: identical_found is not looked at again with the lock.
AppendAnyway(i) == [i EXCEPT !.lock = 0, !.found = TRUE, !.appended = @ + 1]

AppendIfNone(i) == [i EXCEPT !.lock = 0, !.found = TRUE, !.appended = IF i.found THEN @ ELSE @ + 1]

AppendIdentical(t) ==
    /\ Goes(t, "append", "done") /\ identical' = AppendIfNone(identical)
    /\ UNCHANGED <<mapping, mapped, opened, open_list, can_close, at, mainpc, bufs, candidates>>

TeamDone == \A t \in Team : team[t].pc = "done"

\* "ensure it's not unloaded"
EndSearch ==
    /\ mainpc = "search" /\ TeamDone
    /\ can_close' = TRUE /\ Get(at.a, TRUE) /\ mainpc' = "next" /\ candidates' = {}
    /\ UNCHANGED <<mapping, at, team, identical>>

-----------------------------------------------------------------------------
(* The second loop: a block that has an identical one is compared with it    *)
(* again; else, or if it differs, the block is placed.                       *)

BlockifyReuse ==
    /\ mainpc = "block" /\ at.pass = 2
    /\ can_close' = MayClose
    /\ \E other \in Earlier :
          /\ Get(other[1], can_close')
          /\ candidates' = {other}
    /\ mainpc' = "reread"
    /\ UNCHANGED <<mapping, at, team, identical>>

BlockifyOwn ==
    /\ mainpc = "block" /\ at.pass = 2
    /\ can_close' = MayClose /\ Read(0, at.a, at.p) /\ mainpc' = "place"
    /\ UNCHANGED <<mapping, opened, open_list, at, team, candidates, identical>>

Reread ==
    /\ mainpc = "reread" /\ Read(0, at.a, at.p) /\ mainpc' = "rereadother"
    /\ UNCHANGED <<mapping, opened, open_list, can_close, at, team, candidates, identical>>

RereadOther ==
    /\ mainpc = "rereadother"
    /\ \E other \in candidates : Read(1, other[1], other[2])
    /\ mainpc' = "compare"
    /\ UNCHANGED <<mapping, opened, open_list, can_close, at, team, candidates, identical>>

NotIdentical ==
    /\ mainpc = "compare" /\ mainpc' = "place"
    /\ UNCHANGED <<mapping, mapped, opened, open_list, can_close, at, bufs, team, candidates, identical>>

EndBlockify ==
    /\ mainpc \in {"compare", "place"} /\ mainpc' = "next"
    /\ can_close' = TRUE /\ Get(at.a, TRUE) /\ candidates' = {}
    /\ UNCHANGED <<mapping, at, team, identical>>

SourcesDone == mainpc = "end" /\ UNCHANGED sourceVars

SourcesNext ==
    \/ OpenCurrent \/ NextBlock \/ CloseCache \/ ReadBlock \/ NoCheck \/ CheckHash \/ EndSearch
    \/ \E t \in Team : \/ Pick(t) \/ PickNone(t) \/ GetOther(t) \/ Unfit(t) \/ ReadOther(t) \/ Differs(t)
                       \/ Equals(t) \/ TryLock(t) \/ AppendIdentical(t)
    \/ BlockifyReuse \/ BlockifyOwn \/ Reread \/ RereadOther \/ NotIdentical \/ EndBlockify
    \/ SourcesDone

SourcesSpec == SourcesInit /\ [][SourcesNext]_sourceVars

-----------------------------------------------------------------------------
(* Properties.                                                               *)

\* What is hashed, compared or stored is in memory that is still there, however
\* the threads open sources in the meantime: "Ensure that the handle to source,
\* and s, will not surprisingly become invalid in the identical_found loop".
\* The code keeps this for sources that are mapped as a whole or not at all;
\* where a source is mapped in part, the reading of another place of it moves
\* the mapping away under the buffers that point into it.
BuffersBacked ==
    /\ mainpc \in {"hash", "place", "compare"} => bufs[0].ok
    /\ mainpc = "compare" => bufs[1].ok
    /\ \A t \in Team : team[t].pc = "compare" => bufs[0].ok /\ bufs[t].ok

\* A buffer that is there, or that has lost its memory to the reading of
\* another place of its source, which is mapped in part and still open.
Backed(b) == b.ok \/ (b.src # 0 /\ mapping[b.src] = "part")

\* With every kind of mapping: nobody closes or maps anew a source that a
\* buffer in use points into, except that one mapped in part moves for a reader
\* of the same source; and what is hashed has just been read, and is there.
BuffersUsable ==
    /\ mainpc = "hash" => bufs[0].ok
    /\ mainpc \in {"place", "compare"} => Backed(bufs[0])
    /\ mainpc = "compare" => Backed(bufs[1])
    /\ \A t \in Team : team[t].pc = "compare" => Backed(bufs[0]) /\ Backed(bufs[t])

\* A source is open as often as it is listed, once at most; the current one is;
\* and no more than max_open are whenever the cache may close some.
OpenSourcesListed ==
    /\ \A s \in Scheduled : at.pass > 0 => opened[s] = Cardinality({i \in DOMAIN open_list : open_list[i] = s})
    /\ at.pass > 0 => \A s \in Scheduled : opened[s] \in {0, 1}
    /\ mainpc \in {"block", "hash", "search", "next"} => opened[at.a] = 1
    /\ (can_close /\ at.pass \in 1 .. 2) => Len(open_list) <= MaxOpen[at.pass]

\* However many threads find an identical block, and although one that finds
\* the lock taken gives up, exactly one is appended to the list.
MatchAppendedOnce ==
    (mainpc = "search" /\ TeamDone) =>
       identical.appended = IF identical.matches > 0 THEN 1 ELSE 0

\* Both passes of the flush read sources that are open, in buffers that are
\* there as far as the mappings allow, and the team of the first appends one
\* match for each block.
SourcesUsable == BuffersUsable /\ OpenSourcesListed /\ MatchAppendedOnce
=============================================================================
