--------------------------- MODULE LibraryProofs ----------------------------
(***************************************************************************)
(* What is proved of the library's parts, one after the other:             *)
(*   - the data sources of a flush: the sources that are read are open, no *)
(*     buffer in use loses its memory but to the next reader of a file     *)
(*     mapped in part, and one match is appended for each block            *)
(*     (SourcesRight, SourcesListed);                                      *)
(*   - the command line: what main checks of the settings holds together,  *)
(*     in whichever order the options came (SettingsSafe);                 *)
(*   - the vectors in a mapped file: they have what arrays would have, and *)
(*     the inode table stays in its place (VectorsSafe, PointersSafe);     *)
(*   - the writing of files: each block at its place (FileSafe);           *)
(*   - the search for LZMA parameters: the best of what was to be tried    *)
(*     (BestFound).                                                        *)
(***************************************************************************)
EXTENDS Sources, Options, MmapVector, FileWrite, LzmaSearch, SequenceTheorems, FiniteSetTheorems,
    WellFoundedInduction, TLAPS

-----------------------------------------------------------------------------
(* The data sources: the inductive invariant.                               *)

(* A block of a source. *)
IsBlock(b) ==
    /\ b = <<b[1], b[2]>> /\ b[1] \in Scheduled
    /\ b[2] \in Nat /\ b[2] < SourceSizes[b[1]]

IsListed(list, s) == \E i \in 1 .. Len(list) : list[i] = s

Listed(s) == IsListed(open_list, s)

\* The cache's list names sources, none of them twice.
GoodList(list) ==
    /\ list \in Seq(Scheduled)
    /\ \A i, j \in 1 .. Len(list) : list[i] = list[j] => i = j

\* While the cache must not close anything.
Held == {"search", "reread", "rereadother", "compare", "place"}

LoopPlace ==
    /\ mainpc \in Held \cup {"open", "block", "hash", "next", "end"}
    /\ at = [pass |-> at.pass, a |-> at.a, p |-> at.p]
    /\ at.pass \in 1 .. 3 /\ at.a \in Scheduled
    /\ at.p \in Nat /\ at.p < SourceSizes[at.a]
    /\ at.pass = 3 <=> mainpc = "end"
    /\ can_close \in BOOLEAN /\ (can_close <=> mainpc \notin Held)

CacheRight ==
    /\ GoodList(open_list)
    /\ opened = [s \in Scheduled |-> IF Listed(s) THEN 1 ELSE 0]
    /\ DOMAIN mapped = Scheduled
    /\ mainpc \notin {"open", "end"} => Listed(at.a)
    /\ can_close /\ at.pass \in 1 .. 2 => Len(open_list) <= MaxOpen[at.pass]

TeamPlaces == {"pick", "get", "size", "compare", "try", "append", "done"}

\* A thread that compares has a block of a source that is open.
GoodThread(r, list) ==
    /\ r = [pc |-> r.pc, other |-> r.other] /\ r.pc \in TeamPlaces
    /\ r.pc \in {"get", "size", "compare"} => IsBlock(r.other)
    /\ r.pc \in {"size", "compare"} => IsListed(list, r.other[1])

TeamRight ==
    /\ DOMAIN team = Team
    /\ \A t \in Team : /\ GoodThread(team[t], open_list)
                       /\ mainpc # "search" => team[t].pc = "done"
    /\ \A c \in candidates : IsBlock(c)
    /\ mainpc \in {"reread", "rereadother"} => \A c \in candidates : Listed(c[1])

SourcesInv == LoopPlace /\ CacheRight /\ TeamRight

\* The lock is with the thread that appends; a match that was counted is
\* appended or on its way.
MatchInv ==
    /\ identical = [found |-> identical.found, lock |-> identical.lock,
                    matches |-> identical.matches, appended |-> identical.appended]
    /\ identical.found \in BOOLEAN /\ identical.lock \in {0} \cup Team
    /\ identical.matches \in Nat
    /\ identical.appended = IF identical.found THEN 1 ELSE 0
    /\ \A t \in Team : team[t].pc = "append" <=> identical.lock = t
    /\ identical.matches = 0 =>
         ~identical.found /\ \A t \in Team : team[t].pc \notin {"try", "append"}
    /\ identical.matches > 0 =>
         \/ identical.found \/ identical.lock # 0
         \/ \E t \in Team : team[t].pc = "try"

\* Sources that are not mapped in part are mapped as a whole or not at all, and
\* the buffers in use are there, or have lost a mapping in part.
BufsInv ==
    /\ \A s \in Scheduled : mapping[s] # "part" => mapped[s] \in {{}, 0 .. SourceSizes[s] - 1}
    /\ mapping \in [Scheduled -> Mappings]
    /\ DOMAIN bufs = {0} \cup Team
    /\ \A i \in DOMAIN bufs : bufs[i] = [src |-> bufs[i].src, ok |-> bufs[i].ok]
    /\ mainpc = "hash" => bufs[0].ok
    /\ mainpc \in {"search", "rereadother", "compare", "place"} => Backed(bufs[0])
    /\ mainpc = "compare" => Backed(bufs[1])
    /\ \A t \in Team : team[t].pc = "compare" => Backed(bufs[t])

-----------------------------------------------------------------------------
(* The list of open sources.                                                *)

(* Taking an element out of a sequence.                                      *)
LEMMA WithoutOne ==
    ASSUME NEW S, NEW l \in Seq(S), NEW i \in 1 .. Len(l)
    PROVE  /\ RemoveAt(l, i) \in Seq(S) /\ Len(RemoveAt(l, i)) = Len(l) - 1
           /\ \A j \in 1 .. Len(l) - 1 : RemoveAt(l, i)[j] = IF j < i THEN l[j] ELSE l[j + 1]
<1> DEFINE u == SubSeq(l, 1, i - 1)
           v == SubSeq(l, i + 1, Len(l))
<1>1. u \in Seq(S) /\ Len(u) = i - 1 /\ \A j \in 1 .. i - 1 : u[j] = l[j]
  OBVIOUS
<1>2. v \in Seq(S) /\ Len(v) = Len(l) - i /\ \A j \in 1 .. Len(l) - i : v[j] = l[i + j]
  OBVIOUS
<1>3. RemoveAt(l, i) = u \o v
  BY DEF RemoveAt
<1> HIDE DEF u, v
<1>4. u \o v \in Seq(S) /\ Len(u \o v) = Len(l) - 1
  BY <1>1, <1>2
<1>5. ASSUME NEW j \in 1 .. Len(l) - 1
      PROVE  (u \o v)[j] = IF j < i THEN l[j] ELSE l[j + 1]
  <2>1. CASE j < i
    BY <1>1, <1>2, <2>1
  <2>2. CASE ~(j < i)
    <3>1. (u \o v)[j] = v[j - (i - 1)]
      BY <1>1, <1>2, <2>2
    <3>2. v[j - (i - 1)] = l[i + (j - (i - 1))]
      BY <1>2, <2>2
    <3> QED BY <3>1, <3>2, <2>2
  <2> QED BY <2>1, <2>2
<1> QED BY <1>3, <1>4, <1>5

(* Get puts the source in front and keeps the others.                        *)
LEMMA FrontList ==
    ASSUME GoodList(open_list), NEW s \in Scheduled
    PROVE  /\ GoodList(InFront(s)) /\ InFront(s) # <<>> /\ InFront(s)[1] = s
           /\ \A x \in Scheduled : IsListed(InFront(s), x) <=> x = s \/ Listed(x)
<1> DEFINE l == open_list
           o == Others(s)
<1>1. l \in Seq(Scheduled) /\ \A i, j \in 1 .. Len(l) : l[i] = l[j] => i = j
  BY DEF GoodList
<1>2. DOMAIN l = 1 .. Len(l)
  BY <1>1
<1>3. /\ o \in Seq(Scheduled)
      /\ \A i, j \in 1 .. Len(o) : o[i] = o[j] => i = j
      /\ \A i \in 1 .. Len(o) : o[i] # s /\ \E j \in 1 .. Len(l) : l[j] = o[i]
      /\ \A j \in 1 .. Len(l) : l[j] # s => \E i \in 1 .. Len(o) : l[j] = o[i]
  <2>1. CASE s \in ToSet(open_list)
    <3>1. PICK i \in 1 .. Len(l) : i = CHOOSE k \in DOMAIN open_list : open_list[k] = s
      BY <1>2, <2>1 DEF ToSet
    <3>2. l[i] = s
      BY <1>2, <2>1, <3>1 DEF ToSet
    <3>3. o = RemoveAt(l, i)
      BY <2>1, <3>1 DEF Others
    <3> HIDE DEF o, l
    <3>4. /\ o \in Seq(Scheduled) /\ Len(o) = Len(l) - 1
          /\ \A j \in 1 .. Len(l) - 1 : o[j] = IF j < i THEN l[j] ELSE l[j + 1]
      BY <1>1, <3>3, WithoutOne
    <3>5. \A j, k \in 1 .. Len(o) : o[j] = o[k] => j = k
      BY <1>1, <3>4, SMTT(60)
    <3>6. ASSUME NEW j \in 1 .. Len(o) PROVE o[j] # s /\ \E k \in 1 .. Len(l) : l[k] = o[j]
      <4>1. PICK k \in 1 .. Len(l) : k = IF j < i THEN j ELSE j + 1
        BY <1>1, <3>4
      <4>2. o[j] = l[k] /\ k # i
        BY <3>4, <4>1
      <4> QED BY <1>1, <3>2, <4>2
    <3>7. ASSUME NEW j \in 1 .. Len(l), l[j] # s PROVE \E k \in 1 .. Len(o) : l[j] = o[k]
      <4>1. j # i
        BY <3>2, <3>7
      <4>2. PICK k \in 1 .. Len(o) : k = IF j < i THEN j ELSE j - 1
        BY <1>1, <3>4, <4>1
      <4>3. o[k] = l[j]
        BY <3>4, <4>1, <4>2
      <4> QED BY <4>3
    <3> QED BY <3>4, <3>5, <3>6, <3>7
  <2>2. CASE s \notin ToSet(open_list)
    <3>1. o = l
      BY <2>2 DEF Others
    <3>2. \A i \in 1 .. Len(l) : l[i] # s
      BY <1>2, <2>2 DEF ToSet
    <3> QED BY <1>1, <3>1, <3>2
  <2> QED BY <2>1, <2>2
<1>4. InFront(s) = <<s>> \o o
  BY DEF InFront
<1> HIDE DEF o, l
<1>5. /\ InFront(s) \in Seq(Scheduled) /\ Len(InFront(s)) = Len(o) + 1 /\ InFront(s)[1] = s
      /\ \A i \in 1 .. Len(o) : InFront(s)[i + 1] = o[i]
  BY <1>3, <1>4
<1> DEFINE f == InFront(s)
<1> HIDE DEF f
<1>6. /\ f \in Seq(Scheduled) /\ Len(f) = Len(o) + 1 /\ f[1] = s
      /\ \A i \in 2 .. Len(o) + 1 : f[i] = o[i - 1] /\ i - 1 \in 1 .. Len(o)
  <2>1. ASSUME NEW i \in 2 .. Len(o) + 1 PROVE f[i] = o[i - 1] /\ i - 1 \in 1 .. Len(o)
    <3>1. i - 1 \in 1 .. Len(o) /\ (i - 1) + 1 = i
      BY <1>3
    <3> QED BY <1>5, <3>1 DEF f
  <2> QED BY <1>5, <2>1 DEF f
<1>7. \A i, j \in 1 .. Len(f) : f[i] = f[j] => i = j
  <2> SUFFICES ASSUME NEW i \in 1 .. Len(f), NEW j \in 1 .. Len(f), f[i] = f[j] PROVE i = j
    OBVIOUS
  <2>1. CASE i = 1 /\ j # 1
    <3>1. j \in 2 .. Len(o) + 1
      BY <1>3, <1>6, <2>1
    <3> QED BY <1>3, <1>6, <2>1, <3>1
  <2>2. CASE i # 1 /\ j = 1
    <3>1. i \in 2 .. Len(o) + 1
      BY <1>3, <1>6, <2>2
    <3> QED BY <1>3, <1>6, <2>2, <3>1
  <2>3. CASE i # 1 /\ j # 1
    <3>1. i - 1 \in 1 .. Len(o) /\ j - 1 \in 1 .. Len(o) /\ o[i - 1] = o[j - 1]
      BY <1>3, <1>6, <2>3
    <3>2. i - 1 = j - 1
      BY <1>3, <3>1
    <3> QED BY <3>2
  <2> QED BY <2>1, <2>2, <2>3
<1>8. ASSUME NEW x \in Scheduled, IsListed(f, x) PROVE x = s \/ IsListed(l, x)
  <2>1. PICK i \in 1 .. Len(f) : f[i] = x
    BY <1>8 DEF IsListed
  <2>2. CASE i = 1
    BY <1>6, <2>1, <2>2
  <2>3. CASE i # 1
    <3>1. i \in 2 .. Len(o) + 1
      BY <1>3, <1>6, <2>1, <2>3
    <3>2. PICK k \in 1 .. Len(o) : x = o[k]
      BY <1>6, <2>1, <3>1
    <3>3. PICK j \in 1 .. Len(l) : l[j] = o[k]
      BY <1>3
    <3> QED BY <3>2, <3>3 DEF IsListed
  <2> QED BY <2>2, <2>3
<1>9. ASSUME NEW x \in Scheduled, x = s \/ IsListed(l, x) PROVE IsListed(f, x)
  <2>1. CASE x = s
    BY <1>3, <1>6, <2>1 DEF IsListed
  <2>2. CASE x # s
    <3>1. PICK j \in 1 .. Len(l) : l[j] = x
      BY <1>9, <2>2 DEF IsListed
    <3>2. PICK i \in 1 .. Len(o) : o[i] = x
      BY <1>3, <2>2, <3>1
    <3>3. i + 1 \in 1 .. Len(f) /\ f[i + 1] = x
      BY <1>3, <1>5, <1>6, <3>2 DEF f
    <3> QED BY <3>3 DEF IsListed
  <2> QED BY <2>1, <2>2
<1>10. f # <<>>
  BY <1>3, <1>6
<1> QED BY <1>6, <1>7, <1>8, <1>9, <1>10 DEF f, l, GoodList, Listed

(* A prefix of a list is a list.                                             *)
LEMMA ShorterList ==
    ASSUME NEW l, GoodList(l), l # <<>>, NEW n \in Nat \ {0}, n < Len(l)
    PROVE  /\ GoodList(SubSeq(l, 1, n)) /\ Len(SubSeq(l, 1, n)) = n
           /\ SubSeq(l, 1, n)[1] = l[1]
           /\ \A x : IsListed(SubSeq(l, 1, n), x) => IsListed(l, x)
<1>1. l \in Seq(Scheduled) /\ \A i, j \in 1 .. Len(l) : l[i] = l[j] => i = j
  BY DEF GoodList
<1> DEFINE u == SubSeq(l, 1, n)
<1>2. u \in Seq(Scheduled) /\ Len(u) = n /\ \A i \in 1 .. n : u[i] = l[i] /\ i \in 1 .. Len(l)
  BY <1>1
<1> HIDE DEF u
<1>3. GoodList(u) /\ \A x : IsListed(u, x) => IsListed(l, x)
  BY <1>1, <1>2 DEF GoodList, IsListed
<1> QED BY <1>2, <1>3 DEF u

(* What schedule_cache::Get does to the cache; it closes nothing unless it   *)
(* may.                                                                      *)
Opened(list) == [s \in Scheduled |-> IF IsListed(list, s) THEN 1 ELSE 0]

LEMMA GetKeeps ==
    ASSUME GoodList(open_list), opened = Opened(open_list), DOMAIN mapped = Scheduled,
           at.pass \in 1 .. 2, NEW s \in Scheduled, NEW mc \in BOOLEAN, Get(s, mc)
    PROVE  /\ GoodList(open_list') /\ opened' = Opened(open_list') /\ DOMAIN mapped' = Scheduled
           /\ IsListed(open_list', s)
           /\ mc => Len(open_list') <= MaxOpen[at.pass]
           /\ ~mc => /\ \A x \in Scheduled : Listed(x) => IsListed(open_list', x)
                     /\ \A i \in DOMAIN bufs : bufs'[i] = bufs[i]
           /\ \A x \in Scheduled : mapped'[x] \in {mapped[x], {}, MapAtOpen(x)}
           /\ DOMAIN bufs' = DOMAIN bufs
<1> DEFINE l == InFront(s)
<1>1. /\ GoodList(l) /\ l # <<>> /\ l[1] = s
      /\ \A x \in Scheduled : IsListed(l, x) <=> x = s \/ Listed(x)
  BY FrontList
<1>2. MaxOpen[at.pass] \in Nat \ {0}
  BY SourcesParameters
<1>3. open_list' = IF mc /\ Len(l) > MaxOpen[at.pass] THEN SubSeq(l, 1, MaxOpen[at.pass]) ELSE l
  BY DEF Get
<1> DEFINE gone == ToSet(open_list) \ ToSet(open_list')
           new == s \notin ToSet(open_list)
<1>4. /\ mapped' = [x \in Scheduled |-> IF x \in gone THEN {}
                                        ELSE IF x = s /\ new THEN MapAtOpen(s) ELSE mapped[x]]
      /\ opened' = [x \in Scheduled |-> IF x \in gone THEN opened[x] - 1
                                        ELSE IF x = s /\ new THEN opened[x] + 1 ELSE opened[x]]
      /\ bufs' = [i \in DOMAIN bufs |-> Closed(bufs[i], gone)]
  BY DEF Get
<1>5. l \in Seq(Scheduled) /\ Len(l) \in Nat /\ Len(l) # 0
  BY <1>1 DEF GoodList
<1> HIDE DEF l
<1>6. /\ GoodList(open_list') /\ open_list' # <<>> /\ open_list'[1] = s
      /\ mc => Len(open_list') <= MaxOpen[at.pass]
      /\ \A x \in Scheduled : IsListed(open_list', x) => IsListed(l, x)
      /\ ~mc => open_list' = l
  <2>1. CASE mc /\ Len(l) > MaxOpen[at.pass]
    <3>1. PICK n \in Nat \ {0} : n = MaxOpen[at.pass]
      BY <1>2
    <3>2. n < Len(l) /\ open_list' = SubSeq(l, 1, n)
      BY <1>3, <1>5, <2>1, <3>1
    <3>3. /\ GoodList(SubSeq(l, 1, n)) /\ Len(SubSeq(l, 1, n)) = n
          /\ SubSeq(l, 1, n)[1] = l[1]
          /\ \A x : IsListed(SubSeq(l, 1, n), x) => IsListed(l, x)
      BY <1>1, <3>2, ShorterList
    <3>4. open_list' # <<>>
      BY <3>2, <3>3
    <3> QED BY <1>1, <2>1, <3>1, <3>2, <3>3, <3>4
  <2>2. CASE ~(mc /\ Len(l) > MaxOpen[at.pass])
    BY <1>1, <1>2, <1>3, <1>5, <2>2
  <2> QED BY <2>1, <2>2
<1>7. IsListed(open_list', s)
  <2>1. open_list' \in Seq(Scheduled) /\ Len(open_list') # 0
    BY <1>6 DEF GoodList
  <2> QED BY <1>6, <2>1 DEF IsListed
<1>8. \A x \in Scheduled : /\ x \in ToSet(open_list) <=> Listed(x)
                           /\ x \in ToSet(open_list') <=> IsListed(open_list', x)
  <2>1. open_list \in Seq(Scheduled) /\ open_list' \in Seq(Scheduled)
    BY <1>6 DEF GoodList
  <2> QED BY <2>1 DEF ToSet, Listed, IsListed
<1>9. \A x \in Scheduled : x \in gone <=> Listed(x) /\ ~IsListed(open_list', x)
  BY <1>8
<1>10. new <=> ~Listed(s)
  BY <1>8
<1> HIDE DEF gone, new
<1>11. opened' = Opened(open_list')
  <2>1. \A x \in Scheduled : opened[x] = IF Listed(x) THEN 1 ELSE 0
    BY DEF Opened, Listed
  <2>2. ASSUME NEW x \in Scheduled
        PROVE  opened'[x] = IF IsListed(open_list', x) THEN 1 ELSE 0
    <3>1. CASE x \in gone
      BY <1>4, <1>9, <2>1, <3>1
    <3>2. CASE x \notin gone /\ x = s /\ new
      BY <1>4, <1>7, <1>10, <2>1, <3>2
    <3>3. CASE x \notin gone /\ ~(x = s /\ new)
      <4>1. opened'[x] = opened[x]
        BY <1>4, <3>3
      <4>2. IsListed(open_list', x) <=> Listed(x)
        BY <1>1, <1>6, <1>7, <1>9, <1>10, <3>3
      <4> QED BY <2>1, <4>1, <4>2
    <3> QED BY <3>1, <3>2, <3>3
  <2>3. DOMAIN opened' = Scheduled
    BY <1>4
  <2>4. opened' = [x \in Scheduled |-> opened'[x]]
    BY <1>4
  <2> QED BY <2>2, <2>4 DEF Opened
<1>12. ASSUME ~mc PROVE /\ \A x \in Scheduled : Listed(x) => IsListed(open_list', x)
                        /\ \A i \in DOMAIN bufs : bufs'[i] = bufs[i]
  <2>1. \A x \in Scheduled : Listed(x) => IsListed(open_list', x)
    BY <1>1, <1>6, <1>12
  <2>2. gone = {}
    <3>1. gone \subseteq Scheduled
      <4>1. open_list \in Seq(Scheduled)
        BY DEF GoodList
      <4> QED BY <4>1 DEF gone, ToSet
    <3> QED BY <1>9, <2>1, <3>1
  <2> QED BY <1>4, <2>1, <2>2 DEF Closed
<1>13. \A x \in Scheduled : mapped'[x] \in {mapped[x], {}, MapAtOpen(x)}
  BY <1>4
<1> QED BY <1>4, <1>6, <1>7, <1>11, <1>12, <1>13

-----------------------------------------------------------------------------
(* The steps of the data sources.                                            *)

(* The list as the invariant has it.                                         *)
LEMMA CacheLists ==
    ASSUME SourcesInv
    PROVE  GoodList(open_list) /\ opened = Opened(open_list) /\ DOMAIN mapped = Scheduled
  BY DEF SourcesInv, CacheRight, Opened, Listed

(* Steps that open and close nothing.                                        *)
LEMMA CacheSame ==
    ASSUME SourcesInv, open_list' = open_list, opened' = opened, DOMAIN mapped' = DOMAIN mapped,
           mainpc' \notin {"open", "end"} => Listed(at.a)' /\ at.a' \in Scheduled,
           can_close' /\ at.pass' \in 1 .. 2 => can_close /\ at.pass' = at.pass
    PROVE  CacheRight' /\ (\A x : Listed(x)' <=> Listed(x))
<1>1. \A x : Listed(x)' <=> Listed(x)
  BY DEF Listed
<1> QED BY <1>1 DEF SourcesInv, CacheRight, Listed

(* Reading changes no more than buffers and mappings.                        *)
LEMMA ReadDomains ==
    ASSUME NEW i, NEW s, NEW p, Read(i, s, p)
    PROVE  DOMAIN mapped' = DOMAIN mapped /\ DOMAIN bufs' = DOMAIN bufs
  BY DEF Read

LEMMA SourcesInitial == SourcesInit => SourcesInv
<1> SUFFICES ASSUME SourcesInit PROVE SourcesInv
  OBVIOUS
<1>1. 1 \in Scheduled /\ SourceSizes[1] \in Nat \ {0}
  BY SourcesParameters DEF Scheduled
<1>2. LoopPlace
  BY <1>1 DEF SourcesInit, LoopPlace, Held
<1>3. CacheRight
  <2>1. open_list = <<>> /\ Len(open_list) = 0 /\ open_list \in Seq(Scheduled)
    BY DEF SourcesInit
  <2>2. MaxOpen[1] \in Nat /\ MaxOpen[2] \in Nat
    BY SourcesParameters
  <2>3. at.pass = 1 /\ opened = [s \in Scheduled |-> 0] /\ mainpc = "open"
        /\ DOMAIN mapped = Scheduled
    BY DEF SourcesInit
  <2>4. \A s : ~Listed(s)
    BY <2>1 DEF Listed, IsListed
  <2>5. GoodList(open_list)
    BY <2>1 DEF GoodList
  <2> QED BY <2>1, <2>2, <2>3, <2>4, <2>5 DEF CacheRight
<1>4. TeamRight
  BY DEF SourcesInit, NoTeam, TeamRight, TeamPlaces, GoodThread
<1> QED BY <1>2, <1>3, <1>4 DEF SourcesInv

(* The loops go on to a place that is there.                                 *)
LEMMA AdvancedPlace ==
    ASSUME LoopPlace, at.pass \in 1 .. 2
    PROVE  /\ Advanced = [pass |-> Advanced.pass, a |-> Advanced.a, p |-> Advanced.p]
           /\ Advanced.pass \in {at.pass, at.pass + 1} /\ Advanced.a \in Scheduled
           /\ Advanced.p \in Nat /\ Advanced.p < SourceSizes[Advanced.a]
<1>1. /\ Scheduled = 1 .. Len(SourceSizes) /\ Len(SourceSizes) \in Nat \ {0}
      /\ \A s \in Scheduled : SourceSizes[s] \in Nat \ {0}
  BY SourcesParameters DEF Scheduled
<1>2. at = [pass |-> at.pass, a |-> at.a, p |-> at.p] /\ at.a \in Scheduled /\ at.p \in Nat
  BY DEF LoopPlace
<1>3. CASE at.p + 1 < SourceSizes[at.a]
  <2>1. Advanced = [pass |-> at.pass, a |-> at.a, p |-> at.p + 1]
    BY <1>2, <1>3 DEF Advanced
  <2> QED BY <1>2, <1>3, <2>1
<1>4. CASE ~(at.p + 1 < SourceSizes[at.a]) /\ at.a < Len(SourceSizes)
  <2>1. Advanced = [pass |-> at.pass, a |-> at.a + 1, p |-> 0]
    BY <1>2, <1>4 DEF Advanced
  <2> QED BY <1>1, <1>2, <1>4, <2>1
<1>5. CASE ~(at.p + 1 < SourceSizes[at.a]) /\ ~(at.a < Len(SourceSizes))
  <2>1. Advanced = [pass |-> at.pass + 1, a |-> 1, p |-> 0]
    BY <1>5 DEF Advanced
  <2> QED BY <1>1, <2>1
<1> QED BY <1>3, <1>4, <1>5

LEMMA OpenCurrentStep == ASSUME SourcesInv, OpenCurrent PROVE SourcesInv'
<1>1. /\ mainpc = "open" /\ Get(at.a, can_close) /\ mainpc' = "block"
      /\ can_close' = can_close /\ at' = at /\ team' = team /\ candidates' = candidates
  BY DEF OpenCurrent
<1>2. at.pass \in 1 .. 2 /\ at.a \in Scheduled /\ can_close \in BOOLEAN /\ can_close
  BY <1>1 DEF SourcesInv, LoopPlace, Held
<1>3. /\ GoodList(open_list') /\ opened' = Opened(open_list') /\ DOMAIN mapped' = Scheduled
      /\ IsListed(open_list', at.a) /\ Len(open_list') <= MaxOpen[at.pass]
  BY <1>1, <1>2, CacheLists, GetKeeps
<1>4. LoopPlace'
  BY <1>1 DEF SourcesInv, LoopPlace, Held
<1>5. CacheRight'
  BY <1>1, <1>2, <1>3 DEF CacheRight, Opened, Listed
<1>6. TeamRight'
  BY <1>1 DEF SourcesInv, TeamRight, GoodThread
<1> QED BY <1>4, <1>5, <1>6 DEF SourcesInv

LEMMA NextBlockStep == ASSUME SourcesInv, NextBlock PROVE SourcesInv'
<1>1. /\ mainpc = "next" /\ Advanced.pass = at.pass /\ at' = Advanced
      /\ mainpc' = (IF Advanced.a = at.a THEN "block" ELSE "open")
      /\ open_list' = open_list /\ opened' = opened /\ mapped' = mapped
      /\ can_close' = can_close /\ team' = team /\ candidates' = candidates
  BY DEF NextBlock, SourceOver
<1>2. at.pass \in 1 .. 2 /\ can_close \in BOOLEAN /\ can_close /\ Listed(at.a)
  BY <1>1 DEF SourcesInv, LoopPlace, CacheRight, Held
<1>3. /\ at' = [pass |-> at'.pass, a |-> at'.a, p |-> at'.p]
      /\ at'.pass = at.pass /\ at'.a \in Scheduled
      /\ at'.p \in Nat /\ at'.p < SourceSizes[at'.a]
  BY <1>1, <1>2, AdvancedPlace DEF SourcesInv
<1>4. LoopPlace'
  BY <1>1, <1>2, <1>3 DEF LoopPlace, Held
<1>5. CacheRight'
  BY <1>1, <1>2, <1>3, CacheSame DEF Listed
<1>6. TeamRight'
  BY <1>1 DEF SourcesInv, TeamRight
<1> QED BY <1>4, <1>5, <1>6 DEF SourcesInv

(* A source is open as often as it is listed, once at most.                  *)
LEMMA ListedOnce ==
    ASSUME SourcesInv, NEW s \in Scheduled
    PROVE  opened[s] = Cardinality({i \in DOMAIN open_list : open_list[i] = s})
<1>1. /\ open_list \in Seq(Scheduled)
      /\ \A i, j \in 1 .. Len(open_list) : open_list[i] = open_list[j] => i = j
      /\ opened[s] = IF Listed(s) THEN 1 ELSE 0
  BY DEF SourcesInv, CacheRight, GoodList
<1>2. DOMAIN open_list = 1 .. Len(open_list)
  BY <1>1
<1> DEFINE I == {i \in DOMAIN open_list : open_list[i] = s}
<1>3. CASE Listed(s)
  <2>1. PICK i \in 1 .. Len(open_list) : open_list[i] = s
    BY <1>3 DEF Listed, IsListed
  <2>2. I = {i}
    BY <1>1, <1>2, <2>1
  <2> HIDE DEF I
  <2>3. Cardinality(I) = 1
    BY <2>2, FS_Singleton
  <2> QED BY <1>1, <1>3, <2>3 DEF I
<1>4. CASE ~Listed(s)
  <2>1. I = {}
    BY <1>2, <1>4 DEF Listed, IsListed
  <2> HIDE DEF I
  <2>2. Cardinality(I) = 0
    BY <2>1, FS_EmptySet
  <2> QED BY <1>1, <1>4, <2>2 DEF I
<1> QED BY <1>3, <1>4

LEMMA CloseCacheStep == ASSUME SourcesInv, CloseCache PROVE SourcesInv'
<1>1. /\ mainpc = "next" /\ Advanced.pass # at.pass /\ at' = Advanced
      /\ mainpc' = (IF at.pass = 1 THEN "open" ELSE "end")
      /\ open_list' = <<>> /\ mapped' = [s \in Scheduled |-> {}]
      /\ opened' = [s \in Scheduled |-> opened[s] - Cardinality({i \in DOMAIN open_list : open_list[i] = s})]
      /\ can_close' = can_close /\ team' = team /\ candidates' = candidates
  BY DEF CloseCache, SourceOver
<1>2. at.pass \in 1 .. 2 /\ can_close \in BOOLEAN /\ can_close
  BY <1>1 DEF SourcesInv, LoopPlace, Held
<1>3. /\ at' = [pass |-> at'.pass, a |-> at'.a, p |-> at'.p]
      /\ at'.pass = at.pass + 1 /\ at'.a \in Scheduled
      /\ at'.p \in Nat /\ at'.p < SourceSizes[at'.a]
  BY <1>1, <1>2, AdvancedPlace DEF SourcesInv
<1>4. LoopPlace'
  BY <1>1, <1>2, <1>3 DEF LoopPlace, Held
<1>5. CacheRight'
  <2>1. \A s \in Scheduled :
           opened[s] = Cardinality({i \in DOMAIN open_list : open_list[i] = s})
    BY ListedOnce
  <2>2. \A s \in Scheduled : opened[s] \in {0, 1}
    BY DEF SourcesInv, CacheRight
  <2>3. ASSUME NEW s \in Scheduled PROVE opened'[s] = 0
    <3>1. opened'[s] = opened[s] - Cardinality({i \in DOMAIN open_list : open_list[i] = s})
      BY <1>1
    <3>2. opened'[s] = opened[s] - opened[s]
      BY <2>1, <3>1, Zenon
    <3> QED BY <2>2, <3>2
  <2>4. opened' = [s \in Scheduled |-> 0]
    BY <1>1, <2>3
  <2>5. \A s : ~Listed(s)'
    BY <1>1 DEF Listed, IsListed
  <2>6. GoodList(open_list') /\ Len(open_list') = 0
    BY <1>1 DEF GoodList
  <2>7. MaxOpen[1] \in Nat /\ MaxOpen[2] \in Nat
    BY SourcesParameters
  <2>8. at'.pass \in 1 .. 2 => Len(open_list') <= MaxOpen[at'.pass]
    BY <1>2, <1>3, <2>6, <2>7
  <2> QED BY <1>1, <2>4, <2>5, <2>6, <2>8 DEF CacheRight
<1>6. TeamRight'
  BY <1>1 DEF SourcesInv, TeamRight, GoodThread
<1> QED BY <1>4, <1>5, <1>6 DEF SourcesInv

(* Steps of the loops that open and close nothing.                           *)
LEMMA QuietStep ==
    ASSUME SourcesInv, ReadBlock \/ NoCheck \/ BlockifyOwn \/ Reread \/ RereadOther \/ NotIdentical
    PROVE  SourcesInv'
<1>1. /\ open_list' = open_list /\ opened' = opened /\ at' = at /\ team' = team
      /\ candidates' = candidates
  BY DEF ReadBlock, NoCheck, BlockifyOwn, Reread, RereadOther, NotIdentical
<1>2. DOMAIN mapped' = DOMAIN mapped
  BY ReadDomains DEF ReadBlock, NoCheck, BlockifyOwn, Reread, RereadOther, NotIdentical
<1>3. /\ \/ mainpc = "block" /\ mainpc' = "hash" /\ can_close' = can_close
         \/ mainpc = "hash" /\ mainpc' = "next" /\ can_close' = can_close
         \/ mainpc = "block" /\ mainpc' = "place" /\ can_close' = FALSE
         \/ mainpc = "reread" /\ mainpc' = "rereadother" /\ can_close' = can_close
         \/ mainpc = "rereadother" /\ mainpc' = "compare" /\ can_close' = can_close
         \/ mainpc = "compare" /\ mainpc' = "place" /\ can_close' = can_close
  BY DEF ReadBlock, NoCheck, BlockifyOwn, Reread, RereadOther, NotIdentical, MayClose
<1>4. LoopPlace'
  <2>1. at' = at /\ (at.pass = 3 <=> mainpc' = "end")
    BY <1>1, <1>3 DEF SourcesInv, LoopPlace
  <2>2. mainpc' \in Held \cup {"open", "block", "hash", "next", "end"}
    BY <1>3 DEF Held
  <2>3. can_close' \in BOOLEAN /\ (can_close' <=> mainpc' \notin Held)
    <3>1. can_close \in BOOLEAN /\ (can_close <=> mainpc \notin Held)
      BY DEF SourcesInv, LoopPlace
    <3>2. CASE can_close' = can_close
      <4>1. mainpc' \in Held <=> mainpc \in Held
        <5>1. mainpc # "block" \/ mainpc' = "hash" \/ (mainpc' = "place" /\ ~can_close')
          BY <1>3
        <5>2. mainpc = "block" => can_close
          BY <3>1 DEF Held
        <5> QED BY <1>3, <3>2, <5>1, <5>2 DEF Held
      <4> QED BY <3>1, <3>2, <4>1
    <3>3. CASE mainpc' = "place" /\ can_close' = FALSE
      BY <3>3 DEF Held
    <3> QED BY <1>3, <3>2, <3>3
  <2> QED BY <2>1, <2>2, <2>3 DEF SourcesInv, LoopPlace
<1>5. CacheRight' /\ \A x : Listed(x)' <=> Listed(x)
  <2>1. Listed(at.a)' /\ at.a' \in Scheduled
    BY <1>1, <1>3 DEF SourcesInv, LoopPlace, CacheRight, Listed
  <2>2. can_close' => can_close
    BY <1>3
  <2> QED BY <1>1, <1>2, <2>1, <2>2, CacheSame
<1>6. TeamRight'
  BY <1>1, <1>3, <1>5 DEF SourcesInv, TeamRight
<1> QED BY <1>4, <1>5, <1>6 DEF SourcesInv

(* What may have the same hash is a block.                                   *)
LEMMA EarlierBlocks == ASSUME LoopPlace, NEW b \in Earlier PROVE IsBlock(b)
<1>1. /\ Scheduled = 1 .. Len(SourceSizes) /\ Len(SourceSizes) \in Nat
      /\ \A s \in Scheduled : SourceSizes[s] \in Nat
  BY SourcesParameters DEF Scheduled
<1>2. at.a \in Scheduled
  BY DEF LoopPlace
<1>3. PICK s \in 1 .. at.a : b \in {s} \X (0 .. SourceSizes[s] - 1)
  BY DEF Earlier
<1>4. s \in Scheduled
  BY <1>1, <1>2
<1>5. b = <<b[1], b[2]>> /\ b[1] = s /\ b[2] \in 0 .. SourceSizes[s] - 1
  BY <1>3
<1> QED BY <1>1, <1>4, <1>5 DEF IsBlock

LEMMA CheckHashStep == ASSUME SourcesInv, CheckHash PROVE SourcesInv'
<1>1. /\ mainpc = "hash" /\ mainpc' = "search" /\ can_close' = FALSE
      /\ \A c \in candidates' : c \in Earlier
      /\ team' = [t \in Team |-> [pc |-> "pick", other |-> <<0, 0>>]]
      /\ open_list' = open_list /\ opened' = opened /\ mapped' = mapped /\ at' = at
  BY DEF CheckHash, MayClose
<1>2. LoopPlace'
  BY <1>1 DEF SourcesInv, LoopPlace, Held
<1>3. CacheRight'
  <2>1. Listed(at.a)' /\ at.a' \in Scheduled
    BY <1>1 DEF SourcesInv, LoopPlace, CacheRight, Listed
  <2> QED BY <1>1, <2>1, CacheSame
<1>4. \A c \in candidates' : IsBlock(c)
  BY <1>1, EarlierBlocks DEF SourcesInv
<1>5. TeamRight'
  BY <1>1, <1>4 DEF TeamRight, TeamPlaces, GoodThread
<1> QED BY <1>2, <1>3, <1>5 DEF SourcesInv

(* A thread that is not done is in the search, and goes on in it.            *)
LEMMA ThreadSearches ==
    ASSUME SourcesInv, NEW t \in Team, team[t].pc # "done"
    PROVE  mainpc = "search" /\ ~can_close /\ can_close \in BOOLEAN /\ at.pass \in 1 .. 2
  BY DEF SourcesInv, TeamRight, LoopPlace, Held

(* A thread in order stays so while nothing is closed.                       *)
LEMMA ThreadStays ==
    ASSUME NEW r, NEW l, NEW k, GoodThread(r, l),
           \A x \in Scheduled : IsListed(l, x) => IsListed(k, x)
    PROVE  GoodThread(r, k)
<1>1. r.pc \in {"size", "compare"} => r.other[1] \in Scheduled
  BY DEF GoodThread, IsBlock
<1> QED BY <1>1 DEF GoodThread

(* What a thread may do in one step as far as the team is concerned.         *)
LEMMA TeamGoesOn ==
    ASSUME SourcesInv, NEW t \in Team, team[t].pc # "done",
           NEW r, GoodThread(r, open_list'), team' = [team EXCEPT ![t] = r],
           \A x \in Scheduled : IsListed(open_list, x) => IsListed(open_list', x),
           candidates' \subseteq candidates, mainpc' = mainpc
    PROVE  TeamRight'
<1>1. mainpc = "search"
  BY ThreadSearches
<1>2. DOMAIN team' = Team /\ team'[t] = r /\ \A u \in Team \ {t} : team'[u] = team[u]
  BY DEF SourcesInv, TeamRight
<1>3. ASSUME NEW u \in Team PROVE GoodThread(team'[u], open_list')
  <2>1. CASE u = t
    BY <1>2, <2>1
  <2>2. CASE u # t
    <3>1. GoodThread(team[u], open_list)
      BY DEF SourcesInv, TeamRight
    <3>2. GoodThread(team[u], open_list')
      BY <3>1, ThreadStays
    <3> QED BY <1>2, <2>2, <3>2
  <2> QED BY <2>1, <2>2
<1>4. \A c \in candidates' : IsBlock(c)
  BY DEF SourcesInv, TeamRight
<1> QED BY <1>1, <1>2, <1>3, <1>4 DEF TeamRight

(* Thread steps besides GetOther.                                            *)
LEMMA ThreadStep ==
    ASSUME SourcesInv, NEW t \in Team,
           \/ Pick(t) \/ PickNone(t) \/ Unfit(t) \/ ReadOther(t) \/ Differs(t) \/ Equals(t)
           \/ TryLock(t) \/ AppendIdentical(t)
    PROVE  SourcesInv'
<1>1. /\ open_list' = open_list /\ opened' = opened /\ can_close' = can_close /\ at' = at
      /\ mainpc' = mainpc /\ candidates' \subseteq candidates
  BY DEF Pick, PickNone, Unfit, ReadOther, Differs, Equals, TryLock, AppendIdentical
<1>2. DOMAIN mapped' = DOMAIN mapped
  BY ReadDomains DEF Pick, PickNone, Unfit, ReadOther, Differs, Equals, TryLock, AppendIdentical
<1>3. DOMAIN team = Team /\ GoodThread(team[t], open_list)
  BY DEF SourcesInv, TeamRight
<1>4. team[t] = [pc |-> team[t].pc, other |-> team[t].other]
  BY <1>3 DEF GoodThread
<1>5. PICK r : /\ GoodThread(r, open_list') /\ team' = [team EXCEPT ![t] = r]
               /\ team[t].pc # "done"
  <2>1. CASE Pick(t)
    <3>1. PICK c \in candidates : team' = [team EXCEPT ![t] = [pc |-> "get", other |-> c]]
      BY <2>1 DEF Pick
    <3>2. IsBlock(c)
      BY DEF SourcesInv, TeamRight
    <3>3. GoodThread([pc |-> "get", other |-> c], open_list')
      BY <3>2 DEF GoodThread, TeamPlaces
    <3> QED BY <2>1, <3>1, <3>3 DEF Pick
  <2>2. CASE ~Pick(t)
    <3>1. PICK to \in {"pick", "done", "compare", "try", "append"} :
             /\ team' = [team EXCEPT ![t].pc = to] /\ team[t].pc # "done"
             /\ (to = "compare" => team[t].pc = "size")
      BY <2>2 DEF PickNone, Unfit, ReadOther, Differs, Equals, TryLock, AppendIdentical, Goes
    <3>2. PICK r : r = [pc |-> to, other |-> team[t].other]
      OBVIOUS
    <3>3. team' = [team EXCEPT ![t] = r]
      <4>1. [team[t] EXCEPT !.pc = to] = r
        BY <1>4, <3>2
      <4> QED BY <3>1, <4>1
    <3>4. GoodThread(r, open_list')
      BY <1>1, <1>3, <3>1, <3>2 DEF GoodThread, TeamPlaces
    <3> QED BY <3>1, <3>3, <3>4
  <2> QED BY <2>1, <2>2
<1>6. mainpc = "search"
  BY <1>5, ThreadSearches
<1>7. LoopPlace'
  BY <1>1 DEF SourcesInv, LoopPlace
<1>8. CacheRight'
  <2>1. Listed(at.a)' /\ at.a' \in Scheduled
    BY <1>1, <1>6 DEF SourcesInv, LoopPlace, CacheRight, Listed
  <2> QED BY <1>1, <1>2, <2>1, CacheSame
<1>9. TeamRight'
  BY <1>1, <1>5, TeamGoesOn
<1> QED BY <1>7, <1>8, <1>9 DEF SourcesInv

LEMMA GetOtherStep == ASSUME SourcesInv, NEW t \in Team, GetOther(t) PROVE SourcesInv'
<1>1. /\ team[t].pc = "get" /\ team' = [team EXCEPT ![t].pc = "size"]
      /\ Get(team[t].other[1], can_close)
      /\ can_close' = can_close /\ at' = at /\ mainpc' = mainpc /\ candidates' = candidates
  BY DEF GetOther, Goes
<1>2. mainpc = "search" /\ ~can_close /\ can_close \in BOOLEAN /\ at.pass \in 1 .. 2
  BY <1>1, ThreadSearches
<1>3. DOMAIN team = Team /\ GoodThread(team[t], open_list)
  BY DEF SourcesInv, TeamRight
<1>4. IsBlock(team[t].other) /\ team[t] = [pc |-> team[t].pc, other |-> team[t].other]
  BY <1>1, <1>3 DEF GoodThread
<1>5. PICK s \in Scheduled : s = team[t].other[1]
  BY <1>4 DEF IsBlock
<1>6. /\ GoodList(open_list') /\ opened' = Opened(open_list') /\ DOMAIN mapped' = Scheduled
      /\ IsListed(open_list', s)
      /\ \A x \in Scheduled : Listed(x) => IsListed(open_list', x)
  BY <1>1, <1>2, <1>5, CacheLists, GetKeeps
<1>7. LoopPlace'
  BY <1>1 DEF SourcesInv, LoopPlace
<1>8. CacheRight'
  <2>1. Listed(at.a) /\ at.a \in Scheduled
    BY <1>2 DEF SourcesInv, LoopPlace, CacheRight
  <2> QED BY <1>1, <1>2, <1>6, <2>1 DEF CacheRight, Opened, Listed
<1>9. TeamRight'
  <2>1. PICK r : r = [pc |-> "size", other |-> team[t].other]
    OBVIOUS
  <2>2. team' = [team EXCEPT ![t] = r]
    <3>1. [team[t] EXCEPT !.pc = "size"] = r
      BY <1>4, <2>1
    <3> QED BY <1>1, <3>1
  <2>3. GoodThread(r, open_list')
    BY <1>4, <1>5, <1>6, <2>1 DEF GoodThread, TeamPlaces
  <2> QED BY <1>1, <1>6, <2>2, <2>3, TeamGoesOn DEF Listed
<1> QED BY <1>7, <1>8, <1>9 DEF SourcesInv

(* The end of a search and of a placement: the current source goes to the    *)
(* front, and the cache may close again.                                     *)
LEMMA EndStep == ASSUME SourcesInv, EndSearch \/ EndBlockify PROVE SourcesInv'
<1>1. /\ mainpc \in {"search", "compare", "place"} /\ mainpc' = "next"
      /\ can_close' = TRUE /\ Get(at.a, TRUE) /\ candidates' = {} /\ at' = at /\ team' = team
  BY DEF EndSearch, EndBlockify
<1>2. \A t \in Team : team[t].pc = "done"
  BY DEF SourcesInv, TeamRight, EndSearch, EndBlockify, TeamDone
<1>3. at.pass \in 1 .. 2 /\ at.a \in Scheduled
  BY <1>1 DEF SourcesInv, LoopPlace
<1>4. /\ GoodList(open_list') /\ opened' = Opened(open_list') /\ DOMAIN mapped' = Scheduled
      /\ IsListed(open_list', at.a) /\ Len(open_list') <= MaxOpen[at.pass]
  BY <1>1, <1>3, CacheLists, GetKeeps
<1>5. LoopPlace'
  BY <1>1 DEF SourcesInv, LoopPlace, Held
<1>6. CacheRight'
  BY <1>1, <1>4 DEF CacheRight, Opened, Listed
<1>7. TeamRight'
  BY <1>1, <1>2 DEF SourcesInv, TeamRight, GoodThread
<1> QED BY <1>5, <1>6, <1>7 DEF SourcesInv

LEMMA BlockifyReuseStep == ASSUME SourcesInv, BlockifyReuse PROVE SourcesInv'
<1>1. PICK other \in Earlier :
        /\ mainpc = "block" /\ mainpc' = "reread" /\ can_close' = FALSE
        /\ Get(other[1], FALSE) /\ candidates' = {other} /\ at' = at /\ team' = team
  BY DEF BlockifyReuse, MayClose
<1>2. at.pass \in 1 .. 2 /\ at.a \in Scheduled /\ Listed(at.a) /\ IsBlock(other)
  BY <1>1, EarlierBlocks DEF SourcesInv, LoopPlace, CacheRight
<1>3. PICK s \in Scheduled : s = other[1]
  BY <1>2 DEF IsBlock
<1>4. /\ GoodList(open_list') /\ opened' = Opened(open_list') /\ DOMAIN mapped' = Scheduled
      /\ IsListed(open_list', s)
      /\ \A x \in Scheduled : Listed(x) => IsListed(open_list', x)
  BY <1>1, <1>2, <1>3, CacheLists, GetKeeps
<1>5. LoopPlace'
  BY <1>1 DEF SourcesInv, LoopPlace, Held
<1>6. CacheRight'
  BY <1>1, <1>2, <1>4 DEF CacheRight, Opened, Listed
<1>7. TeamRight'
  <2>1. \A t \in Team : team[t].pc = "done"
    BY <1>1 DEF SourcesInv, TeamRight
  <2>2. \A t \in Team : GoodThread(team'[t], open_list')
    BY <1>1, <2>1 DEF SourcesInv, TeamRight, GoodThread
  <2>3. \A c \in candidates' : IsBlock(c) /\ IsListed(open_list', c[1])
    BY <1>1, <1>2, <1>3, <1>4
  <2> QED BY <1>1, <2>1, <2>2, <2>3 DEF SourcesInv, TeamRight, Listed
<1> QED BY <1>5, <1>6, <1>7 DEF SourcesInv

LEMMA SourcesStep == SourcesInv /\ [SourcesNext]_sourceVars => SourcesInv'
<1> SUFFICES ASSUME SourcesInv, [SourcesNext]_sourceVars PROVE SourcesInv'
  OBVIOUS
<1>1. CASE UNCHANGED sourceVars
  BY <1>1 DEF sourceVars, SourcesInv, LoopPlace, CacheRight, TeamRight, Listed
<1>2. CASE OpenCurrent \/ NextBlock \/ CloseCache \/ CheckHash
  BY <1>2, OpenCurrentStep, NextBlockStep, CloseCacheStep, CheckHashStep
<1>3. CASE ReadBlock \/ NoCheck \/ BlockifyOwn \/ Reread \/ RereadOther \/ NotIdentical
  BY <1>3, QuietStep
<1>4. CASE EndSearch \/ EndBlockify \/ BlockifyReuse
  BY <1>4, EndStep, BlockifyReuseStep
<1>5. ASSUME NEW t \in Team, Pick(t) \/ PickNone(t) \/ GetOther(t) \/ Unfit(t) \/ ReadOther(t)
                             \/ Differs(t) \/ Equals(t) \/ TryLock(t) \/ AppendIdentical(t)
      PROVE  SourcesInv'
  BY <1>5, ThreadStep, GetOtherStep
<1>6. CASE SourcesDone
  BY <1>1, <1>6 DEF SourcesDone
<1> QED BY <1>1, <1>2, <1>3, <1>4, <1>5, <1>6 DEF SourcesNext

-----------------------------------------------------------------------------
(* The match that the team appends.                                          *)

(* What a thread does with it.                                               *)
LEMMA MatchThread ==
    ASSUME SourcesInv, MatchInv, NEW t \in Team,
           \/ Pick(t) \/ PickNone(t) \/ GetOther(t) \/ Unfit(t) \/ ReadOther(t) \/ Differs(t)
           \/ Equals(t) \/ TryLock(t) \/ AppendIdentical(t)
    PROVE  MatchInv'
<1>1. DOMAIN team = Team /\ team[t] = [pc |-> team[t].pc, other |-> team[t].other] /\ t # 0 /\ 0 \notin Team
  BY SourcesParameters DEF SourcesInv, TeamRight, GoodThread
<1>2. CASE Equals(t)
  <2>1. /\ team[t].pc = "compare" /\ team' = [team EXCEPT ![t].pc = "try"]
        /\ identical' = [identical EXCEPT !.matches = identical.matches + 1]
    BY <1>2 DEF Equals, Goes
  <2>2. team'[t].pc = "try" /\ \A u \in Team : u # t => team'[u] = team[u]
    BY <1>1, <2>1
  <2>3. /\ identical' = [found |-> identical.found, lock |-> identical.lock,
                         matches |-> identical.matches + 1, appended |-> identical.appended]
    BY <2>1 DEF MatchInv
  <2> QED BY <1>1, <2>1, <2>2, <2>3 DEF MatchInv
<1>3. CASE TryLock(t) /\ identical.lock = 0
  <2>1. /\ team[t].pc = "try" /\ team' = [team EXCEPT ![t].pc = "append"]
        /\ identical' = [identical EXCEPT !.lock = t]
    BY <1>3 DEF TryLock, Goes
  <2>2. team'[t].pc = "append" /\ \A u \in Team : u # t => team'[u] = team[u]
    BY <1>1, <2>1
  <2>3. /\ identical' = [found |-> identical.found, lock |-> t,
                         matches |-> identical.matches, appended |-> identical.appended]
    BY <2>1 DEF MatchInv
  <2> QED BY <1>1, <1>3, <2>1, <2>2, <2>3 DEF MatchInv
<1>4. CASE TryLock(t) /\ identical.lock # 0
  <2>1. /\ team[t].pc = "try" /\ team' = [team EXCEPT ![t].pc = "done"] /\ identical' = identical
    BY <1>4 DEF TryLock, Goes
  <2>2. team'[t].pc = "done" /\ \A u \in Team : u # t => team'[u] = team[u]
    BY <1>1, <2>1
  <2> QED BY <1>1, <1>4, <2>1, <2>2 DEF MatchInv
<1>5. CASE AppendIdentical(t)
  <2>1. /\ team[t].pc = "append" /\ team' = [team EXCEPT ![t].pc = "done"]
        /\ identical' = [identical EXCEPT !.lock = 0, !.found = TRUE,
                           !.appended = IF identical.found THEN identical.appended ELSE identical.appended + 1]
    BY <1>5 DEF AppendIdentical, AppendIfNone, Goes
  <2>2. team'[t].pc = "done" /\ \A u \in Team : u # t => team'[u] = team[u]
    BY <1>1, <2>1
  <2>3. identical' = [found |-> TRUE, lock |-> 0, matches |-> identical.matches, appended |-> 1]
    <3>1. CASE identical.found
      <4>1. identical' = [identical EXCEPT !.lock = 0, !.found = TRUE, !.appended = identical.appended]
        BY <2>1, <3>1
      <4>2. identical.appended = 1
        BY <3>1 DEF MatchInv
      <4> QED BY <4>1, <4>2 DEF MatchInv
    <3>2. CASE ~identical.found
      <4>1. identical' = [identical EXCEPT !.lock = 0, !.found = TRUE, !.appended = identical.appended + 1]
        BY <2>1, <3>2
      <4>2. identical.appended + 1 = 1
        BY <3>2 DEF MatchInv
      <4> QED BY <4>1, <4>2 DEF MatchInv
    <3> QED BY <3>1, <3>2
  <2>4. identical.lock = t /\ identical.matches # 0 /\ identical.matches \in Nat
    BY <2>1 DEF MatchInv
  <2>5. \A u \in Team : team'[u].pc # "append"
    BY <2>2, <2>4 DEF MatchInv
  <2> QED BY <1>1, <2>3, <2>4, <2>5 DEF MatchInv
<1>6. CASE Pick(t) \/ PickNone(t) \/ GetOther(t) \/ Unfit(t) \/ ReadOther(t) \/ Differs(t)
  <2>1. team[t].pc \in {"pick", "get", "size", "compare"} /\ identical' = identical
    BY <1>6 DEF Pick, PickNone, GetOther, Unfit, ReadOther, Differs, Goes
  <2>2. /\ team'[t].pc \in {"pick", "get", "size", "compare", "done"}
        /\ \A u \in Team : u # t => team'[u] = team[u]
    BY <1>1, <1>6 DEF Pick, PickNone, GetOther, Unfit, ReadOther, Differs, Goes
  <2> QED BY <1>1, <2>1, <2>2 DEF MatchInv
<1> QED BY <1>2, <1>3, <1>4, <1>5, <1>6

LEMMA MatchStep == SourcesInv /\ MatchInv /\ [SourcesNext]_sourceVars => MatchInv'
<1> SUFFICES ASSUME SourcesInv, MatchInv, [SourcesNext]_sourceVars PROVE MatchInv'
  OBVIOUS
<1>1. ASSUME team' = team, identical' = identical PROVE MatchInv'
  BY <1>1 DEF MatchInv
<1>2. CASE CheckHash
  <2>1. /\ identical' = [found |-> FALSE, lock |-> 0, matches |-> 0, appended |-> 0]
        /\ \A t \in Team : team'[t].pc = "pick"
    BY <1>2 DEF CheckHash, NoMatch
  <2>2. 0 \notin Team
    BY SourcesParameters
  <2> QED BY <2>1, <2>2 DEF MatchInv
<1>3. CASE \/ OpenCurrent \/ NextBlock \/ CloseCache \/ ReadBlock \/ NoCheck \/ EndSearch
           \/ BlockifyReuse \/ BlockifyOwn \/ Reread \/ RereadOther \/ NotIdentical \/ EndBlockify
  BY <1>1, <1>3 DEF OpenCurrent, NextBlock, CloseCache, ReadBlock, NoCheck, EndSearch,
        BlockifyReuse, BlockifyOwn, Reread, RereadOther, NotIdentical, EndBlockify
<1>4. CASE SourcesDone \/ UNCHANGED sourceVars
  BY <1>1, <1>4 DEF SourcesDone, sourceVars
<1>5. ASSUME NEW t \in Team, Pick(t) \/ PickNone(t) \/ GetOther(t) \/ Unfit(t) \/ ReadOther(t)
                             \/ Differs(t) \/ Equals(t) \/ TryLock(t) \/ AppendIdentical(t)
      PROVE  MatchInv'
  BY <1>5, MatchThread
<1> QED BY <1>2, <1>3, <1>4, <1>5 DEF SourcesNext

LEMMA MatchInitial == SourcesInit => MatchInv
<1>1. 0 \notin Team
  BY SourcesParameters
<1> QED BY <1>1 DEF SourcesInit, MatchInv, NoMatch, NoTeam

-----------------------------------------------------------------------------
(* The buffers.                                                              *)

(* The fields of a record.                                                   *)
LEMMA BufFields ==
    ASSUME NEW x, NEW b
    PROVE  [src |-> x, ok |-> b].src = x /\ [src |-> x, ok |-> b].ok = b
  OBVIOUS

(* A buffer whose mapping moves away keeps its source.                       *)
LEMMA MovedKeeps ==
    ASSUME NEW b, b = [src |-> b.src, ok |-> b.ok], NEW s \in Scheduled, mapping[s] = "part", mapping' = mapping
    PROVE  /\ Displaced(b, s) = [src |-> Displaced(b, s).src, ok |-> Displaced(b, s).ok]
           /\ \A c : c = Displaced(b, s) /\ Backed(b) => (c.ok \/ (c.src # 0 /\ mapping'[c.src] = "part"))
<1>1. s # 0
  BY SourcesParameters DEF Scheduled
<1>2. CASE b.src = s
  <2>1. Displaced(b, s) = [src |-> s, ok |-> FALSE]
    BY <1>2 DEF Displaced
  <2> QED BY <1>1, <2>1
<1>3. CASE b.src # s
  BY <1>3 DEF Displaced, Backed
<1> QED BY <1>2, <1>3

(* A read copies, or finds the block in the mapping, or moves the mapping if *)
(* the source is mapped in part.                                             *)
LEMMA ReadBacks ==
    ASSUME BufsInv, NEW i \in DOMAIN bufs, NEW s \in Scheduled, opened[s] = 1, mapping' = mapping,
           NEW p \in Nat, p < SourceSizes[s], Read(i, s, p)
    PROVE  /\ \A x \in Scheduled : mapping'[x] # "part" => mapped'[x] \in {{}, 0 .. SourceSizes[x] - 1}
           /\ bufs'[i].ok /\ DOMAIN bufs' = DOMAIN bufs
           /\ \A j \in DOMAIN bufs : /\ bufs'[j] = [src |-> bufs'[j].src, ok |-> bufs'[j].ok]
                                     /\ j # i /\ Backed(bufs[j]) => Backed(bufs[j])'
<1> DEFINE ref  == [src |-> s, ok |-> TRUE]
           copy == [src |-> 0, ok |-> opened[s] > 0]
<1>1. SourceSizes[s] \in Nat /\ opened[s] > 0
  BY SourcesParameters DEF Scheduled
<1>2. /\ ref.ok /\ ref = [src |-> ref.src, ok |-> ref.ok]
      /\ copy.ok /\ copy = [src |-> copy.src, ok |-> copy.ok]
  BY <1>1, BufFields
<1>3. \A j \in DOMAIN bufs : bufs[j] = [src |-> bufs[j].src, ok |-> bufs[j].ok]
  BY DEF BufsInv
<1>4. \A x \in Scheduled : mapping[x] # "part" => mapped[x] \in {{}, 0 .. SourceSizes[x] - 1}
  BY DEF BufsInv
<1>5. CASE mapped[s] = {} \/ p \in mapped[s]
  <2>1. PICK b \in {ref, copy} : bufs' = [bufs EXCEPT ![i] = b] /\ mapped' = mapped
    BY <1>5 DEF Read
  <2>2. b.ok /\ b = [src |-> b.src, ok |-> b.ok]
    BY <1>2
  <2> HIDE DEF ref, copy
  <2>3. bufs'[i] = b /\ DOMAIN bufs' = DOMAIN bufs /\ \A j \in DOMAIN bufs : j # i => bufs'[j] = bufs[j]
    BY <2>1
  <2>4. \A j \in DOMAIN bufs : j # i /\ Backed(bufs[j]) => Backed(bufs[j])'
    BY <2>3 DEF Backed
  <2>5. \A j \in DOMAIN bufs : bufs'[j] = [src |-> bufs'[j].src, ok |-> bufs'[j].ok]
    BY <1>3, <2>2, <2>3
  <2> QED BY <1>4, <2>1, <2>2, <2>3, <2>4, <2>5
<1>6. CASE mapped[s] # {} /\ p \notin mapped[s]
  <2>1. mapping[s] = "part"
    <3>1. p \in 0 .. SourceSizes[s] - 1
      BY <1>1
    <3> QED BY <1>4, <1>6, <3>1
  <2>2. PICK b \in {ref, copy} :
          /\ bufs' = [[j \in DOMAIN bufs |-> Displaced(bufs[j], s)] EXCEPT ![i] = b]
          /\ \E m : mapped' = [mapped EXCEPT ![s] = m]
    <3>1. PICK works \in BOOLEAN :
            /\ mapped' = [mapped EXCEPT ![s] =
                            IF works THEN {q \in p .. SourceSizes[s] - 1 : q < p + MapLength} ELSE {}]
            /\ bufs' = [[j \in DOMAIN bufs |-> Displaced(bufs[j], s)] EXCEPT ![i] = IF works THEN ref ELSE copy]
      BY <1>6 DEF Read
    <3>2. (IF works THEN ref ELSE copy) \in {ref, copy}
      OBVIOUS
    <3> HIDE DEF ref, copy
    <3> QED BY <3>1, <3>2
  <2>3. b.ok /\ b = [src |-> b.src, ok |-> b.ok]
    BY <1>2
  <2> HIDE DEF ref, copy
  <2>4. /\ bufs'[i] = b /\ DOMAIN bufs' = DOMAIN bufs
        /\ \A j \in DOMAIN bufs : j # i => bufs'[j] = Displaced(bufs[j], s)
    BY <2>2
  <2>5. \A j \in DOMAIN bufs : j # i =>
          /\ bufs'[j] = [src |-> bufs'[j].src, ok |-> bufs'[j].ok]
          /\ Backed(bufs[j]) => Backed(bufs[j])'
    BY <1>3, <2>1, <2>4, MovedKeeps DEF Backed
  <2>6. \A x \in Scheduled : mapping'[x] # "part" => mapped'[x] \in {{}, 0 .. SourceSizes[x] - 1}
    <3>1. \A x \in Scheduled : x # s => mapped'[x] = mapped[x]
      BY <2>2
    <3> QED BY <1>4, <2>1, <3>1
  <2> QED BY <2>3, <2>4, <2>5, <2>6
<1> QED BY <1>5, <1>6

(* Get maps a file as a whole, in part or not at all, and leaves buffers     *)
(* alone unless it may close.                                                *)
LEMMA GetMaps ==
    ASSUME SourcesInv, BufsInv, at.pass \in 1 .. 2,
           NEW s \in Scheduled, NEW mc \in BOOLEAN, Get(s, mc), mapping' = mapping
    PROVE  /\ \A x \in Scheduled : mapping'[x] # "part" => mapped'[x] \in {{}, 0 .. SourceSizes[x] - 1}
           /\ DOMAIN bufs' = DOMAIN bufs
           /\ \A i \in DOMAIN bufs : /\ bufs'[i] = [src |-> bufs'[i].src, ok |-> bufs'[i].ok]
                                     /\ ~mc => bufs'[i] = bufs[i]
<1>1. /\ \A x \in Scheduled : mapped'[x] \in {mapped[x], {}, MapAtOpen(x)}
      /\ DOMAIN bufs' = DOMAIN bufs /\ (~mc => \A i \in DOMAIN bufs : bufs'[i] = bufs[i])
  BY CacheLists, GetKeeps
<1>2. \A x \in Scheduled : mapping[x] # "part" => MapAtOpen(x) \in {{}, 0 .. SourceSizes[x] - 1}
  BY SourcesParameters DEF BufsInv, MapAtOpen
<1>3. \A x \in Scheduled : mapping[x] # "part" => mapped[x] \in {{}, 0 .. SourceSizes[x] - 1}
  BY DEF BufsInv
<1>4. PICK gone : bufs' = [i \in DOMAIN bufs |-> Closed(bufs[i], gone)]
  BY DEF Get
<1>5. \A i \in DOMAIN bufs : bufs'[i] = [src |-> bufs'[i].src, ok |-> bufs'[i].ok]
  BY <1>4, BufFields DEF BufsInv, Closed
<1> QED BY <1>1, <1>2, <1>3, <1>5

LEMMA BufsInitial == SourcesInit => BufsInv
<1>1. \A t \in Team : NoTeam[t].pc = "done"
  BY DEF NoTeam
<1>2. \A i \in DOMAIN NoBufs : NoBufs[i] = [src |-> NoBufs[i].src, ok |-> NoBufs[i].ok]
  BY DEF NoBufs
<1>3. DOMAIN NoBufs = {0} \cup Team
  BY DEF NoBufs
<1> QED BY <1>1, <1>2, <1>3 DEF SourcesInit, BufsInv

(* A source that is listed is open.                                          *)
LEMMA ListedOpen ==
    ASSUME SourcesInv, NEW s \in Scheduled, Listed(s) PROVE opened[s] = 1
  BY DEF SourcesInv, CacheRight

(* Nobody compares while the loop is elsewhere.                              *)
LEMMA NobodyCompares ==
    ASSUME SourcesInv, mainpc # "search", NEW t \in Team PROVE team[t].pc = "done"
  BY DEF SourcesInv, TeamRight

(* Steps in which a source is opened and others may be closed: no buffer is  *)
(* in use after them.                                                        *)
LEMMA BufsGet ==
    ASSUME SourcesInv, BufsInv,
           OpenCurrent \/ EndSearch \/ EndBlockify \/ BlockifyReuse
    PROVE  BufsInv'
<1>1. PICK s \in Scheduled, mc \in BOOLEAN :
        /\ Get(s, mc) /\ team' = team /\ mapping' = mapping
        /\ mainpc' \in {"block", "next", "reread"}
  <2>1. at.a \in Scheduled /\ can_close \in BOOLEAN
    BY DEF SourcesInv, LoopPlace
  <2>2. CASE OpenCurrent
    BY <2>1, <2>2 DEF OpenCurrent
  <2>3. CASE EndSearch \/ EndBlockify
    BY <2>1, <2>3 DEF EndSearch, EndBlockify
  <2>4. CASE BlockifyReuse
    <3>1. PICK other \in Earlier : /\ Get(other[1], FALSE) /\ team' = team /\ mapping' = mapping
                                   /\ mainpc' = "reread"
      BY <2>4 DEF BlockifyReuse, MayClose
    <3>2. other[1] \in Scheduled
      BY EarlierBlocks DEF SourcesInv, IsBlock
    <3> QED BY <3>1, <3>2
  <2> QED BY <2>2, <2>3, <2>4
<1>2. at.pass \in 1 .. 2
  <2>1. mainpc # "end"
    BY DEF OpenCurrent, EndSearch, EndBlockify, BlockifyReuse
  <2> QED BY <2>1 DEF SourcesInv, LoopPlace
<1>3. \A t \in Team : team[t].pc = "done"
  BY NobodyCompares DEF OpenCurrent, EndSearch, EndBlockify, BlockifyReuse, TeamDone
<1>4. /\ \A x \in Scheduled : mapping'[x] # "part" => mapped'[x] \in {{}, 0 .. SourceSizes[x] - 1}
      /\ DOMAIN bufs' = DOMAIN bufs
      /\ \A i \in DOMAIN bufs : bufs'[i] = [src |-> bufs'[i].src, ok |-> bufs'[i].ok]
  BY <1>1, <1>2, GetMaps
<1> QED BY <1>1, <1>3, <1>4 DEF BufsInv

(* The loops read the current block, and the second one the other block.     *)
LEMMA BufsRead ==
    ASSUME SourcesInv, BufsInv, ReadBlock \/ BlockifyOwn \/ Reread \/ RereadOther
    PROVE  BufsInv'
<1>1. mainpc \in {"block", "reread", "rereadother"} /\ team' = team /\ mapping' = mapping
  BY DEF ReadBlock, BlockifyOwn, Reread, RereadOther
<1>2. /\ at.a \in Scheduled /\ opened[at.a] = 1 /\ at.p \in Nat /\ at.p < SourceSizes[at.a]
  BY <1>1, ListedOpen DEF SourcesInv, LoopPlace, CacheRight
<1>3. \A t \in Team : team[t].pc = "done"
  BY <1>1, NobodyCompares
<1>4. 0 \in DOMAIN bufs /\ 1 \in DOMAIN bufs
  BY SourcesParameters DEF BufsInv
<1>5. CASE ReadBlock \/ BlockifyOwn \/ Reread
  <2>1. Read(0, at.a, at.p) /\ mainpc' \in {"hash", "place", "rereadother"}
    BY <1>5 DEF ReadBlock, BlockifyOwn, Reread
  <2>2. /\ \A x \in Scheduled : mapping'[x] # "part" => mapped'[x] \in {{}, 0 .. SourceSizes[x] - 1}
        /\ bufs'[0].ok /\ DOMAIN bufs' = DOMAIN bufs
        /\ \A j \in DOMAIN bufs : bufs'[j] = [src |-> bufs'[j].src, ok |-> bufs'[j].ok]
    BY <1>1, <1>2, <1>4, <2>1, ReadBacks
  <2>3. Backed(bufs[0])'
    BY <2>2 DEF Backed
  <2> QED BY <1>1, <1>3, <2>1, <2>2, <2>3 DEF BufsInv
<1>6. CASE RereadOther
  <2>1. PICK other \in candidates : Read(1, other[1], other[2])
    BY <1>6 DEF RereadOther
  <2>2. mainpc = "rereadother" /\ mainpc' = "compare"
    BY <1>6 DEF RereadOther
  <2>3. IsBlock(other) /\ Listed(other[1])
    BY <2>2 DEF SourcesInv, TeamRight
  <2>4. PICK s \in Scheduled, p \in Nat : s = other[1] /\ p = other[2] /\ p < SourceSizes[s]
    BY <2>3 DEF IsBlock
  <2>5. opened[s] = 1 /\ Read(1, s, p)
    BY <2>1, <2>3, <2>4, ListedOpen
  <2>6. /\ \A x \in Scheduled : mapping'[x] # "part" => mapped'[x] \in {{}, 0 .. SourceSizes[x] - 1}
        /\ bufs'[1].ok /\ DOMAIN bufs' = DOMAIN bufs
        /\ \A j \in DOMAIN bufs : /\ bufs'[j] = [src |-> bufs'[j].src, ok |-> bufs'[j].ok]
                                  /\ j # 1 /\ Backed(bufs[j]) => Backed(bufs[j])'
    BY <1>1, <1>4, <2>4, <2>5, ReadBacks
  <2>7. Backed(bufs[0])'
    <3>1. Backed(bufs[0])
      BY <2>2 DEF BufsInv
    <3>2. 0 \in DOMAIN bufs /\ 0 # 1
      BY <1>4
    <3> QED BY <2>6, <3>1, <3>2
  <2>8. Backed(bufs[1])'
    BY <2>6 DEF Backed
  <2> QED BY <1>1, <1>3, <2>2, <2>6, <2>7, <2>8 DEF BufsInv
<1> QED BY <1>5, <1>6

(* A thread opens or reads another source; the others' buffers stay.         *)
LEMMA BufsThread ==
    ASSUME SourcesInv, BufsInv,
           NEW t \in Team, GetOther(t) \/ ReadOther(t)
    PROVE  BufsInv'
<1>1. team[t].pc # "done" /\ mainpc' = mainpc /\ mapping' = mapping
  BY DEF GetOther, ReadOther, Goes
<1>2. mainpc = "search" /\ ~can_close /\ can_close \in BOOLEAN /\ at.pass \in 1 .. 2
  BY <1>1, ThreadSearches
<1>3. DOMAIN team = Team /\ GoodThread(team[t], open_list)
  BY DEF SourcesInv, TeamRight
<1>4. 0 \in DOMAIN bufs /\ t \in DOMAIN bufs /\ t # 0 /\ Team \subseteq DOMAIN bufs
  BY SourcesParameters DEF BufsInv
<1>5. team[t].pc \in {"get", "size"} /\ IsBlock(team[t].other)
  BY <1>3 DEF GetOther, ReadOther, Goes, GoodThread
<1>6. PICK s \in Scheduled, p \in Nat : s = team[t].other[1] /\ p = team[t].other[2] /\ p < SourceSizes[s]
  BY <1>5 DEF IsBlock
<1>7. CASE GetOther(t)
  <2>1. Get(s, can_close) /\ team' = [team EXCEPT ![t].pc = "size"]
    BY <1>6, <1>7 DEF GetOther, Goes
  <2>2. team'[t].pc = "size" /\ \A u \in Team : u # t => team'[u] = team[u]
    BY <1>3, <2>1 DEF GoodThread
  <2>3. /\ \A x \in Scheduled : mapping'[x] # "part" => mapped'[x] \in {{}, 0 .. SourceSizes[x] - 1}
        /\ DOMAIN bufs' = DOMAIN bufs /\ \A i \in DOMAIN bufs : bufs'[i] = bufs[i]
    BY <1>1, <1>2, <2>1, GetMaps
  <2>4. \A i \in DOMAIN bufs : Backed(bufs[i]) => Backed(bufs[i])'
    BY <1>1, <2>3 DEF Backed
  <2> QED BY <1>1, <1>2, <1>4, <2>2, <2>3, <2>4 DEF BufsInv
<1>8. CASE ReadOther(t)
  <2>1. Read(t, s, p) /\ team' = [team EXCEPT ![t].pc = "compare"] /\ team[t].pc = "size"
    BY <1>6, <1>8 DEF ReadOther, Goes
  <2>2. \A u \in Team : u # t => team'[u] = team[u]
    BY <1>3, <2>1
  <2>3. Listed(s)
    BY <1>3, <1>6, <2>1 DEF GoodThread, Listed
  <2>4. /\ \A x \in Scheduled : mapping'[x] # "part" => mapped'[x] \in {{}, 0 .. SourceSizes[x] - 1}
        /\ bufs'[t].ok /\ DOMAIN bufs' = DOMAIN bufs
        /\ \A j \in DOMAIN bufs : /\ bufs'[j] = [src |-> bufs'[j].src, ok |-> bufs'[j].ok]
                                  /\ j # t /\ Backed(bufs[j]) => Backed(bufs[j])'
    BY <1>1, <1>4, <1>6, <2>1, <2>3, ListedOpen, ReadBacks
  <2>5. Backed(bufs[0])'
    BY <1>2, <1>4, <2>4 DEF BufsInv
  <2>6. ASSUME NEW u \in Team, team'[u].pc = "compare" PROVE Backed(bufs[u])'
    <3>1. CASE u = t
      BY <2>4, <3>1 DEF Backed
    <3>2. CASE u # t
      BY <1>4, <2>2, <2>4, <2>6, <3>2 DEF BufsInv
    <3> QED BY <3>1, <3>2
  <2> QED BY <1>1, <1>2, <2>4, <2>5, <2>6 DEF BufsInv
<1> QED BY <1>7, <1>8

LEMMA BufsStep == SourcesInv /\ BufsInv /\ [SourcesNext]_sourceVars => BufsInv'
<1> SUFFICES ASSUME SourcesInv, BufsInv, [SourcesNext]_sourceVars PROVE BufsInv'
  OBVIOUS
<1>1. CASE OpenCurrent \/ EndSearch \/ EndBlockify \/ BlockifyReuse
  BY <1>1, BufsGet
<1>2. CASE ReadBlock \/ BlockifyOwn \/ Reread \/ RereadOther
  BY <1>2, BufsRead
<1>3. CASE NextBlock \/ NoCheck \/ NotIdentical
  <2>1. /\ mapped' = mapped /\ mapping' = mapping /\ bufs' = bufs /\ team' = team
        /\ mainpc' \in {"block", "open", "next", "place"}
        /\ mainpc' = "place" => mainpc = "compare"
    BY <1>3 DEF NextBlock, NoCheck, NotIdentical
  <2> QED BY <2>1 DEF BufsInv, Backed
<1>4. CASE CloseCache
  <2>1. /\ mapped' = [s \in Scheduled |-> {}] /\ mapping' = mapping /\ team' = team
        /\ DOMAIN bufs' = DOMAIN bufs /\ mainpc = "next" /\ mainpc' \in {"open", "end"}
        /\ \A i \in DOMAIN bufs : bufs'[i] = Closed(bufs[i], ToSet(open_list))
    BY <1>4 DEF CloseCache, SourceOver
  <2>3. \A i \in DOMAIN bufs : bufs'[i] = [src |-> bufs'[i].src, ok |-> bufs'[i].ok]
    BY <2>1, BufFields DEF BufsInv, Closed
  <2>2. \A t \in Team : team[t].pc = "done"
    BY <2>1, NobodyCompares
  <2> QED BY <2>1, <2>2, <2>3 DEF BufsInv
<1>5. CASE CheckHash
  <2>1. /\ mapped' = mapped /\ mapping' = mapping /\ bufs' = bufs /\ mainpc = "hash"
        /\ mainpc' = "search" /\ \A t \in Team : team'[t].pc = "pick"
    BY <1>5 DEF CheckHash
  <2> QED BY <2>1 DEF BufsInv, Backed
<1>6. ASSUME NEW t \in Team, GetOther(t) \/ ReadOther(t) PROVE BufsInv'
  BY <1>6, BufsThread
<1>7. ASSUME NEW t \in Team, Pick(t) \/ PickNone(t) \/ Unfit(t) \/ Differs(t) \/ Equals(t)
                             \/ TryLock(t) \/ AppendIdentical(t)
      PROVE  BufsInv'
  <2>1. DOMAIN team = Team /\ team[t] = [pc |-> team[t].pc, other |-> team[t].other]
    BY DEF SourcesInv, TeamRight, GoodThread
  <2>2. /\ mapped' = mapped /\ mapping' = mapping /\ bufs' = bufs /\ mainpc' = mainpc
        /\ team'[t].pc # "compare" /\ \A u \in Team : u # t => team'[u] = team[u]
    BY <1>7, <2>1 DEF Pick, PickNone, Unfit, Differs, Equals, TryLock, AppendIdentical, Goes
  <2> QED BY <2>2 DEF BufsInv, Backed
<1>8. CASE SourcesDone \/ UNCHANGED sourceVars
  BY <1>8 DEF SourcesDone, sourceVars, BufsInv, Backed
<1> QED BY <1>1, <1>2, <1>3, <1>4, <1>5, <1>6, <1>7, <1>8 DEF SourcesNext

-----------------------------------------------------------------------------
(* The cache of open sources, however the threads use it and whatever can be *)
(* mapped: it closes what it opened, keeps the current source, and stays in  *)
(* its limit whenever it may close something; and each block gets one match. *)
THEOREM SourcesListed == SourcesSpec => [](OpenSourcesListed /\ MatchAppendedOnce)
<1>1. SourcesInit => SourcesInv /\ MatchInv
  BY SourcesInitial, MatchInitial
<1>2. SourcesInv /\ MatchInv /\ [SourcesNext]_sourceVars => (SourcesInv /\ MatchInv)'
  BY SourcesStep, MatchStep
<1>3. SourcesInv => OpenSourcesListed
  <2> SUFFICES ASSUME SourcesInv PROVE OpenSourcesListed
    OBVIOUS
  <2>1. \A s \in Scheduled :
           opened[s] = Cardinality({i \in DOMAIN open_list : open_list[i] = s})
    BY ListedOnce
  <2>2. \A s \in Scheduled : opened[s] \in {0, 1}
    BY DEF SourcesInv, CacheRight
  <2>3. mainpc \in {"block", "hash", "search", "next"} => opened[at.a] = 1
    BY ListedOpen DEF SourcesInv, CacheRight, LoopPlace
  <2>4. (can_close /\ at.pass \in 1 .. 2) => Len(open_list) <= MaxOpen[at.pass]
    BY DEF SourcesInv, CacheRight
  <2> HIDE DEF SourcesInv
  <2> QED BY <2>1, <2>2, <2>3, <2>4 DEF OpenSourcesListed
<1>4. MatchInv => MatchAppendedOnce
  <2> SUFFICES ASSUME MatchInv, TeamDone
               PROVE  identical.appended = IF identical.matches > 0 THEN 1 ELSE 0
    BY DEF MatchAppendedOnce
  <2>1. identical.lock = 0 /\ ~ \E t \in Team : team[t].pc = "try"
    BY DEF MatchInv, TeamDone
  <2> QED BY <2>1 DEF MatchInv
<1> QED BY <1>1, <1>2, <1>3, <1>4, PTL DEF SourcesSpec

(* However files are mapped: what is hashed, compared or stored is in memory *)
(* that no other thread and no cache has taken away, but for a buffer into a *)
(* file mapped in part, which moves with its next reader.                    *)
THEOREM SourcesRight == SourcesSpec => []SourcesUsable
<1>1. SourcesInit => SourcesInv /\ BufsInv
  BY SourcesInitial, BufsInitial
<1>2. SourcesInv /\ BufsInv /\ [SourcesNext]_sourceVars => (SourcesInv /\ BufsInv)'
  BY SourcesStep, BufsStep
<1>3. SourcesInv /\ BufsInv => BuffersUsable
  <2> SUFFICES ASSUME SourcesInv, BufsInv PROVE BuffersUsable
    OBVIOUS
  <2>1. \A t \in Team : team[t].pc = "compare" => mainpc = "search"
    BY NobodyCompares
  <2> QED BY <2>1 DEF BufsInv, BuffersUsable
<1>4. OpenSourcesListed /\ MatchAppendedOnce /\ BuffersUsable => SourcesUsable
  BY DEF SourcesUsable
<1> QED BY <1>1, <1>2, <1>3, <1>4, SourcesListed, PTL DEF SourcesSpec

-----------------------------------------------------------------------------
(* The command line: the inductive invariant.                               *)

\* What each option leaves of the settings that others depend on.
NumbersRight(s) ==
    /\ DOMAIN s = DOMAIN Defaults
    /\ s.fsize \in Int /\ s.bsize \in Int /\ s.bsize >= 8
    /\ s.minfreespace \in Int /\ s.overlapgranularity \in Int
    /\ s.autoindexratio \in Int /\ s.autoindexperiod \in Int
    /\ s.bruteforcelimit \in Int /\ s.bruteforcelimit >= 1
    /\ \A size \in s.bsize_for : size \in Int /\ size >= 8
    /\ s.variable \in BOOLEAN /\ (s.variable <=> s.bsize_for # {})

BitsRight(s) ==
    /\ DOMAIN s.bits = 1 .. 3
    /\ s.bits[1] \in 0 .. 4 /\ s.bits[2] \in 0 .. 4 /\ s.bits[3] \in 0 .. 8

\* What was asked for is in the three variables that decide the width.
WidthRight(s, widths) ==
    /\ s.mayautochoose \in BOOLEAN /\ s.bit24 \in BOOLEAN /\ s.bit16 \in BOOLEAN
    /\ \/ widths = {} /\ s.mayautochoose /\ ~s.bit24 /\ ~s.bit16
       \/ widths = {2} /\ ~s.mayautochoose /\ ~s.bit24 /\ s.bit16
       \/ widths = {3} /\ ~s.mayautochoose /\ s.bit24 /\ ~s.bit16
       \/ widths = {4} /\ ~s.mayautochoose /\ ~s.bit24 /\ ~s.bit16

OptionsInv ==
    /\ ending \in {"options", "-1", "resume", "create"}
    /\ ending # "-1" => NumbersRight(settings) /\ BitsRight(settings) /\ WidthRight(settings, asked)
    /\ DefaultSizeFits

(* A quotient is at most the dividend. *)
LEMMA QuotientBound ==
    ASSUME NEW b \in Int, NEW r \in Int, b >= 0, r > 0
    PROVE  b \div r \in Int /\ b \div r <= b
<1> DEFINE q == b \div r
<1>1. q \in Int /\ r * q <= b /\ b < r * (q + 1)
  BY Z3
<1>2. q <= b
  <2>1. CASE q <= 0
    BY <1>1, <2>1
  <2>2. CASE q > 0
    <3>1. (r - 1) * q >= 0
      BY <1>1, <2>2, Z3
    <3>2. r * q = (r - 1) * q + q
      BY <1>1, Z3
    <3> QED
      BY <3>1, <3>2, <1>1, Z3
  <2> QED
    BY <2>1, <2>2, <1>1
<1> QED
  BY <1>1, <1>2

LEMMA OptionsStart == OptionsInit => OptionsInv
BY SMT DEF OptionsInit, OptionsInv, NumbersRight, BitsRight, WidthRight, DefaultSizeFits, Accepted,
    Defaults


LEMMA WithNumberRight ==
    ASSUME NEW s, NEW name \in DOMAIN Lowest, NEW v \in Int, NEW widths,
           v >= Lowest[name], NumbersRight(s), BitsRight(s), WidthRight(s, widths)
    PROVE  LET t == WithNumber(s, name, v)
           IN  NumbersRight(t) /\ BitsRight(t) /\ WidthRight(t, widths)
<1> DEFINE t == WithNumber(s, name, v)
<1>1. CASE name = "bsize_for"
  <2>1. t = [s EXCEPT !.bsize_for = @ \cup {v}, !.variable = TRUE]
    BY <1>1 DEF WithNumber
  <2> HIDE DEF t
  <2>2. v >= 8
    BY <1>1 DEF Lowest
  <2>3. t.bsize_for = s.bsize_for \cup {v} /\ t.variable = TRUE
    BY SMT, <2>1 DEF NumbersRight, Defaults
  <2>4. /\ DOMAIN t = DOMAIN s /\ t.fsize = s.fsize /\ t.bsize = s.bsize /\ t.minfreespace = s.minfreespace
        /\ t.overlapgranularity = s.overlapgranularity /\ t.autoindexratio = s.autoindexratio
        /\ t.autoindexperiod = s.autoindexperiod /\ t.bruteforcelimit = s.bruteforcelimit
        /\ t.bits = s.bits /\ t.mayautochoose = s.mayautochoose /\ t.bit24 = s.bit24 /\ t.bit16 = s.bit16
    BY SMT, <2>1 DEF NumbersRight, Defaults
  <2>5. NumbersRight(t)
    BY <2>2, <2>3, <2>4 DEF NumbersRight
  <2>6. BitsRight(t) /\ WidthRight(t, widths)
    BY <2>4 DEF BitsRight, WidthRight
  <2> QED
    BY <2>5, <2>6 DEF t
<1>2. CASE name # "bsize_for"
  <2> DEFINE u == [s EXCEPT ![name] = Stored(name, v)]
  <2>1. t = SuggestAfter(name, u)
    BY SMT, <1>2 DEF WithNumber
  <2> HIDE DEF t
  <2>2. Stored(name, v) \in Int
    BY DEF Stored
  <2>3. name = "bsize" => Stored(name, v) >= 8
    BY DEF Stored, Lowest
  <2>4. name = "bruteforcelimit" => Stored(name, v) >= 1
    BY DEF Stored
  <2>5. name \in {"fsize", "bsize", "overlapgranularity", "randomcompressperiod", "autoindexratio",
                  "autoindexperiod", "minfreespace", "bruteforcelimit", "lzmafastbytes", "threads"}
    BY <1>2 DEF Lowest
  <2>6. NumbersRight(u) /\ BitsRight(u) /\ WidthRight(u, widths)
    BY SMT, <2>2, <2>3, <2>4, <2>5 DEF NumbersRight, BitsRight, WidthRight, Defaults
  <2> HIDE DEF u
  <2>7. NumbersRight(t) /\ BitsRight(t) /\ WidthRight(t, widths)
    BY SMT, <2>1, <2>6 DEF SuggestAfter, NumbersRight, BitsRight, WidthRight, Defaults
  <2> QED
    BY <2>7 DEF t
<1> QED
  BY <1>1, <1>2

LEMMA NumberKeeps ==
    ASSUME OptionsInv, NEW name \in DOMAIN OptionValues, NEW v \in OptionValues[name], Number(name, v)
    PROVE  OptionsInv'
<1>1. ending = "options" /\ asked' = asked /\ name \in DOMAIN Lowest /\ v \in Int
  BY OptionsAssumption DEF Number, More
<1>2. NumbersRight(settings) /\ BitsRight(settings) /\ WidthRight(settings, asked)
  BY <1>1 DEF OptionsInv
<1>3. CASE v < Lowest[name] \/ ~Highest(name, v)
  <2>1. ending' = "-1"
    BY <1>3 DEF Number, Refuse
  <2> QED
    BY <2>1 DEF OptionsInv, DefaultSizeFits, Accepted
<1>4. CASE ~(v < Lowest[name] \/ ~Highest(name, v))
  <2>1. ending' = "options" /\ settings' = WithNumber(settings, name, v)
    BY <1>1, <1>4 DEF Number, Set
  <2>2. v >= Lowest[name]
    BY <1>1, <1>4 DEF Lowest
  <2>3. NumbersRight(settings') /\ BitsRight(settings') /\ WidthRight(settings', asked')
    BY <1>1, <1>2, <2>1, <2>2, WithNumberRight
  <2> QED
    BY <2>1, <2>3 DEF OptionsInv, DefaultSizeFits, Accepted
<1> QED
  BY <1>3, <1>4


(* The options that leave the three conditions alone, or refuse. *)
LEMMA SwitchKeeps ==
    ASSUME OptionsInv, More, NumbersRight(settings'), BitsRight(settings'), WidthRight(settings', asked'),
           ending' = ending
    PROVE  OptionsInv'
BY DEF More, OptionsInv, DefaultSizeFits, Accepted

LEMMA RefuseKeeps ==
    ASSUME ending' = "-1"
    PROVE  OptionsInv'
BY DEF OptionsInv, DefaultSizeFits, Accepted

LEMMA FlagKeeps ==
    ASSUME OptionsInv,
           NEW name \in {"decompresslookups", "quiet", "nopackedblocks", "sparse", "resume"}, Flag(name)
    PROVE  OptionsInv'
<1>1. NumbersRight(settings) /\ BitsRight(settings) /\ WidthRight(settings, asked) /\ More
      /\ ending' = ending /\ asked' = asked
  BY DEF OptionsInv, Flag, More, Set
<1>2. \/ settings' = [settings EXCEPT !.decompress = TRUE, !.maysuggest = FALSE]
      \/ settings' = [settings EXCEPT !.maysuggest = FALSE]
      \/ settings' = [settings EXCEPT !.maypack = FALSE]
      \/ settings' = [settings EXCEPT !.sparse = TRUE]
      \/ settings' = [settings EXCEPT !.resume = TRUE]
  BY DEF Flag, Set
<1>3. CASE settings' = [settings EXCEPT !.decompress = TRUE, !.maysuggest = FALSE]
  <2>1. NumbersRight(settings') /\ BitsRight(settings') /\ WidthRight(settings', asked')
    BY SMT, <1>1, <1>3 DEF NumbersRight, BitsRight, WidthRight, Defaults
  <2> QED
    BY <1>1, <2>1, SwitchKeeps
<1>4. CASE settings' = [settings EXCEPT !.maysuggest = FALSE]
  <2>1. NumbersRight(settings') /\ BitsRight(settings') /\ WidthRight(settings', asked')
    BY SMT, <1>1, <1>4 DEF NumbersRight, BitsRight, WidthRight, Defaults
  <2> QED
    BY <1>1, <2>1, SwitchKeeps
<1>5. CASE settings' = [settings EXCEPT !.maypack = FALSE]
  <2>1. NumbersRight(settings') /\ BitsRight(settings') /\ WidthRight(settings', asked')
    BY SMT, <1>1, <1>5 DEF NumbersRight, BitsRight, WidthRight, Defaults
  <2> QED
    BY <1>1, <2>1, SwitchKeeps
<1>6. CASE settings' = [settings EXCEPT !.sparse = TRUE]
  <2>1. NumbersRight(settings') /\ BitsRight(settings') /\ WidthRight(settings', asked')
    BY SMT, <1>1, <1>6 DEF NumbersRight, BitsRight, WidthRight, Defaults
  <2> QED
    BY <1>1, <2>1, SwitchKeeps
<1>7. CASE settings' = [settings EXCEPT !.resume = TRUE]
  <2>1. NumbersRight(settings') /\ BitsRight(settings') /\ WidthRight(settings', asked')
    BY SMT, <1>1, <1>7 DEF NumbersRight, BitsRight, WidthRight, Defaults
  <2> QED
    BY <1>1, <2>1, SwitchKeeps
<1> QED
  BY <1>2, <1>3, <1>4, <1>5, <1>6, <1>7

LEMMA IndexMethodKeeps ==
    ASSUME OptionsInv, NEW method, IndexMethod(method)
    PROVE  OptionsInv'
<1>1. NumbersRight(settings) /\ BitsRight(settings) /\ WidthRight(settings, asked) /\ More
      /\ ending' = ending /\ asked' = asked /\ settings' = [settings EXCEPT !.blockindexmethod = method]
  BY DEF OptionsInv, IndexMethod, More, Set
<1>2. NumbersRight(settings') /\ BitsRight(settings') /\ WidthRight(settings', asked')
  BY SMT, <1>1 DEF NumbersRight, BitsRight, WidthRight, Defaults
<1> QED
  BY <1>1, <1>2, SwitchKeeps

LEMMA HeavyKeeps ==
    ASSUME OptionsInv, NEW level, Heavy(level)
    PROVE  OptionsInv'
<1>1. NumbersRight(settings) /\ BitsRight(settings) /\ WidthRight(settings, asked) /\ More
      /\ ending' = ending /\ asked' = asked /\ settings' = [settings EXCEPT !.heavy = level]
  BY DEF OptionsInv, Heavy, More, Set
<1>2. NumbersRight(settings') /\ BitsRight(settings') /\ WidthRight(settings', asked')
  BY SMT, <1>1 DEF NumbersRight, BitsRight, WidthRight, Defaults
<1> QED
  BY <1>1, <1>2, SwitchKeeps

LEMMA BlocknumWidthKeeps ==
    ASSUME OptionsInv, NEW width \in {2, 3, 4}, BlocknumWidth(width)
    PROVE  OptionsInv'
<1>1. NumbersRight(settings) /\ BitsRight(settings) /\ WidthRight(settings, asked) /\ More
      /\ asked' = asked \cup {width}
      /\ settings' = [settings EXCEPT !.bit24 = @ \/ width = 3, !.bit16 = @ \/ width = 2,
                                      !.mayautochoose = FALSE]
  BY DEF OptionsInv, BlocknumWidth, More
<1>2. CASE ~Alone(settings, width)
  BY <1>2, RefuseKeeps DEF BlocknumWidth, Refuse
<1>3. CASE Alone(settings, width)
  <2>1. ending' = ending
    BY <1>3 DEF BlocknumWidth
  <2>2. NumbersRight(settings') /\ BitsRight(settings')
    BY SMT, <1>1 DEF NumbersRight, BitsRight, Defaults
  <2>3. asked' = {width}
    BY <1>1, <1>3 DEF Alone, WidthRight
  <2>4. WidthRight(settings', asked')
    BY SMT, <1>1, <1>3, <2>3 DEF Alone, NumbersRight, WidthRight, Defaults
  <2> QED
    BY <1>1, <2>1, <2>2, <2>4, SwitchKeeps
<1> QED
  BY <1>2, <1>3

LEMMA LzmaBitsKeeps ==
    ASSUME OptionsInv, NEW list \in BitLists, LzmaBits(list)
    PROVE  OptionsInv'
<1>1. NumbersRight(settings) /\ BitsRight(settings) /\ WidthRight(settings, asked) /\ More /\ asked' = asked
  BY DEF OptionsInv, LzmaBits, More
<1>2. CASE ~BitsOK(list)
  BY <1>2, RefuseKeeps DEF LzmaBits, Refuse
<1>3. CASE BitsOK(list)
  <2> DEFINE numbers == [i \in 1 .. 3 |-> IF i <= Len(list) THEN list[i] ELSE settings.bits[i]]
  <2>1. ending' = ending /\ settings' = [settings EXCEPT !.heavy = 0, !.bits = numbers]
    BY <1>3 DEF LzmaBits, Set
  <2>2. list \in Seq(Int)
    BY OptionsAssumption
  <2>3. \A i \in 1 .. 3 : i <= Len(list) => list[i] \in 0 .. BitLimits[i]
    BY <2>2, <1>3 DEF BitsOK
  <2>4. numbers[1] \in 0 .. 4 /\ numbers[2] \in 0 .. 4 /\ numbers[3] \in 0 .. 8
    BY <2>2, <2>3, <1>1, SMTT(60) DEF BitsRight, BitLimits
  <2> HIDE DEF numbers
  <2>5. NumbersRight(settings') /\ WidthRight(settings', asked') /\ settings'.bits = numbers
    BY SMT, <1>1, <2>1 DEF NumbersRight, WidthRight, Defaults
  <2>6. BitsRight(settings')
    BY <2>4, <2>5 DEF BitsRight, numbers
  <2> QED
    BY <1>1, <2>1, <2>5, <2>6, SwitchKeeps
<1> QED
  BY <1>2, <1>3

LEMMA BlockifyOrderKeeps ==
    ASSUME OptionsInv, NEW k, NEW v, BlockifyOrder(k, v)
    PROVE  OptionsInv'
<1> DEFINE place == [link |-> 1, dir |-> 2, file |-> 3, inotab |-> 4]
           ordered == [settings.order EXCEPT ![place[k]] = v]
<1>1. NumbersRight(settings) /\ BitsRight(settings) /\ WidthRight(settings, asked) /\ More /\ asked' = asked
  BY DEF OptionsInv, BlockifyOrder, More
<1>2. settings' = settings \/ settings' = [settings EXCEPT !.order = ordered]
  BY SMT DEF BlockifyOrder
<1>3. ending' \in {ending, "-1"}
  BY DEF BlockifyOrder, Refuse
<1> HIDE DEF ordered
<1>4. NumbersRight(settings') /\ BitsRight(settings') /\ WidthRight(settings', asked')
  BY SMT, <1>1, <1>2 DEF NumbersRight, BitsRight, WidthRight, Defaults
<1> QED
  BY <1>1, <1>3, <1>4, SwitchKeeps, RefuseKeeps

LEMMA EndOptionsKeeps ==
    ASSUME OptionsInv, EndOptions
    PROVE  OptionsInv'
<1>1. NumbersRight(settings) /\ BitsRight(settings) /\ WidthRight(settings, asked) /\ asked' = asked
  BY DEF OptionsInv, EndOptions
<1>2. CASE Cannot(settings)
  BY <1>2, RefuseKeeps DEF EndOptions, Refuse
<1>3. CASE ~Cannot(settings)
  <2> DEFINE s == settings
             granularity == IF s.overlapgranularity >= s.bsize THEN 0 ELSE s.overlapgranularity
             period == IF s.autoindexratio > 0 THEN s.bsize \div s.autoindexratio ELSE s.autoindexperiod
  <2>1. settings' = [s EXCEPT !.overlapgranularity = granularity, !.autoindexperiod = period]
    BY <1>3 DEF EndOptions, Adjusted
  <2>2. ending' \in {"resume", "create"}
    BY <1>3 DEF EndOptions
  <2>3. granularity \in Int /\ granularity < s.bsize
    BY <1>1 DEF NumbersRight
  <2>4. period \in Int /\ (s.autoindexratio > 0 => period \in 1 .. s.bsize)
    BY <1>1, <1>3, QuotientBound DEF NumbersRight, Cannot
  <2>5. s.bsize <= s.fsize /\ s.minfreespace < s.fsize
    BY <1>1, <1>3 DEF NumbersRight, Cannot
  <2> HIDE DEF granularity, period
  <2>6. NumbersRight(settings') /\ BitsRight(settings') /\ WidthRight(settings', asked')
    BY SMT, <1>1, <2>1, <2>3, <2>4 DEF NumbersRight, BitsRight, WidthRight, Defaults
  <2>7. /\ settings'.overlapgranularity = granularity /\ settings'.autoindexperiod = period
        /\ settings'.bsize = s.bsize /\ settings'.fsize = s.fsize /\ settings'.minfreespace = s.minfreespace
        /\ settings'.autoindexratio = s.autoindexratio /\ settings'.bruteforcelimit = s.bruteforcelimit
    BY SMT, <1>1, <2>1 DEF NumbersRight, Defaults
  <2>8. DefaultSizeFits'
    BY <1>1, <2>3, <2>4, <2>5, <2>7 DEF DefaultSizeFits, NumbersRight
  <2> QED
    BY <2>2, <2>6, <2>8 DEF OptionsInv
<1> QED
  BY <1>2, <1>3

LEMMA SuggestKeeps ==
    ASSUME OptionsInv, SuggestDecompression
    PROVE  OptionsInv'
<1>1. NumbersRight(settings) /\ BitsRight(settings) /\ WidthRight(settings, asked) /\ asked' = asked
      /\ DefaultSizeFits /\ Accepted /\ ending' = ending
      /\ settings' = [settings EXCEPT !.decompress = TRUE, !.randomcompressperiod = 100000, !.maysuggest = FALSE]
  BY DEF OptionsInv, SuggestDecompression, Accepted
<1>2. /\ settings'.overlapgranularity = settings.overlapgranularity
      /\ settings'.autoindexperiod = settings.autoindexperiod
      /\ settings'.bsize = settings.bsize /\ settings'.fsize = settings.fsize
      /\ settings'.minfreespace = settings.minfreespace
      /\ settings'.autoindexratio = settings.autoindexratio
      /\ settings'.bruteforcelimit = settings.bruteforcelimit
  BY SMT, <1>1 DEF NumbersRight, Defaults
<1>3. NumbersRight(settings') /\ BitsRight(settings') /\ WidthRight(settings', asked')
  BY SMT, <1>1 DEF NumbersRight, BitsRight, WidthRight, Defaults
<1>4. DefaultSizeFits'
  BY <1>1, <1>2 DEF DefaultSizeFits, Accepted
<1> QED
  BY <1>1, <1>3, <1>4 DEF OptionsInv

LEMMA OptionsStep == OptionsInv /\ [OptionsNext]_optionVars => OptionsInv'
<1> SUFFICES ASSUME OptionsInv, [OptionsNext]_optionVars
             PROVE  OptionsInv'
  OBVIOUS
<1>1. ASSUME NEW name \in DOMAIN OptionValues, NEW v \in OptionValues[name], Number(name, v)
      PROVE  OptionsInv'
  BY <1>1, NumberKeeps
<1>2. ASSUME NEW name \in {"decompresslookups", "quiet", "nopackedblocks", "sparse", "resume"}, Flag(name)
      PROVE  OptionsInv'
  BY <1>2, FlagKeeps
<1>3. ASSUME NEW method, IndexMethod(method)
      PROVE  OptionsInv'
  BY <1>3, IndexMethodKeeps
<1>4. CASE WrongWord
  BY <1>4, RefuseKeeps DEF WrongWord, Refuse
<1>5. ASSUME NEW width \in {2, 3, 4}, BlocknumWidth(width)
      PROVE  OptionsInv'
  BY <1>5, BlocknumWidthKeeps
<1>6. ASSUME NEW level, Heavy(level)
      PROVE  OptionsInv'
  BY <1>6, HeavyKeeps
<1>7. ASSUME NEW list \in BitLists, LzmaBits(list)
      PROVE  OptionsInv'
  BY <1>7, LzmaBitsKeeps
<1>8. ASSUME NEW k, NEW v, BlockifyOrder(k, v)
      PROVE  OptionsInv'
  BY <1>8, BlockifyOrderKeeps
<1>9. CASE EndOptions
  BY <1>9, EndOptionsKeeps
<1>10. CASE SuggestDecompression
  BY <1>10, SuggestKeeps
<1>11. CASE UNCHANGED optionVars
  BY <1>11 DEF optionVars, OptionsInv, NumbersRight, BitsRight, WidthRight, DefaultSizeFits, Accepted
<1> QED
  BY <1>1, <1>2, <1>3, <1>4, <1>5, <1>6, <1>7, <1>8, <1>9, <1>10, <1>11 DEF OptionsNext, OptionsDone

LEMMA OptionsInvUsable == OptionsInv => SettingsUsable
<1> SUFFICES ASSUME OptionsInv PROVE SettingsUsable
  OBVIOUS
<1>1. CASE ~Accepted
  BY <1>1 DEF SettingsUsable, OneWidth, EncoderAccepts, DefaultSizeFits, BlockSizesTaken
<1>2. CASE Accepted
  <2>1. BitsRight(settings) /\ WidthRight(settings, asked)
    BY <1>2 DEF OptionsInv, Accepted
  <2>2. Cardinality(asked) <= 1
    <3>1. asked = {} => Cardinality(asked) = 0
      BY FS_EmptySet
    <3>2. ASSUME NEW w, asked = {w}
          PROVE  Cardinality(asked) = 1
      BY <3>2, FS_Singleton
    <3> QED
      BY <2>1, <3>1, <3>2 DEF WidthRight
  <2>3. OneWidth
    BY <2>1, <2>2 DEF OneWidth, WidthRight
  <2>4. EncoderAccepts
    BY <2>1 DEF EncoderAccepts, BitsRight
  <2>5. BlockSizesTaken
    BY <1>2 DEF OptionsInv, NumbersRight, BlockSizesTaken, Accepted
  <2> QED
    BY <2>3, <2>4, <2>5 DEF OptionsInv, SettingsUsable
<1> QED
  BY <1>1, <1>2

(* Whatever the user asked for in whichever order: an accepted command line   *)
(* gives one width of block numbers, LZMA limits that the encoder takes, a    *)
(* default block size that fits --fsize, and block sizes of single files of   *)
(* 8 at least; how large those are, main leaves unchecked.                    *)
THEOREM SettingsSafe == OptionsInit /\ [][OptionsNext]_optionVars => []SettingsUsable
<1>1. OptionsInit => OptionsInv
  BY OptionsStart
<1>2. OptionsInv /\ [OptionsNext]_optionVars => OptionsInv'
  BY OptionsStep
<1>3. OptionsInv => SettingsUsable
  BY OptionsInvUsable
<1> QED
  BY <1>1, <1>2, <1>3, PTL

-----------------------------------------------------------------------------
(* The mapped vectors: the inductive invariant.                             *)

Numbers == Seq(Int)

\* What was never handed out is zero.
GoodStore(s) ==
    /\ s = [alloc_cap |-> s.alloc_cap, zero_cap |-> s.zero_cap, cells |-> s.cells]
    /\ s.alloc_cap \in Nat /\ s.zero_cap \in Nat /\ s.alloc_cap <= s.zero_cap
    /\ s.cells \in [0 .. s.zero_cap - 1 -> Int]
    /\ \A p \in s.alloc_cap .. s.zero_cap - 1 : s.cells[p] = 0

GoodSection(s, x, length) ==
    /\ x = [offset |-> 0, length |-> length, fileoffset |-> x.fileoffset, map |-> x.map, data |-> x.data]
    /\ x.fileoffset \in Nat /\ x.map \in BOOLEAN
    /\ x.map => x.fileoffset + length <= s.alloc_cap
    /\ ~x.map => x.data \in Numbers /\ Len(x.data) = length

GoodVector(s, v) ==
    /\ v = [real |-> v.real, reported |-> v.reported, lazy |-> v.lazy, data |-> v.data]
    /\ v.real \in Nat /\ v.reported \in Nat /\ v.lazy \in Nat
    /\ v.reported <= v.lazy /\ v.real <= v.lazy
    /\ \/ v.real = 0 /\ v.data = <<>>
       \/ v.real > 0 /\ v.data = <<v.data[1]>> /\ GoodSection(s, v.data[1], v.real)

\* Item i of a vector of one section.
Item(s, v, i) ==
    IF v.data[1].map THEN s.cells[v.data[1].fileoffset + i - 1] ELSE v.data[1].data[i]

\* The items are those that were told, and zeros behind them.
Holds(s, v, list) ==
    /\ list \in Numbers /\ Len(list) <= v.real /\ Len(list) <= v.reported
    /\ \A i \in 1 .. v.real : Item(s, v, i) = IF i <= Len(list) THEN list[i] ELSE 0

EndOf(v) == v.data[1].fileoffset + v.real

\* The blocks come behind the inode table in the file, and nothing behind them.
MmapInv ==
    /\ GoodStore(store)
    /\ vector = [inotab |-> vector.inotab, blocks |-> vector.blocks]
    /\ told = [inotab |-> told.inotab, blocks |-> told.blocks]
    /\ GoodVector(store, vector.inotab) /\ Holds(store, vector.inotab, told.inotab)
    /\ GoodVector(store, vector.blocks) /\ Holds(store, vector.blocks, told.blocks)
    /\ counts \in Nat \X Nat
    /\ phase \in {"walk", "files", "released", "inotab"}
    /\ vector.inotab.real \in {0, vector.inotab.lazy}
    /\ phase = "walk" => /\ vector.blocks = EmptyVector
                         /\ vector.inotab.reported = 0 => vector.inotab = EmptyVector
    /\ phase # "walk" => vector.inotab.real > 0
    /\ inodes \subseteq 0 .. vector.inotab.reported - 1
    /\ inodes # {} => vector.inotab.real > 0
    /\ vector.inotab.real > 0 => vector.inotab.reported > 0
    /\ vector.blocks.real > 0 =>
          /\ EndOf(vector.blocks) = store.alloc_cap
          /\ vector.inotab.data[1].map => EndOf(vector.inotab) <= vector.blocks.data[1].fileoffset

-----------------------------------------------------------------------------
(* The operators of the storage and of a vector.                             *)

(* The multiples that are rounded up to. *)
LEMMA Multiples ==
    ASSUME NEW b \in Nat \ {0}, NEW n \in Nat
    PROVE  (n + b - 1) \div b \in Nat /\ ((n + b - 1) \div b) * b >= n
<1> DEFINE q == (n + b - 1) \div b
<1>1. q \in Int /\ n + b - 1 < b * (q + 1) /\ q >= 0
  BY Z3
<1>2. b * (q + 1) = q * b + b
  BY <1>1, Z3
<1>3. q * b \in Int
  BY <1>1
<1> QED
  BY <1>1, <1>2, <1>3

LEMMA RoundUpRight ==
    ASSUME NEW n \in Nat
    PROVE  RoundUp(n) \in Nat /\ RoundUp(n) >= n
<1>1. ((n + PageSize - 1) \div PageSize) * PageSize \in Int
  BY Multiples, MmapAssumption
<1> QED
  BY <1>1, Multiples, MmapAssumption DEF RoundUp

LEMMA MaxOfTwo ==
    ASSUME NEW a \in Int, NEW b \in Int
    PROVE  Max({a, b}) = IF a >= b THEN a ELSE b
<1> DEFINE m == IF a >= b THEN a ELSE b
<1>1. m \in {a, b} /\ \A y \in {a, b} : m >= y
  OBVIOUS
<1>2. \A x \in {a, b} : (\A y \in {a, b} : x >= y) => x = m
  OBVIOUS
<1> QED
  BY <1>1, <1>2 DEF Max

LEMMA MaxOfOne ==
    ASSUME NEW a \in Int
    PROVE  Max({a}) = a
BY DEF Max

(* The storage that is made to reach a cap keeps its cells. *)
LEMMA ExtendedRight ==
    ASSUME NEW s, NEW cap \in Nat, GoodStore(s), cap >= s.alloc_cap
    PROVE  /\ GoodStore(Extended(s, cap)) /\ Extended(s, cap).alloc_cap = cap
           /\ \A p \in 0 .. Extended(s, cap).zero_cap - 1 :
                 Extended(s, cap).cells[p] = IF p < s.zero_cap THEN s.cells[p] ELSE 0
           /\ Extended(s, cap).zero_cap >= s.zero_cap
<1> DEFINE t == [s EXCEPT !.alloc_cap = cap]
           n == IF cap <= t.zero_cap THEN 0 ELSE (cap - t.zero_cap + ZeroBlockSize - 1) \div ZeroBlockSize
           z == t.zero_cap + n * ZeroBlockSize
           c == [p \in 0 .. z - 1 |-> IF p < t.zero_cap THEN t.cells[p] ELSE 0]
<1>1. t = [alloc_cap |-> cap, zero_cap |-> s.zero_cap, cells |-> s.cells] /\ s.zero_cap \in Nat
  BY DEF GoodStore
<1>2. Extended(s, cap) = [alloc_cap |-> cap, zero_cap |-> z, cells |-> c]
  <2>1. Extended(s, cap) = [t EXCEPT !.zero_cap = z, !.cells = c]
    BY DEF Extended, EnsureZeroUntil
  <2> HIDE DEF z, c
  <2> QED
    BY <2>1, <1>1
<1>3. z \in Nat /\ z >= s.zero_cap /\ z >= cap
  <2>1. CASE cap <= s.zero_cap
    BY <2>1, <1>1, MmapAssumption
  <2>2. CASE ~(cap <= s.zero_cap)
    <3> DEFINE d == cap - s.zero_cap
    <3>1. d \in Nat
      BY <1>1, <2>2
    <3>2. n = (d + ZeroBlockSize - 1) \div ZeroBlockSize
      BY <1>1, <2>2
    <3>3. n \in Nat /\ n * ZeroBlockSize >= d
      BY <3>1, <3>2, Multiples, MmapAssumption
    <3>4. n * ZeroBlockSize \in Int
      BY <3>3, MmapAssumption
    <3>5. z = s.zero_cap + n * ZeroBlockSize
      BY <1>1
    <3> HIDE DEF n, z
    <3> QED
      BY <3>1, <3>3, <3>4, <3>5, <1>1
  <2> QED
    BY <2>1, <2>2
<1>4. c \in [0 .. z - 1 -> Int] /\ \A p \in 0 .. z - 1 : c[p] = IF p < s.zero_cap THEN s.cells[p] ELSE 0
  <2> HIDE DEF z
  <2> QED
    BY <1>1, <1>3 DEF GoodStore
<1> HIDE DEF z, c
<1>5. \A p \in cap .. z - 1 : c[p] = 0
  BY <1>3, <1>4 DEF GoodStore
<1> QED
  BY <1>2, <1>3, <1>4, <1>5, <1>1 DEF GoodStore, c

LEMMA SectionIsFirst ==
    ASSUME NEW s, NEW v, GoodVector(s, v), v.real > 0, NEW i \in 0 .. v.real - 1
    PROVE  /\ SectionOf(v, i) = 1 /\ HolderOf(v, i) = 1
           /\ v.data = <<v.data[1]>> /\ DOMAIN v.data = {1} /\ Len(v.data) = 1
           /\ GoodSection(s, v.data[1], v.real)
<1>1. v.data = <<v.data[1]>> /\ GoodSection(s, v.data[1], v.real)
  BY DEF GoodVector
<1>2. DOMAIN v.data = {1} /\ Len(v.data) = 1
  <2> DEFINE x == v.data[1]
  <2>1. v.data = <<x>>
    BY <1>1
  <2> HIDE DEF x
  <2> QED
    BY <2>1
<1>3. v.data[1].offset = 0
  BY <1>1 DEF GoodSection
<1>4. {k \in DOMAIN v.data : v.data[k].offset <= i} = {1}
  BY <1>2, <1>3
<1>5. {1} \cup {k \in DOMAIN v.data : v.data[k].offset < i} = {1}
  BY <1>2
<1>6. HolderOf(v, i) = 1
  BY <1>4, MaxOfOne DEF HolderOf
<1>7. SectionOf(v, i) = 1
  BY <1>5, MaxOfOne DEF SectionOf
<1> QED
  BY <1>1, <1>2, <1>6, <1>7

LEMMA ContentRight ==
    ASSUME NEW s, NEW v, GoodStore(s), GoodVector(s, v), v.real > 0
    PROVE  /\ Content(s, v.data[1]) \in Numbers /\ Len(Content(s, v.data[1])) = v.real
           /\ \A i \in 1 .. v.real : Content(s, v.data[1])[i] = Item(s, v, i)
<1> DEFINE x == v.data[1]
<1>1. GoodSection(s, x, v.real) /\ v.real \in Nat
  BY DEF GoodVector
<1>2. x.length = v.real /\ x.fileoffset \in Nat
  BY <1>1 DEF GoodSection
<1>3. CASE x.map
  <2>1. x.fileoffset + v.real <= s.zero_cap
    BY <1>1, <1>2, <1>3 DEF GoodSection, GoodStore
  <2>2. \A i \in 1 .. v.real : s.cells[x.fileoffset + i - 1] \in Int
    BY <1>1, <1>2, <2>1, SMTT(60) DEF GoodStore
  <2>3. Content(s, x) = [i \in 1 .. v.real |-> s.cells[x.fileoffset + i - 1]]
    BY <1>2, <1>3 DEF Content
  <2> QED
    BY <1>1, <1>3, <2>2, <2>3 DEF Numbers, Item
<1>4. CASE ~x.map
  BY <1>1, <1>4 DEF GoodSection, Content, Item
<1> QED
  BY <1>3, <1>4

LEMMA ItemsAre ==
    ASSUME NEW s, NEW v, GoodStore(s), GoodVector(s, v)
    PROVE  /\ Items(s, v) = [i \in 1 .. v.real |-> Item(s, v, i)]
           /\ Items(s, v) \in Numbers /\ Len(Items(s, v)) = v.real
<1>1. v.real \in Nat
  BY DEF GoodVector
<1>2. ASSUME NEW i \in 1 .. v.real
      PROVE  /\ Content(s, v.data[HolderOf(v, i - 1)])[i - v.data[HolderOf(v, i - 1)].offset] = Item(s, v, i)
             /\ Item(s, v, i) \in Int
  <2>1. v.real > 0 /\ i - 1 \in 0 .. v.real - 1
    BY <1>1
  <2>2. HolderOf(v, i - 1) = 1 /\ GoodSection(s, v.data[1], v.real)
    BY <2>1, SectionIsFirst
  <2>3. v.data[1].offset = 0
    BY <2>2 DEF GoodSection
  <2>4. i - v.data[HolderOf(v, i - 1)].offset = i
    BY <2>2, <2>3
  <2>5. Content(s, v.data[1])[i] = Item(s, v, i) /\ Content(s, v.data[1])[i] \in Int
    BY <2>1, <1>1, ContentRight DEF Numbers
  <2> QED
    BY <2>2, <2>4, <2>5
<1>3. Items(s, v) = [i \in 1 .. v.real |-> Item(s, v, i)]
  BY <1>2 DEF Items
<1> QED
  BY <1>1, <1>2, <1>3 DEF Numbers

(* A larger storage with the same cells where the vector is leaves it as it   *)
(* was. *)
LEMMA OtherStore ==
    ASSUME NEW s, NEW t, NEW v, NEW list, GoodStore(s), GoodVector(s, v), Holds(s, v, list),
           s.alloc_cap <= t.alloc_cap, t.alloc_cap \in Nat,
           v.real > 0 /\ v.data[1].map =>
              \A p \in v.data[1].fileoffset .. EndOf(v) - 1 : t.cells[p] = s.cells[p]
    PROVE  GoodVector(t, v) /\ Holds(t, v, list)
<1>1. s.alloc_cap \in Nat
  BY DEF GoodStore
<1>2. GoodVector(t, v)
  BY <1>1 DEF GoodVector, GoodSection
<1>3. ASSUME NEW i \in 1 .. v.real
      PROVE  Item(t, v, i) = Item(s, v, i)
  <2>1. v.real \in Nat /\ v.real > 0 /\ v.data[1].fileoffset \in Nat
    BY DEF GoodVector, GoodSection
  <2>2. v.data[1].fileoffset + i - 1 \in v.data[1].fileoffset .. EndOf(v) - 1
    BY <2>1 DEF EndOf
  <2> QED
    BY <2>1, <2>2 DEF Item
<1> QED
  BY <1>2, <1>3 DEF Holds

(* A section with another length and other memory. *)
LEMMA SectionExcept ==
    ASSUME NEW x, NEW n, NEW start, NEW isMapped, NEW own, NEW length, NEW map, NEW data, NEW y,
           x = [offset |-> 0, length |-> n, fileoffset |-> start, map |-> isMapped, data |-> own],
           y = [x EXCEPT !.length = length, !.map = map, !.data = data]
    PROVE  y = [offset |-> 0, length |-> length, fileoffset |-> start, map |-> map, data |-> data]
OBVIOUS

(* A vector that needs more memory gets it behind everything else. *)
LEMMA EnsureRealRight ==
    ASSUME NEW s, NEW v, NEW list, NEW works \in BOOLEAN,
           GoodStore(s), GoodVector(s, v), Holds(s, v, list),
           v.real > 0 /\ v.real < v.lazy => EndOf(v) = s.alloc_cap
    PROVE  LET t == EnsureReal(s, v, works)[1]  w == EnsureReal(s, v, works)[2]
           IN  /\ EnsureReal(s, v, works) = <<t, w>>
               /\ GoodStore(t) /\ GoodVector(t, w) /\ Holds(t, w, list)
               /\ s.alloc_cap <= t.alloc_cap
               /\ \A p \in 0 .. s.alloc_cap - 1 : t.cells[p] = s.cells[p]
               /\ w.real = v.lazy /\ w.lazy = v.lazy /\ w.reported = v.reported
               /\ v.real = v.lazy => t = s /\ w = v
               /\ v.real < v.lazy => EndOf(w) = t.alloc_cap
               /\ v.real = 0 /\ v.lazy > 0 => w.data[1].fileoffset >= s.alloc_cap
               /\ v.real > 0 => w.data[1].fileoffset = v.data[1].fileoffset
<1> DEFINE both == EnsureReal(s, v, works)
           t == both[1]
           w == both[2]
<1>1. v.real \in Nat /\ v.lazy \in Nat /\ v.reported \in Nat /\ v.real <= v.lazy /\ v.reported <= v.lazy
  BY DEF GoodVector
<1>2. s.alloc_cap \in Nat /\ s.zero_cap \in Nat /\ s.alloc_cap <= s.zero_cap
  BY DEF GoodStore
<1>3. CASE v.real = v.lazy
  <2>1. both = <<s, v>>
    BY <1>1, <1>3 DEF EnsureReal
  <2> HIDE DEF both
  <2> QED
    BY <2>1, <1>1, <1>2, <1>3 DEF both
<1>4. CASE v.real = 0 /\ v.real < v.lazy
  <2> DEFINE start == RoundUp(s.alloc_cap)
             x == [offset |-> v.real, length |-> v.lazy - v.real, fileoffset |-> start, map |-> works,
                   data |-> IF works THEN <<>> ELSE Zeros(v.lazy - v.real)]
  <2>1. v.data = <<>>
    BY <1>4 DEF GoodVector
  <2>2. both = <<Extended(s, start + (v.lazy - v.real)), [v EXCEPT !.data = Append(@, x), !.real = v.lazy]>>
    BY <1>1, <1>4, <2>1 DEF EnsureReal, AddSection
  <2>3. start \in Nat /\ start >= s.alloc_cap
    BY <1>2, RoundUpRight
  <2>4. v.lazy - v.real = v.lazy /\ v.lazy > 0
    BY <1>1, <1>4
  <2>5. t = Extended(s, start + v.lazy)
    BY <2>2, <2>4
  <2>6. Append(v.data, x) = <<x>>
    BY <2>1
  <2>7. w = [real |-> v.lazy, reported |-> v.reported, lazy |-> v.lazy, data |-> <<x>>]
    <3>1. w = [v EXCEPT !.data = Append(@, x), !.real = v.lazy]
      BY <2>2
    <3>2. v = [real |-> v.real, reported |-> v.reported, lazy |-> v.lazy, data |-> v.data]
      BY DEF GoodVector
    <3> HIDE DEF x, w
    <3> QED
      BY <3>1, <3>2, <2>6
  <2>8. both = <<t, w>>
    BY <2>2
  <2>9. x = [offset |-> 0, length |-> v.lazy, fileoffset |-> start, map |-> works,
             data |-> IF works THEN <<>> ELSE Zeros(v.lazy)]
    BY <2>4, <1>4
  <2> HIDE DEF start, x, both
  <2>10. /\ GoodStore(t) /\ t.alloc_cap = start + v.lazy /\ t.zero_cap \in Nat
         /\ t.alloc_cap <= t.zero_cap /\ s.zero_cap <= t.zero_cap
         /\ \A p \in 0 .. t.zero_cap - 1 : t.cells[p] = IF p < s.zero_cap THEN s.cells[p] ELSE 0
    <3>1. start + v.lazy \in Nat /\ start + v.lazy >= s.alloc_cap
      BY <2>3, <1>1, <1>2
    <3> QED
      BY <3>1, <2>5, ExtendedRight DEF GoodStore
  <2>11. /\ w.real = v.lazy /\ w.reported = v.reported /\ w.lazy = v.lazy /\ w.data = <<x>> /\ w.data[1] = x
    BY <2>7
  <2>12. x.fileoffset = start /\ x.map = works /\ x.offset = 0 /\ x.length = v.lazy
         /\ (~works => x.data = Zeros(v.lazy))
    BY <2>9
  <2>13. Zeros(v.lazy) \in Numbers /\ Len(Zeros(v.lazy)) = v.lazy /\ \A i \in 1 .. v.lazy : Zeros(v.lazy)[i] = 0
    BY <1>1 DEF Zeros, Numbers
  <2>14. GoodSection(t, x, v.lazy)
    BY <2>3, <2>9, <2>10, <2>12, <2>13 DEF GoodSection
  <2>15. GoodVector(t, w)
    BY <1>1, <2>4, <2>7, <2>11, <2>14 DEF GoodVector
  <2>16. ASSUME NEW i \in 1 .. v.lazy
         PROVE  Item(t, w, i) = 0
    <3>1. CASE works
      <4>1. Item(t, w, i) = t.cells[start + i - 1]
        BY <3>1, <2>11, <2>12 DEF Item
      <4>2. start + i - 1 \in 0 .. t.zero_cap - 1 /\ start + i - 1 >= s.alloc_cap /\ t.alloc_cap <= t.zero_cap
        BY <2>3, <2>10, <1>1, <1>2
      <4>3. CASE start + i - 1 < s.zero_cap
        BY <4>1, <4>2, <4>3, <2>10, <1>2, <2>3, SMTT(60) DEF GoodStore
      <4>4. CASE start + i - 1 >= s.zero_cap
        <5>1. t.cells[start + i - 1] = 0
          BY <4>2, <4>4, <2>10, <2>3, <1>1, <1>2
        <5> QED
          BY <5>1, <4>1
      <4> QED
        BY <4>3, <4>4, <2>3, <1>2
    <3>2. CASE ~works
      BY <3>2, <2>11, <2>12, <2>13 DEF Item
    <3> QED
      BY <3>1, <3>2
  <2>17. Len(list) = 0 /\ list \in Numbers
    BY <1>4 DEF Holds, Numbers
  <2>18. Holds(t, w, list)
    BY <2>11, <2>16, <2>17, <1>1 DEF Holds
  <2> QED
    BY <1>1, <1>2, <1>4, <2>3, <2>8, <2>10, <2>11, <2>12, <2>15, <2>18 DEF EndOf, both
<1>5. CASE v.real > 0 /\ v.real < v.lazy
  <2> DEFINE x == v.data[1]
             y == [x EXCEPT !.length = v.lazy, !.map = x.map /\ works,
                            !.data = IF x.map /\ works THEN <<>>
                                     ELSE Content(s, x) \o Zeros(v.lazy - v.real)]
  <2>1. v.data = <<x>> /\ GoodSection(s, x, v.real)
    BY <1>5 DEF GoodVector
  <2>2. x = [offset |-> 0, length |-> v.real, fileoffset |-> x.fileoffset, map |-> x.map, data |-> x.data]
        /\ x.fileoffset \in Nat /\ x.map \in BOOLEAN
    BY <2>1 DEF GoodSection
  <2>3. x.offset = 0 /\ x.length = v.real
    BY <2>2
  <2>4. Last(v.data) = x /\ v.data # <<>> /\ Append(Front(v.data), y) = <<y>>
    <3> HIDE DEF x, y
    <3>1. Len(v.data) = 1
      BY <2>1
    <3>2. Front(v.data) = <<>>
      BY <2>1, <3>1 DEF Front
    <3> QED
      BY <2>1, <3>1, <3>2 DEF Last
  <2>5. x.fileoffset + v.real = s.alloc_cap
    BY <1>5 DEF EndOf
  <2>6. both = ExtendLast(s, v, works)
    BY <1>1, <1>5, <2>3, <2>4, <2>5 DEF EnsureReal, TryAllocExtend
  <2>7. v.lazy - x.offset = v.lazy
    BY <2>3, <1>1
  <2>8. both = <<Extended(s, x.fileoffset + v.lazy), [v EXCEPT !.data = <<y>>, !.real = v.lazy]>>
    BY <2>3, <2>4, <2>6, <2>7 DEF ExtendLast
  <2>9. t = Extended(s, x.fileoffset + v.lazy) /\ both = <<t, w>>
    BY <2>8
  <2>10. w = [real |-> v.lazy, reported |-> v.reported, lazy |-> v.lazy, data |-> <<y>>]
    <3>1. w = [v EXCEPT !.data = <<y>>, !.real = v.lazy]
      BY <2>8
    <3>2. v = [real |-> v.real, reported |-> v.reported, lazy |-> v.lazy, data |-> v.data]
      BY DEF GoodVector
    <3> HIDE DEF y, w
    <3> QED
      BY <3>1, <3>2
  <2> DEFINE copy == Content(s, x) \o Zeros(v.lazy - v.real)
  <2>11. y = [offset |-> 0, length |-> v.lazy, fileoffset |-> x.fileoffset, map |-> x.map /\ works,
              data |-> IF x.map /\ works THEN <<>> ELSE copy]
    <3> DEFINE m == x.map /\ works
               d == IF x.map /\ works THEN <<>> ELSE copy
    <3>1. y = [x EXCEPT !.length = v.lazy, !.map = m, !.data = d]
      OBVIOUS
    <3> HIDE DEF x, m, d, y
    <3>2. y = [offset |-> 0, length |-> v.lazy, fileoffset |-> x.fileoffset, map |-> m, data |-> d]
      <4>1. PICK start, isMapped, own :
               x = [offset |-> 0, length |-> v.real, fileoffset |-> start, map |-> isMapped, data |-> own]
        BY <2>2
      <4>2. x.fileoffset = start
        BY <4>1
      <4> QED
        BY <3>1, <4>1, <4>2, SectionExcept
    <3> QED
      BY <3>2 DEF m, d
  <2>12. /\ copy \in Numbers /\ Len(copy) = v.lazy
         /\ \A i \in 1 .. v.lazy : copy[i] = IF i <= v.real THEN Item(s, v, i) ELSE 0
    <3> DEFINE c == Content(s, x)
               z == Zeros(v.lazy - v.real)
    <3>1. c \in Numbers /\ Len(c) = v.real /\ \A i \in 1 .. v.real : c[i] = Item(s, v, i)
      BY <1>5, ContentRight
    <3>2. z \in Numbers /\ Len(z) = v.lazy - v.real /\ \A i \in 1 .. v.lazy - v.real : z[i] = 0
      BY <1>1 DEF Zeros, Numbers
    <3> HIDE DEF c, z
    <3>3. c \o z \in Numbers /\ Len(c \o z) = Len(c) + Len(z)
      BY <3>1, <3>2, ConcatProperties DEF Numbers
    <3>4. \A i \in 1 .. v.lazy : (c \o z)[i] = IF i <= v.real THEN c[i] ELSE z[i - v.real]
      <4>1. \A i \in 1 .. Len(c) + Len(z) : (c \o z)[i] = IF i <= Len(c) THEN c[i] ELSE z[i - Len(c)]
        BY <3>1, <3>2, ConcatProperties DEF Numbers
      <4>2. Len(c) = v.real /\ Len(c) + Len(z) = v.lazy
        BY <3>1, <3>2, <1>1
      <4> QED
        BY <4>1, <4>2
    <3> QED
      BY <3>1, <3>2, <3>3, <3>4, <1>1, SMTT(60) DEF c, z
  <2> HIDE DEF both, y, copy
  <2>13. /\ GoodStore(t) /\ t.alloc_cap = x.fileoffset + v.lazy /\ t.zero_cap \in Nat
         /\ t.alloc_cap <= t.zero_cap /\ s.zero_cap <= t.zero_cap
         /\ \A p \in 0 .. t.zero_cap - 1 : t.cells[p] = IF p < s.zero_cap THEN s.cells[p] ELSE 0
    <3>1. x.fileoffset + v.lazy \in Nat /\ x.fileoffset + v.lazy >= s.alloc_cap
      BY <2>2, <2>5, <1>1, <1>2
    <3>2. t = Extended(s, x.fileoffset + v.lazy)
      BY <2>9
    <3> QED
      BY <3>1, <3>2, ExtendedRight DEF GoodStore
  <2>14. /\ w.real = v.lazy /\ w.reported = v.reported /\ w.lazy = v.lazy /\ w.data = <<y>> /\ w.data[1] = y
    BY <2>10
  <2>15. /\ y.fileoffset = x.fileoffset /\ y.map = (x.map /\ works)
         /\ ~(x.map /\ works) => y.data = copy
    BY <2>11
  <2>16. GoodSection(t, y, v.lazy)
    BY <2>2, <2>11, <2>12, <2>13, <2>15 DEF GoodSection
  <2>17. GoodVector(t, w)
    BY <1>1, <1>5, <2>10, <2>14, <2>16 DEF GoodVector
  <2>18. ASSUME NEW i \in 1 .. v.lazy
         PROVE  Item(t, w, i) = IF i <= v.real THEN Item(s, v, i) ELSE 0
    <3>1. CASE x.map /\ works
      <4>1. Item(t, w, i) = t.cells[x.fileoffset + i - 1]
        BY <3>1, <2>14, <2>15 DEF Item
      <4>2. x.fileoffset + i - 1 \in 0 .. t.zero_cap - 1 /\ t.alloc_cap <= t.zero_cap
        BY <2>2, <2>13, <1>1, <1>2
      <4>3. CASE i <= v.real
        <5>1. x.fileoffset + i - 1 < s.zero_cap
          BY <2>2, <2>5, <1>1, <1>2, <4>3
        <5>2. t.cells[x.fileoffset + i - 1] = s.cells[x.fileoffset + i - 1]
          BY <4>2, <5>1, <2>13
        <5>3. Item(s, v, i) = s.cells[x.fileoffset + i - 1]
          BY <3>1 DEF Item
        <5> QED
          BY <4>1, <4>3, <5>2, <5>3
      <4>4. CASE i > v.real /\ x.fileoffset + i - 1 < s.zero_cap
        <5>1. x.fileoffset + i - 1 \in s.alloc_cap .. s.zero_cap - 1
          BY <2>2, <2>5, <1>1, <1>2, <4>4
        <5>2. s.cells[x.fileoffset + i - 1] = 0
          BY <5>1 DEF GoodStore
        <5>3. t.cells[x.fileoffset + i - 1] = s.cells[x.fileoffset + i - 1]
          BY <4>2, <4>4, <2>13
        <5> QED
          BY <4>1, <4>4, <5>2, <5>3, <1>1
      <4>5. CASE i > v.real /\ x.fileoffset + i - 1 >= s.zero_cap
        <5>1. t.cells[x.fileoffset + i - 1] = 0
          BY <4>2, <4>5, <2>13, <1>2
        <5> QED
          BY <4>1, <4>5, <5>1, <1>1
      <4> QED
        BY <4>3, <4>4, <4>5, <2>2, <1>1, <1>2
    <3>2. CASE ~(x.map /\ works)
      BY <3>2, <2>12, <2>14, <2>15 DEF Item
    <3> QED
      BY <3>1, <3>2
  <2>19. Holds(t, w, list)
    <3>1. list \in Numbers /\ Len(list) \in Nat /\ Len(list) <= v.real /\ Len(list) <= v.reported
      BY DEF Holds, Numbers
    <3>2. \A i \in 1 .. v.lazy : Item(t, w, i) = IF i <= Len(list) THEN list[i] ELSE 0
      BY <3>1, <2>18, <1>1 DEF Holds
    <3> QED
      BY <3>1, <3>2, <2>14, <1>1 DEF Holds
  <2>20. \A p \in 0 .. s.alloc_cap - 1 : t.cells[p] = s.cells[p]
    BY <1>2, <2>13
  <2>21. s.alloc_cap <= t.alloc_cap /\ EndOf(w) = t.alloc_cap
    BY <1>1, <1>5, <2>2, <2>5, <2>13, <2>14, <2>15 DEF EndOf
  <2>22. w.data[1].fileoffset = v.data[1].fileoffset
    BY <2>14, <2>15
  <2> QED
    BY <1>5, <2>9, <2>13, <2>14, <2>17, <2>19, <2>20, <2>21, <2>22, <1>1, SMTT(60) DEF both
<1> QED
  BY <1>1, <1>3, <1>4, <1>5

(* What was told, after an item is stored. *)
ToldAfter(list, i, val) ==
    [k \in 1 .. Max({Len(list), i + 1}) |-> IF k = i + 1 THEN val ELSE IF k <= Len(list) THEN list[k] ELSE 0]

(* An item that is stored is the only one that changes. *)
LEMMA StoredAtRight ==
    ASSUME NEW s, NEW v, NEW list, GoodStore(s), GoodVector(s, v), Holds(s, v, list),
           NEW i \in Nat, i < v.real, i < v.reported, NEW val \in Int
    PROVE  LET t == StoredAt(s, v, i, val)[1]  w == StoredAt(s, v, i, val)[2]
           IN  /\ GoodStore(t) /\ GoodVector(t, w) /\ Holds(t, w, ToldAfter(list, i, val))
               /\ t.alloc_cap = s.alloc_cap
               /\ \A p \in 0 .. s.zero_cap - 1 :
                     ~(v.data[1].map /\ p \in v.data[1].fileoffset .. EndOf(v) - 1) => t.cells[p] = s.cells[p]
               /\ w.real = v.real /\ w.lazy = v.lazy /\ w.reported = v.reported
               /\ w.data[1].map = v.data[1].map /\ w.data[1].fileoffset = v.data[1].fileoffset
<1> DEFINE both == StoredAt(s, v, i, val)
           t == both[1]
           w == both[2]
           x == v.data[1]
<1>1. /\ v.real \in Nat /\ v.lazy \in Nat /\ v.reported \in Nat /\ v.real > 0
      /\ v = [real |-> v.real, reported |-> v.reported, lazy |-> v.lazy, data |-> v.data]
      /\ v.reported <= v.lazy /\ v.real <= v.lazy
  BY DEF GoodVector
<1>2. i \in 0 .. v.real - 1
  BY <1>1
<1>3. SectionOf(v, i) = 1 /\ v.data = <<x>> /\ GoodSection(s, x, v.real)
  BY <1>1, <1>2, SectionIsFirst
<1>4. x = [offset |-> 0, length |-> v.real, fileoffset |-> x.fileoffset, map |-> x.map, data |-> x.data]
      /\ x.fileoffset \in Nat /\ x.map \in BOOLEAN
  BY <1>3 DEF GoodSection
<1>5. x.offset = 0
  BY <1>4
<1>6. /\ s.alloc_cap \in Nat /\ s.zero_cap \in Nat /\ s.alloc_cap <= s.zero_cap
      /\ s.cells \in [0 .. s.zero_cap - 1 -> Int]
      /\ s = [alloc_cap |-> s.alloc_cap, zero_cap |-> s.zero_cap, cells |-> s.cells]
  BY DEF GoodStore
<1>7. ASSUME NEW u, NEW y, \A j \in 1 .. v.real : Item(u, y, j) = IF j = i + 1 THEN val ELSE Item(s, v, j),
             y.real = v.real, y.reported = v.reported
      PROVE  Holds(u, y, ToldAfter(list, i, val))
  <2> DEFINE m == IF Len(list) >= i + 1 THEN Len(list) ELSE i + 1
             after == ToldAfter(list, i, val)
  <2>1. list \in Seq(Int) /\ Len(list) \in Nat /\ Len(list) <= v.real /\ Len(list) <= v.reported
    BY DEF Holds, Numbers
  <2>2. Max({Len(list), i + 1}) = m
    BY <2>1, MaxOfTwo
  <2>3. after = [k \in 1 .. m |-> IF k = i + 1 THEN val ELSE IF k <= Len(list) THEN list[k] ELSE 0]
    BY <2>2 DEF ToldAfter
  <2>4. m \in Nat /\ m <= v.real /\ m <= v.reported /\ i + 1 <= m /\ Len(list) <= m
    BY <2>1, <1>1
  <2> HIDE DEF m, after
  <2>5. \A k \in 1 .. m : (IF k = i + 1 THEN val ELSE IF k <= Len(list) THEN list[k] ELSE 0) \in Int
    BY <2>1
  <2>6. after \in Numbers /\ Len(after) = m
    BY <2>3, <2>4, <2>5 DEF Numbers
  <2>7. \A j \in 1 .. v.real : Item(u, y, j) = IF j <= m THEN after[j] ELSE 0
    <3> TAKE j \in 1 .. v.real
    <3>1. Item(s, v, j) = IF j <= Len(list) THEN list[j] ELSE 0
      BY DEF Holds
    <3> QED
      BY <3>1, <1>7, <1>1, <2>1, <2>3, <2>4
  <2> QED
    BY <1>7, <2>4, <2>6, <2>7 DEF Holds, after
<1>8. CASE x.map
  <2> DEFINE start == x.fileoffset + i
             cells == [s.cells EXCEPT ![start] = val]
  <2>1. x.fileoffset + v.real <= s.alloc_cap
    BY <1>3, <1>8 DEF GoodSection
  <2>2. start \in 0 .. s.alloc_cap - 1 /\ start \in 0 .. s.zero_cap - 1
    BY <2>1, <1>1, <1>4, <1>6
  <2>3. x.fileoffset + i - x.offset = start
    BY <1>4, <1>5
  <2>4. both = <<[s EXCEPT !.cells = cells], v>>
    BY <1>3, <1>8, <2>3 DEF StoredAt
  <2>5. w = v /\ t = [s EXCEPT !.cells = cells]
    BY <2>4
  <2> HIDE DEF both, cells
  <2>6. t.alloc_cap = s.alloc_cap /\ t.zero_cap = s.zero_cap /\ t.cells = cells
        /\ t = [alloc_cap |-> t.alloc_cap, zero_cap |-> t.zero_cap, cells |-> t.cells]
    BY <2>5, <1>6
  <2>7. cells \in [0 .. s.zero_cap - 1 -> Int]
        /\ \A p \in 0 .. s.zero_cap - 1 : cells[p] = IF p = start THEN val ELSE s.cells[p]
    BY <1>6, <2>2 DEF cells
  <2>8. \A p \in s.alloc_cap .. s.zero_cap - 1 : cells[p] = 0
    BY <1>6, <2>2, <2>7 DEF GoodStore
  <2>9. GoodStore(t)
    BY <1>6, <2>6, <2>7, <2>8 DEF GoodStore
  <2>10. GoodVector(t, v)
    BY <2>6 DEF GoodVector, GoodSection
  <2>11. ASSUME NEW j \in 1 .. v.real
         PROVE  Item(t, v, j) = IF j = i + 1 THEN val ELSE Item(s, v, j)
    <3>1. x.fileoffset + j - 1 \in 0 .. s.zero_cap - 1 /\ (x.fileoffset + j - 1 = start <=> j = i + 1)
      BY <1>1, <1>4, <1>6, <2>1, SMTT(60)
    <3>2. Item(t, v, j) = t.cells[x.fileoffset + j - 1] /\ Item(s, v, j) = s.cells[x.fileoffset + j - 1]
      BY <1>8 DEF Item
    <3> QED
      BY <3>1, <3>2, <2>6, <2>7
  <2>12. Holds(t, v, ToldAfter(list, i, val))
    BY <1>7, <2>11
  <2>13. \A p \in 0 .. s.zero_cap - 1 : p \notin x.fileoffset .. EndOf(v) - 1 => t.cells[p] = s.cells[p]
    BY <1>1, <1>4, <2>6, <2>7 DEF EndOf
  <2> QED
    BY <1>8, <2>5, <2>6, <2>9, <2>10, <2>12, <2>13 DEF both
<1>9. CASE ~x.map
  <2> DEFINE own == [x.data EXCEPT ![i + 1] = val]
             y == [x EXCEPT !.data = own]
  <2>1. x.data \in Seq(Int) /\ Len(x.data) = v.real
    BY <1>3, <1>9 DEF GoodSection, Numbers
  <2>2. i - x.offset + 1 = i + 1
    BY <1>5
  <2>3. both = <<s, [v EXCEPT !.data[1].data[i + 1] = val]>>
    BY <1>3, <1>9, <2>2 DEF StoredAt
  <2>4. [v EXCEPT !.data[1].data[i + 1] = val] = [v EXCEPT !.data = [@ EXCEPT ![1] = y]]
    OBVIOUS
  <2>5. t = s /\ w = [v EXCEPT !.data = [@ EXCEPT ![1] = y]]
    BY <2>3, <2>4
  <2>6. own \in Numbers /\ Len(own) = v.real
        /\ \A j \in 1 .. v.real : own[j] = IF j = i + 1 THEN val ELSE x.data[j]
    BY <1>1, <2>1 DEF Numbers
  <2>7. y = [offset |-> 0, length |-> v.real, fileoffset |-> x.fileoffset, map |-> x.map, data |-> own]
    <3>1. PICK start, isMapped, d :
             x = [offset |-> 0, length |-> v.real, fileoffset |-> start, map |-> isMapped, data |-> d]
      BY <1>4
    <3>2. x.fileoffset = start /\ x.map = isMapped
      BY <3>1
    <3> HIDE DEF x, own
    <3> QED
      BY <3>1, <3>2
  <2> HIDE DEF both, own, y
  <2>8. [v.data EXCEPT ![1] = y] = <<y>>
    <3> HIDE DEF x
    <3> QED
      BY <1>3
  <2>9. w = [real |-> v.real, reported |-> v.reported, lazy |-> v.lazy, data |-> <<y>>]
    <3>1. PICK real, reported, lazy, data :
             v = [real |-> real, reported |-> reported, lazy |-> lazy, data |-> data]
      BY <1>1
    <3>2. v.real = real /\ v.reported = reported /\ v.lazy = lazy
      BY <3>1
    <3>3. w = [v EXCEPT !.data = <<y>>]
      BY <2>5, <2>8
    <3> QED
      BY <3>1, <3>2, <3>3
  <2>10. /\ w.real = v.real /\ w.reported = v.reported /\ w.lazy = v.lazy /\ w.data = <<y>> /\ w.data[1] = y
         /\ y.fileoffset = x.fileoffset /\ y.map = x.map /\ y.data = own
    BY <2>7, <2>9
  <2>11. GoodSection(s, y, v.real)
    BY <1>4, <1>9, <2>6, <2>7, <2>10 DEF GoodSection
  <2>12. GoodVector(s, w)
    BY <1>1, <2>9, <2>10, <2>11 DEF GoodVector
  <2>13. \A j \in 1 .. v.real : Item(s, w, j) = IF j = i + 1 THEN val ELSE Item(s, v, j)
    BY <1>9, <2>6, <2>10 DEF Item
  <2>14. Holds(s, w, ToldAfter(list, i, val))
    BY <1>7, <2>10, <2>13
  <2> QED
    BY <2>5, <2>10, <2>12, <2>14, <1>9 DEF both
<1> QED
  BY <1>4, <1>8, <1>9

(* A vector for which more was promised. *)
LEMMA LargerRight ==
    ASSUME NEW s, NEW v, NEW list, GoodVector(s, v), Holds(s, v, list),
           NEW reported \in Nat, NEW lazy \in Nat, NEW w,
           v.reported <= reported, reported <= lazy, v.lazy <= lazy,
           w = [real |-> v.real, reported |-> reported, lazy |-> lazy, data |-> v.data]
    PROVE  GoodVector(s, w) /\ Holds(s, w, list)
<1>1. w.real = v.real /\ w.reported = reported /\ w.lazy = lazy /\ w.data = v.data
  OBVIOUS
<1>2. w = [real |-> w.real, reported |-> w.reported, lazy |-> w.lazy, data |-> w.data]
  OBVIOUS
<1>3. GoodVector(s, w)
  BY <1>1, <1>2 DEF GoodVector
<1>4. Len(list) \in Nat /\ Len(list) <= reported
  BY DEF Holds, Numbers, GoodVector
<1>5. Holds(s, w, list)
  BY <1>1, <1>4 DEF Holds, Item
<1> QED
  BY <1>3, <1>5

LEMMA ReserveRight ==
    ASSUME NEW s, NEW v, NEW list, NEW n \in Nat, GoodVector(s, v), Holds(s, v, list)
    PROVE  /\ GoodVector(s, Reserve(v, n)) /\ Holds(s, Reserve(v, n), list)
           /\ Reserve(v, n).real = v.real /\ Reserve(v, n).reported = v.reported
           /\ Reserve(v, n).data = v.data /\ Reserve(v, n).lazy \in Nat
<1> DEFINE w == Reserve(v, n)
<1>1. /\ v = [real |-> v.real, reported |-> v.reported, lazy |-> v.lazy, data |-> v.data]
      /\ v.lazy \in Nat /\ v.reported \in Nat /\ v.reported <= v.lazy
  BY DEF GoodVector
<1>2. CASE n < v.lazy
  BY <1>1, <1>2 DEF Reserve
<1>3. CASE ~(n < v.lazy)
  <2>1. RoundUp(n) \in Nat /\ RoundUp(n) >= v.lazy
    BY <1>1, <1>3, RoundUpRight
  <2>2. w = [v EXCEPT !.lazy = RoundUp(n)]
    BY <1>3 DEF Reserve
  <2> HIDE DEF w
  <2>3. w = [real |-> v.real, reported |-> v.reported, lazy |-> RoundUp(n), data |-> v.data]
    <3>1. PICK real, reported, lazy, data :
             v = [real |-> real, reported |-> reported, lazy |-> lazy, data |-> data]
      BY <1>1
    <3>2. v.real = real /\ v.reported = reported /\ v.data = data
      BY <3>1
    <3> QED
      BY <2>2, <3>1, <3>2
  <2>4. GoodVector(s, w) /\ Holds(s, w, list)
    BY <1>1, <2>1, <2>3, LargerRight
  <2>5. w.real = v.real /\ w.reported = v.reported /\ w.data = v.data /\ w.lazy \in Nat
    BY <2>1, <2>3
  <2> QED
    BY <2>4, <2>5 DEF w
<1> QED
  BY <1>2, <1>3

LEMMA VectorResizeRight ==
    ASSUME NEW s, NEW v, NEW list, NEW n \in Nat, GoodVector(s, v), Holds(s, v, list), n >= v.reported
    PROVE  /\ GoodVector(s, VectorResize(v, n)) /\ Holds(s, VectorResize(v, n), list)
           /\ VectorResize(v, n).real = v.real /\ VectorResize(v, n).reported = n
           /\ VectorResize(v, n).data = v.data /\ VectorResize(v, n).lazy \in Nat
<1> DEFINE u == [v EXCEPT !.reported = n]
           w == VectorResize(v, n)
<1>1. /\ v = [real |-> v.real, reported |-> v.reported, lazy |-> v.lazy, data |-> v.data]
      /\ v.lazy \in Nat /\ v.reported \in Nat /\ v.reported <= v.lazy
  BY DEF GoodVector
<1>2. w = Reserve(u, n)
  BY <1>1 DEF VectorResize
<1>3. u = [real |-> v.real, reported |-> n, lazy |-> v.lazy, data |-> v.data]
  <2>1. PICK real, reported, lazy, data :
           v = [real |-> real, reported |-> reported, lazy |-> lazy, data |-> data]
    BY <1>1
  <2>2. v.real = real /\ v.lazy = lazy /\ v.data = data
    BY <2>1
  <2> QED
    BY <2>1, <2>2
<1>4. u.lazy = v.lazy
  BY <1>3
<1> DEFINE lazy == IF n < v.lazy THEN v.lazy ELSE RoundUp(n)
<1>5. w = [real |-> v.real, reported |-> n, lazy |-> lazy, data |-> v.data]
  <2>1. CASE n < v.lazy
    BY <1>2, <1>3, <1>4, <2>1 DEF Reserve
  <2>2. CASE ~(n < v.lazy)
    <3>1. w = [u EXCEPT !.lazy = RoundUp(n)]
      BY <1>2, <1>4, <2>2 DEF Reserve
    <3> HIDE DEF u, w
    <3> QED
      BY <3>1, <1>3, <2>2
  <2> QED
    BY <2>1, <2>2
<1>6. lazy \in Nat /\ n <= lazy /\ v.lazy <= lazy
  BY <1>1, RoundUpRight
<1> HIDE DEF w, lazy
<1>7. GoodVector(s, w) /\ Holds(s, w, list)
  BY <1>5, <1>6, LargerRight
<1>8. w.real = v.real /\ w.reported = n /\ w.data = v.data /\ w.lazy \in Nat
  BY <1>5, <1>6
<1> QED
  BY <1>7, <1>8 DEF w

-----------------------------------------------------------------------------
(* The steps of CreateAndWriteFs.                                            *)

(* The empty vector does not care for the storage. *)
LEMMA EmptyKeeps ==
    ASSUME NEW s, NEW t, NEW list, Holds(s, EmptyVector, list)
    PROVE  GoodVector(t, EmptyVector) /\ Holds(t, EmptyVector, list)
BY DEF EmptyVector, GoodVector, Holds

LEMMA MmapStart == MmapInit => MmapInv
<1> SUFFICES ASSUME MmapInit PROVE MmapInv
  OBVIOUS
<1>1. store.alloc_cap = 0 /\ store.zero_cap = 0 /\ store.cells = <<>> /\ counts \in Nat \X Nat
  BY MmapAssumption DEF MmapInit
<1>2. GoodStore(store)
  BY <1>1 DEF MmapInit, GoodStore
<1>3. vector.inotab = EmptyVector /\ vector.blocks = EmptyVector /\ told.inotab = <<>> /\ told.blocks = <<>>
  BY DEF MmapInit
<1>4. GoodVector(store, EmptyVector) /\ Holds(store, EmptyVector, <<>>)
  BY DEF EmptyVector, GoodVector, Holds, Numbers
<1>5. EmptyVector.real = 0 /\ EmptyVector.lazy = 0 /\ EmptyVector.reported = 0
  BY DEF EmptyVector
<1> QED
  BY <1>1, <1>2, <1>3, <1>4, <1>5 DEF MmapInit, MmapInv

LEMMA SizeInotabKeeps ==
    ASSUME MmapInv, SizeInotab
    PROVE  MmapInv'
<1>1. PICK n \in InotabSizes : vector' = [vector EXCEPT !.inotab = VectorResize(@, n)]
  BY DEF SizeInotab
<1>2. /\ phase = "walk" /\ vector.inotab = EmptyVector /\ vector.blocks = EmptyVector
      /\ UNCHANGED <<store, phase, counts, inodes, told>> /\ n \in Nat \ {0}
  BY MmapAssumption DEF SizeInotab, MmapInv
<1> DEFINE w == VectorResize(EmptyVector, n)
<1>3. vector' = [inotab |-> w, blocks |-> EmptyVector]
  BY <1>1, <1>2 DEF MmapInv
<1>4. vector'.inotab = w /\ vector'.blocks = EmptyVector
  BY <1>3
<1>5. EmptyVector.real = 0 /\ EmptyVector.reported = 0
  BY DEF EmptyVector
<1>6. GoodVector(store, w) /\ Holds(store, w, told.inotab) /\ w.real = 0 /\ w.reported = n
  <2>1. GoodVector(store, EmptyVector) /\ Holds(store, EmptyVector, told.inotab)
    BY <1>2 DEF MmapInv
  <2>2. n \in Nat /\ n >= EmptyVector.reported
    BY <1>2, <1>5
  <2> QED
    BY <2>1, <2>2, <1>5, VectorResizeRight
<1>7. inodes = {}
  BY <1>2, <1>5 DEF MmapInv
<1> HIDE DEF w
<1> QED
  BY <1>2, <1>3, <1>4, <1>5, <1>6, <1>7 DEF MmapInv

(* Where an item of one of the vectors is stored. *)
LEMMA StoreRight ==
    ASSUME NEW sv, NEW i, NEW val, MmapInv
    PROVE  /\ Store("inotab", sv, i, val) =>
                /\ store' = sv[1] /\ vector' = [inotab |-> sv[2], blocks |-> vector.blocks]
                /\ told' = [inotab |-> ToldAfter(told.inotab, i, val), blocks |-> told.blocks]
           /\ Store("blocks", sv, i, val) =>
                /\ store' = sv[1] /\ vector' = [inotab |-> vector.inotab, blocks |-> sv[2]]
                /\ told' = [inotab |-> told.inotab, blocks |-> ToldAfter(told.blocks, i, val)]
<1>1. PICK a, b : vector = [inotab |-> a, blocks |-> b]
  BY DEF MmapInv
<1>2. vector.inotab = a /\ vector.blocks = b
  BY <1>1
<1>3. PICK c, d : told = [inotab |-> c, blocks |-> d]
  BY DEF MmapInv
<1>4. told.inotab = c /\ told.blocks = d
  BY <1>3
<1>5. ASSUME Store("inotab", sv, i, val)
      PROVE  /\ store' = sv[1] /\ vector' = [inotab |-> sv[2], blocks |-> b]
             /\ told' = [inotab |-> ToldAfter(c, i, val), blocks |-> d]
  <2>1. store' = sv[1] /\ vector' = [vector EXCEPT !["inotab"] = sv[2]]
        /\ told' = [told EXCEPT !["inotab"] = ToldAfter(told["inotab"], i, val)]
    BY <1>5 DEF Store, ToldAfter
  <2> QED
    BY <2>1, <1>1, <1>3, <1>4
<1>6. ASSUME Store("blocks", sv, i, val)
      PROVE  /\ store' = sv[1] /\ vector' = [inotab |-> a, blocks |-> sv[2]]
             /\ told' = [inotab |-> c, blocks |-> ToldAfter(d, i, val)]
  <2>1. store' = sv[1] /\ vector' = [vector EXCEPT !["blocks"] = sv[2]]
        /\ told' = [told EXCEPT !["blocks"] = ToldAfter(told["blocks"], i, val)]
    BY <1>6 DEF Store, ToldAfter
  <2> QED
    BY <2>1, <1>1, <1>3, <1>4
<1> QED
  BY <1>2, <1>4, <1>5, <1>6

LEMMA PutInodeKeeps ==
    ASSUME MmapInv, PutInode
    PROVE  /\ MmapInv'
           /\ inodes # {} => Placed' = Placed
<1> DEFINE v == vector.inotab
           ensured(works) == EnsureReal(store, v, works)
<1>1. PICK i \in 0 .. v.reported - 1, works \in BOOLEAN :
         /\ \E to \in {StoredAt(ensured(works)[1], ensured(works)[2], i, 1)} : Store("inotab", to, i, 1)
         /\ inodes' = inodes \cup {i}
  BY DEF PutInode
<1> DEFINE s == ensured(works)[1]
           u == ensured(works)[2]
           to == StoredAt(s, u, i, 1)
           t == to[1]
           w == to[2]
<1>2. phase = "walk" /\ UNCHANGED <<phase, counts>>
  BY DEF PutInode
<1>3. /\ GoodStore(store) /\ GoodVector(store, v) /\ Holds(store, v, told.inotab)
      /\ vector.blocks = EmptyVector /\ v.real \in {0, v.lazy}
      /\ v.real \in Nat /\ v.lazy \in Nat /\ v.reported \in Nat /\ v.reported <= v.lazy
      /\ Holds(store, EmptyVector, told.blocks) /\ counts \in Nat \X Nat
  BY <1>2 DEF MmapInv, GoodVector
<1>4. i \in Nat /\ i < v.reported /\ v.lazy > 0
  BY <1>1, <1>3
<1>5. /\ GoodStore(s) /\ GoodVector(s, u) /\ Holds(s, u, told.inotab)
      /\ u.real = v.lazy /\ u.lazy = v.lazy /\ u.reported = v.reported
      /\ v.real = v.lazy => s = store /\ u = v
  <2>1. ~(v.real > 0 /\ v.real < v.lazy)
    BY <1>3
  <2> HIDE DEF v
  <2> QED
    BY <1>3, <2>1, EnsureRealRight
<1> HIDE DEF s, u
<1>6. i < u.real /\ i < u.reported
  BY <1>3, <1>4, <1>5
<1>7. /\ GoodStore(t) /\ GoodVector(t, w) /\ Holds(t, w, ToldAfter(told.inotab, i, 1))
      /\ w.real = u.real /\ w.lazy = u.lazy /\ w.reported = u.reported
      /\ w.data[1].map = u.data[1].map
  BY <1>4, <1>5, <1>6, StoredAtRight
<1>8. Store("inotab", to, i, 1)
  BY <1>1 DEF s, u
<1>9. /\ store' = t /\ vector' = [inotab |-> w, blocks |-> EmptyVector]
      /\ told' = [inotab |-> ToldAfter(told.inotab, i, 1), blocks |-> told.blocks]
  BY <1>3, <1>8, StoreRight
<1> HIDE DEF t, w, v
<1>10. /\ vector'.inotab = w /\ vector'.blocks = EmptyVector
       /\ told'.inotab = ToldAfter(told.inotab, i, 1) /\ told'.blocks = told.blocks
  BY <1>9
<1>11. GoodVector(t, EmptyVector) /\ Holds(t, EmptyVector, told.blocks) /\ EmptyVector.real = 0
  BY <1>3, EmptyKeeps DEF EmptyVector
<1>12. inodes' \subseteq 0 .. w.reported - 1
  BY <1>1, <1>5, <1>7 DEF MmapInv, v
<1>13. w.real = w.lazy /\ w.real > 0 /\ w.reported > 0
  BY <1>3, <1>4, <1>5, <1>7
<1>14. MmapInv'
  BY <1>2, <1>3, <1>7, <1>9, <1>10, <1>11, <1>12, <1>13 DEF MmapInv
<1>15. ASSUME inodes # {}
       PROVE  Placed' = Placed
  <2>1. v.real = v.lazy /\ v.real > 0
    BY <1>15, <1>3 DEF MmapInv, v
  <2>2. DOMAIN v.data = {1} /\ GoodSection(store, v.data[1], v.real)
    BY <2>1, <1>3, SectionIsFirst
  <2>3. DOMAIN w.data = {1} /\ GoodSection(t, w.data[1], w.real)
    BY <1>7, <1>13, SectionIsFirst, 0 \in 0 .. w.real - 1 DEF GoodVector
  <2>4. v.data[1].length = w.data[1].length /\ v.data[1].map = w.data[1].map
    BY <2>1, <2>2, <2>3, <1>5, <1>7 DEF GoodSection
  <2>5. Placed = [k \in {1} |-> <<v.data[k].map, v.data[k].length>>]
    BY <2>2 DEF Placed, v
  <2>6. Placed' = [k \in {1} |-> <<w.data[k].map, w.data[k].length>>]
    BY <1>10, <2>3 DEF Placed
  <2> QED
    BY <2>4, <2>5, <2>6
<1> QED
  BY <1>14, <1>15

LEMMA ReserveBlocksKeeps ==
    ASSUME MmapInv, NEW this, NEW next \in {"files", "inotab"}, NEW n \in Nat, ReserveBlocks(this, next, n),
           vector.inotab.real > 0
    PROVE  MmapInv' /\ Placed' = Placed
<1> DEFINE v == vector.blocks
           w == Reserve(v, v.reported + n)
<1>1. PICK a, b : vector = [inotab |-> a, blocks |-> b]
  BY DEF MmapInv
<1>2. vector.inotab = a /\ vector.blocks = b
  BY <1>1
<1>3. vector' = [inotab |-> a, blocks |-> w]
  BY <1>1, <1>2 DEF ReserveBlocks
<1>4. phase' = next /\ UNCHANGED <<store, counts, inodes, told>>
  BY DEF ReserveBlocks
<1>5. GoodVector(store, v) /\ Holds(store, v, told.blocks) /\ v.reported + n \in Nat
  BY DEF MmapInv, GoodVector
<1>6. /\ GoodVector(store, w) /\ Holds(store, w, told.blocks)
      /\ w.real = v.real /\ w.reported = v.reported /\ w.data = v.data
  <2> DEFINE m == v.reported + n
  <2>1. m \in Nat
    BY <1>5
  <2> HIDE DEF v, m
  <2>2. /\ GoodVector(store, Reserve(v, m)) /\ Holds(store, Reserve(v, m), told.blocks)
        /\ Reserve(v, m).real = v.real /\ Reserve(v, m).reported = v.reported
        /\ Reserve(v, m).data = v.data
    BY <1>5, <2>1, ReserveRight
  <2> QED
    BY <2>2 DEF m
<1> HIDE DEF w
<1>7. vector'.inotab = a /\ vector'.blocks = w
  BY <1>3
<1>8. EndOf(w) = EndOf(v)
  BY <1>6 DEF EndOf
<1>9. MmapInv'
  BY <1>2, <1>3, <1>4, <1>6, <1>7, <1>8 DEF MmapInv
<1>10. Placed' = Placed
  BY <1>2, <1>7 DEF Placed
<1> QED
  BY <1>9, <1>10

LEMMA PushBackKeeps ==
    ASSUME MmapInv, NEW this \in {"files", "inotab"}, NEW last, push_back(this, last)
    PROVE  MmapInv' /\ Placed' = Placed
<1> DEFINE v == vector.blocks
           i == v.reported
           grown == VectorResize(v, i + 1)
           ensured(works) == EnsureReal(store, grown, works)
           tab == vector.inotab
<1>1. PICK works \in BOOLEAN :
         \E to \in {StoredAt(ensured(works)[1], ensured(works)[2], i, i + 2)} : Store("blocks", to, i, i + 2)
  BY DEF push_back
<1> DEFINE s == ensured(works)[1]
           u == ensured(works)[2]
           to == StoredAt(s, u, i, i + 2)
           t == to[1]
           w == to[2]
<1>2. phase = this /\ UNCHANGED <<phase, counts, inodes>> /\ phase # "walk"
  BY DEF push_back
<1>3. /\ GoodStore(store) /\ GoodVector(store, v) /\ Holds(store, v, told.blocks)
      /\ v.real \in Nat /\ v.lazy \in Nat /\ i \in Nat /\ i <= v.lazy
      /\ GoodVector(store, tab) /\ Holds(store, tab, told.inotab) /\ tab.real > 0 /\ tab.real \in Nat
      /\ v.real > 0 => /\ EndOf(v) = store.alloc_cap
                       /\ tab.data[1].map => EndOf(tab) <= v.data[1].fileoffset
  BY <1>2 DEF MmapInv, GoodVector
<1>4. /\ GoodVector(store, grown) /\ Holds(store, grown, told.blocks)
      /\ grown.real = v.real /\ grown.reported = i + 1 /\ grown.data = v.data
      /\ grown.lazy \in Nat
  <2>1. i + 1 \in Nat /\ i + 1 >= v.reported
    BY <1>3
  <2> HIDE DEF v, i
  <2> QED
    BY <1>3, <2>1, VectorResizeRight DEF i
<1> HIDE DEF grown, v
<1>5. EndOf(grown) = EndOf(v) /\ grown.real <= grown.lazy /\ i + 1 <= grown.lazy
  BY <1>4 DEF EndOf, GoodVector
<1>6. /\ GoodStore(s) /\ GoodVector(s, u) /\ Holds(s, u, told.blocks)
      /\ store.alloc_cap <= s.alloc_cap
      /\ \A p \in 0 .. store.alloc_cap - 1 : s.cells[p] = store.cells[p]
      /\ u.real = grown.lazy /\ u.lazy = grown.lazy /\ u.reported = i + 1
      /\ grown.real = grown.lazy => s = store /\ u = grown
      /\ grown.real < grown.lazy => EndOf(u) = s.alloc_cap
      /\ grown.real = 0 /\ grown.lazy > 0 => u.data[1].fileoffset >= store.alloc_cap
      /\ grown.real > 0 => u.data[1].fileoffset = grown.data[1].fileoffset
  BY <1>3, <1>4, <1>5, EnsureRealRight
<1> HIDE DEF s, u
<1>7. i < u.real /\ i < u.reported /\ i + 2 \in Int /\ u.real > 0
  BY <1>3, <1>4, <1>5, <1>6
<1>8. /\ GoodStore(t) /\ GoodVector(t, w) /\ Holds(t, w, ToldAfter(told.blocks, i, i + 2))
      /\ t.alloc_cap = s.alloc_cap
      /\ \A p \in 0 .. s.zero_cap - 1 :
            ~(u.data[1].map /\ p \in u.data[1].fileoffset .. EndOf(u) - 1) => t.cells[p] = s.cells[p]
      /\ w.real = u.real /\ w.lazy = u.lazy /\ w.reported = u.reported
      /\ w.data[1].map = u.data[1].map /\ w.data[1].fileoffset = u.data[1].fileoffset
  BY <1>3, <1>6, <1>7, StoredAtRight, SMTT(60)
<1>9. Store("blocks", to, i, i + 2)
  BY <1>1 DEF s, u
<1>10. /\ store' = t /\ vector' = [inotab |-> tab, blocks |-> w]
       /\ told' = [inotab |-> told.inotab, blocks |-> ToldAfter(told.blocks, i, i + 2)]
  BY <1>9, StoreRight
<1> HIDE DEF t, w, tab
<1>11. /\ vector'.inotab = tab /\ vector'.blocks = w
       /\ told'.inotab = told.inotab /\ told'.blocks = ToldAfter(told.blocks, i, i + 2)
  BY <1>10
<1>12. EndOf(w) = t.alloc_cap
  <2>1. EndOf(u) = s.alloc_cap
    BY <1>3, <1>4, <1>5, <1>6, <1>7
  <2> QED
    BY <1>8, <2>1 DEF EndOf
<1>13. tab.data[1].map => EndOf(tab) <= store.alloc_cap /\ EndOf(tab) <= w.data[1].fileoffset
                          /\ tab.data[1].fileoffset \in Nat
  <2> SUFFICES ASSUME tab.data[1].map
               PROVE  EndOf(tab) <= store.alloc_cap /\ EndOf(tab) <= w.data[1].fileoffset
                      /\ tab.data[1].fileoffset \in Nat
    OBVIOUS
  <2>1. EndOf(tab) <= store.alloc_cap /\ tab.data[1].fileoffset \in Nat /\ EndOf(tab) \in Nat
    BY <1>3 DEF GoodVector, GoodSection, EndOf
  <2>2. store.alloc_cap \in Nat /\ u.data[1].fileoffset \in Nat
    BY <1>3, <1>6, <1>7 DEF GoodStore, GoodVector, GoodSection
  <2>3. EndOf(tab) <= u.data[1].fileoffset
    BY <1>3, <1>4, <1>5, <1>6, <1>7, <2>1, <2>2
  <2> QED
    BY <1>8, <2>1, <2>3
<1>14. GoodVector(t, tab) /\ Holds(t, tab, told.inotab)
  <2>1. ASSUME tab.data[1].map, NEW p \in tab.data[1].fileoffset .. EndOf(tab) - 1
        PROVE  t.cells[p] = store.cells[p]
    <3>1. /\ store.alloc_cap \in Nat /\ s.alloc_cap \in Nat /\ s.zero_cap \in Nat /\ s.alloc_cap <= s.zero_cap
          /\ EndOf(tab) \in Nat
      BY <1>3, <1>6, <1>13, <2>1, SMTT(60) DEF GoodStore, EndOf
    <3>2. p \in 0 .. store.alloc_cap - 1 /\ p \in 0 .. s.zero_cap - 1
      BY <1>6, <1>13, <2>1, <3>1
    <3>3. p < w.data[1].fileoffset /\ w.data[1].fileoffset \in Nat
      BY <1>6, <1>7, <1>8, <1>13, <2>1, <3>1 DEF GoodVector, GoodSection
    <3>4. t.cells[p] = s.cells[p]
      BY <1>8, <3>2, <3>3
    <3> QED
      BY <1>6, <3>2, <3>4
  <2>2. t.alloc_cap \in Nat /\ store.alloc_cap <= t.alloc_cap
    BY <1>6, <1>8 DEF GoodStore
  <2> QED
    BY <1>3, <2>1, <2>2, OtherStore
<1>15. MmapInv'
  BY <1>2, <1>3, <1>8, <1>10, <1>11, <1>12, <1>13, <1>14 DEF MmapInv, tab
<1>16. Placed' = Placed
  BY <1>11 DEF Placed, tab
<1> QED
  BY <1>15, <1>16

LEMMA StoreBlockNumberKeeps ==
    ASSUME MmapInv, StoreBlockNumber
    PROVE  MmapInv' /\ Placed' = Placed
<1> DEFINE v == vector.inotab
           b == vector.blocks
<1>1. PICK i \in inodes : \E to \in {StoredAt(store, v, i, 2)} : Store("inotab", to, i, 2)
  BY DEF StoreBlockNumber
<1> DEFINE to == StoredAt(store, v, i, 2)
           t == to[1]
           w == to[2]
<1>2. phase = "files" /\ UNCHANGED <<phase, counts, inodes>>
  BY DEF StoreBlockNumber
<1>3. /\ GoodStore(store) /\ GoodVector(store, v) /\ Holds(store, v, told.inotab)
      /\ v.real = v.lazy /\ v.real > 0 /\ v.real \in Nat /\ v.reported \in Nat /\ v.reported <= v.lazy
      /\ GoodVector(store, b) /\ Holds(store, b, told.blocks)
      /\ b.real > 0 => /\ EndOf(b) = store.alloc_cap
                       /\ v.data[1].map => EndOf(v) <= b.data[1].fileoffset
  BY <1>2 DEF MmapInv, GoodVector
<1>4. i \in Nat /\ i < v.reported /\ i < v.real
  BY <1>1, <1>3 DEF MmapInv
<1>5. /\ GoodStore(t) /\ GoodVector(t, w) /\ Holds(t, w, ToldAfter(told.inotab, i, 2))
      /\ t.alloc_cap = store.alloc_cap
      /\ \A p \in 0 .. store.zero_cap - 1 :
            ~(v.data[1].map /\ p \in v.data[1].fileoffset .. EndOf(v) - 1) => t.cells[p] = store.cells[p]
      /\ w.real = v.real /\ w.lazy = v.lazy /\ w.reported = v.reported
      /\ w.data[1].map = v.data[1].map /\ w.data[1].fileoffset = v.data[1].fileoffset
  BY <1>3, <1>4, StoredAtRight
<1>6. /\ store' = t /\ vector' = [inotab |-> w, blocks |-> b]
      /\ told' = [inotab |-> ToldAfter(told.inotab, i, 2), blocks |-> told.blocks]
  BY <1>1, StoreRight
<1> HIDE DEF t, w, v, b
<1>7. /\ vector'.inotab = w /\ vector'.blocks = b
      /\ told'.inotab = ToldAfter(told.inotab, i, 2) /\ told'.blocks = told.blocks
  BY <1>6
<1>8. EndOf(w) = EndOf(v)
  BY <1>5 DEF EndOf
<1>9. GoodVector(t, b) /\ Holds(t, b, told.blocks)
  <2>1. ASSUME b.real > 0 /\ b.data[1].map, NEW p \in b.data[1].fileoffset .. EndOf(b) - 1
        PROVE  t.cells[p] = store.cells[p]
    <3>1. /\ store.alloc_cap \in Nat /\ store.zero_cap \in Nat /\ store.alloc_cap <= store.zero_cap
          /\ b.data[1].fileoffset \in Nat
      BY <1>3, <2>1 DEF GoodStore, GoodVector, GoodSection
    <3>2. p \in 0 .. store.zero_cap - 1
      BY <1>3, <2>1, <3>1
    <3>3. ~(v.data[1].map /\ p \in v.data[1].fileoffset .. EndOf(v) - 1)
      <4>1. v.data[1].map => EndOf(v) \in Nat
        BY <1>3 DEF EndOf, GoodVector, GoodSection
      <4> QED
        BY <1>3, <2>1, <3>1, <4>1
    <3> QED
      BY <1>5, <3>2, <3>3
  <2>2. t.alloc_cap \in Nat /\ store.alloc_cap <= t.alloc_cap
    BY <1>5 DEF GoodStore
  <2> QED
    BY <1>3, <2>1, <2>2, OtherStore
<1>10. MmapInv'
  BY <1>2, <1>3, <1>5, <1>6, <1>7, <1>8, <1>9 DEF MmapInv, v, b
<1>11. Placed' = Placed
  <2>1. 0 \in 0 .. v.real - 1 /\ w.real > 0
    BY <1>3, <1>5
  <2>2. DOMAIN v.data = {1} /\ GoodSection(store, v.data[1], v.real)
    BY <2>1, <1>3, SectionIsFirst
  <2>3. DOMAIN w.data = {1} /\ GoodSection(t, w.data[1], w.real)
    BY <2>1, <1>5, SectionIsFirst
  <2>4. v.data[1].length = w.data[1].length /\ v.data[1].map = w.data[1].map
    BY <2>2, <2>3, <1>5 DEF GoodSection
  <2>5. Placed = [k \in {1} |-> <<v.data[k].map, v.data[k].length>>]
    BY <2>2 DEF Placed, v
  <2>6. Placed' = [k \in {1} |-> <<w.data[k].map, w.data[k].length>>]
    BY <1>7, <2>3 DEF Placed
  <2> QED
    BY <2>4, <2>5, <2>6
<1> QED
  BY <1>10, <1>11

LEMMA GetAndReleaseKeeps ==
    ASSUME MmapInv, GetAndRelease
    PROVE  MmapInv'
<1> DEFINE v == vector.inotab
           n == v.reported
           own == SubSeq(Items(store, v), 1, n)
           start == v.data[1].fileoffset
           x == [offset |-> 0, length |-> n, fileoffset |-> start, map |-> FALSE, data |-> own]
           w == [real |-> n, reported |-> n, lazy |-> n, data |-> <<x>>]
<1>1. PICK a, b : vector = [inotab |-> a, blocks |-> b]
  BY DEF MmapInv
<1>2. vector.inotab = a /\ vector.blocks = b
  BY <1>1
<1>3. phase = "files" /\ phase' = "released" /\ UNCHANGED <<store, counts, inodes, told>>
      /\ vector' = [vector EXCEPT !.inotab = w]
  <2>1. Released(store, v) = w
    BY DEF Released
  <2> HIDE DEF w
  <2> QED
    BY <2>1 DEF GetAndRelease
<1>4. /\ GoodStore(store) /\ GoodVector(store, v) /\ Holds(store, v, told.inotab)
      /\ v.real = v.lazy /\ v.real > 0 /\ v.real \in Nat /\ n \in Nat /\ n <= v.real /\ n > 0
  BY <1>3 DEF MmapInv, GoodVector
<1>5. own \in Numbers /\ Len(own) = n /\ \A j \in 1 .. n : own[j] = Item(store, v, j)
  <2>1. Items(store, v) \in Numbers /\ Len(Items(store, v)) = v.real
        /\ Items(store, v) = [j \in 1 .. v.real |-> Item(store, v, j)]
    BY <1>4, ItemsAre
  <2> DEFINE items == Items(store, v)
  <2>2. \A j \in 1 .. n : items[j] = Item(store, v, j)
    BY <2>1, <1>4
  <2> HIDE DEF items, n, v
  <2>3. SubSeq(items, 1, n) \in Seq(Int) /\ Len(SubSeq(items, 1, n)) = n
        /\ \A j \in 1 .. n : SubSeq(items, 1, n)[j] = items[j]
    BY <2>1, <1>4 DEF items, Numbers
  <2> QED
    BY <2>2, <2>3 DEF items, Numbers
<1> HIDE DEF own
<1>6. w.real = n /\ w.reported = n /\ w.lazy = n /\ w.data = <<x>> /\ w.data[1] = x /\ x.map = FALSE
      /\ x.data = own /\ x.fileoffset = start
  OBVIOUS
<1>7. GoodSection(store, x, n)
  <2>1. start \in Nat
    BY <1>4 DEF GoodVector, GoodSection
  <2> HIDE DEF start
  <2> QED
    BY <2>1, <1>4, <1>5, <1>6 DEF GoodSection
<1>8. GoodVector(store, w)
  BY <1>4, <1>6, <1>7 DEF GoodVector
<1>9. Holds(store, w, told.inotab)
  <2>1. \A j \in 1 .. n : Item(store, w, j) = Item(store, v, j)
    BY <1>5, <1>6 DEF Item
  <2>2. told.inotab \in Numbers /\ Len(told.inotab) \in Nat /\ Len(told.inotab) <= n
    BY <1>4 DEF Holds, Numbers
  <2>3. \A j \in 1 .. n : Item(store, v, j) = IF j <= Len(told.inotab) THEN told.inotab[j] ELSE 0
    BY <1>4 DEF Holds
  <2> HIDE DEF w, x, v, n
  <2> QED
    BY <2>1, <2>2, <2>3, <1>6 DEF Holds
<1> HIDE DEF w, x
<1>10. vector' = [inotab |-> w, blocks |-> b]
  BY <1>1, <1>2, <1>3
<1>11. vector'.inotab = w /\ vector'.blocks = b
  BY <1>10
<1>12. ~w.data[1].map
  BY <1>6
<1> QED
  BY <1>2, <1>3, <1>4, <1>6, <1>8, <1>9, <1>10, <1>11, <1>12 DEF MmapInv

LEMMA MmapStep ==
    ASSUME MmapInv, [MmapNext]_mmapVars
    PROVE  /\ MmapInv'
           /\ (Pointed /\ Pointed') => Placed' = Placed
<1>1. CASE SizeInotab
  <2>1. inodes = {}
    <3>1. phase = "walk" /\ vector.inotab.reported = 0
      BY <1>1 DEF SizeInotab
    <3> QED
      BY <3>1 DEF MmapInv
  <2> QED
    BY <1>1, <2>1, SizeInotabKeeps DEF Pointed
<1>2. CASE PutInode
  BY <1>2, PutInodeKeeps DEF Pointed
<1>3. CASE BeginFiles
  <2>1. counts[1] \in Nat
    BY DEF MmapInv
  <2> QED
    BY <1>3, <2>1, ReserveBlocksKeeps DEF BeginFiles
<1>4. CASE PushFileBlock
  BY <1>4, PushBackKeeps DEF PushFileBlock
<1>5. CASE StoreBlockNumber
  BY <1>5, StoreBlockNumberKeeps
<1>6. CASE GetAndRelease
  <2>1. phase' = "released"
    BY <1>6 DEF GetAndRelease
  <2> QED
    BY <1>6, <2>1, GetAndReleaseKeeps DEF Pointed
<1>7. CASE BeginInotab
  <2>1. counts[2] \in Nat /\ phase = "released"
    BY <1>7 DEF MmapInv, BeginInotab, ReserveBlocks
  <2>2. vector.inotab.real > 0
    BY <2>1 DEF MmapInv
  <2> QED
    BY <1>7, <2>1, <2>2, ReserveBlocksKeeps DEF BeginInotab
<1>8. CASE PushInotabBlock
  BY <1>8, PushBackKeeps DEF PushInotabBlock
<1>9. CASE UNCHANGED mmapVars
  BY <1>9 DEF mmapVars, MmapInv, Placed
<1> QED
  BY <1>1, <1>2, <1>3, <1>4, <1>5, <1>6, <1>7, <1>8, <1>9 DEF MmapNext, MmapDone

LEMMA MmapInvFaithful == MmapInv => VectorsFaithful
<1> SUFFICES ASSUME MmapInv PROVE VectorsFaithful
  OBVIOUS
<1>1. ASSUME NEW v, NEW list, GoodVector(store, v), Holds(store, v, list)
      PROVE  /\ list = SubSeq(Items(store, v), 1, Len(list))
             /\ \A k \in DOMAIN v.data : v.data[k].map => v.data[k].fileoffset + v.data[k].length <= store.zero_cap
  <2> DEFINE items == Items(store, v)
  <2>1. GoodStore(store)
    BY DEF MmapInv
  <2>2. items = [i \in 1 .. v.real |-> Item(store, v, i)] /\ items \in Numbers /\ Len(items) = v.real
    BY <1>1, <2>1, ItemsAre
  <2>3. list \in Seq(Int) /\ Len(list) \in Nat /\ Len(list) <= v.real /\ v.real \in Nat
    BY <1>1 DEF Holds, Numbers, GoodVector
  <2>4. \A i \in 1 .. Len(list) : list[i] = items[i]
    BY <1>1, <2>2, <2>3 DEF Holds
  <2> HIDE DEF items
  <2>5. list = SubSeq(items, 1, Len(list))
    <3>1. SubSeq(items, 1, Len(list)) = [i \in 1 .. Len(list) |-> items[i]]
      BY <2>2, <2>3 DEF Numbers
    <3>2. list = [i \in 1 .. Len(list) |-> list[i]]
      BY <2>3
    <3> QED
      BY <3>1, <3>2, <2>4
  <2>6. ASSUME NEW k \in DOMAIN v.data, v.data[k].map
        PROVE  v.data[k].fileoffset + v.data[k].length <= store.zero_cap
    <3>1. v.data # <<>>
      BY <2>6
    <3>2. v.real > 0
      BY <1>1, <3>1 DEF GoodVector
    <3>3. k = 1 /\ GoodSection(store, v.data[1], v.real)
      BY <1>1, <2>3, <2>6, <3>2, SectionIsFirst, 0 \in 0 .. v.real - 1
    <3>4. v.data[1].length = v.real /\ v.data[1].fileoffset + v.real <= store.alloc_cap
          /\ v.data[1].fileoffset \in Nat
      BY <2>6, <3>3 DEF GoodSection
    <3> QED
      BY <2>1, <2>3, <3>3, <3>4 DEF GoodStore
  <2> QED
    BY <2>5, <2>6 DEF items
<1> QED
  BY <1>1 DEF VectorsFaithful, MappedIsBacked, VectorsKeepItems, MmapInv

(* Growth, failed mappings and zeros that are written never change an item of *)
(* the inode table or of the block list, nor leave one on unbacked memory     *)
(* (lib/mmap_vector.hh).                                                      *)
THEOREM VectorsSafe == MmapInit /\ [][MmapNext]_mmapVars => []VectorsFaithful
<1>1. MmapInit => MmapInv
  BY MmapStart
<1>2. MmapInv /\ [MmapNext]_mmapVars => MmapInv'
  BY MmapStep
<1>3. MmapInv => VectorsFaithful
  BY MmapInvFaithful
<1> QED
  BY <1>1, <1>2, <1>3, PTL

(* No pointer into the inode table dangles while the blockifier uses it.      *)
THEOREM PointersSafe == MmapInit /\ [][MmapNext]_mmapVars => PointersStay
<1>1. MmapInit => MmapInv
  BY MmapStart
<1>2. MmapInv /\ [MmapNext]_mmapVars => MmapInv'
  BY MmapStep
<1>3. MmapInv /\ [MmapNext]_mmapVars => [(Pointed /\ Pointed') => Placed' = Placed]_mmapVars
  BY MmapStep
<1> QED
  BY <1>1, <1>2, <1>3, PTL DEF PointersStay

-----------------------------------------------------------------------------
(* Writing a file: the inductive invariant.                                 *)

\* No byte is where no block has it.
Right(f) == \A p \in DOMAIN f : f[p] \in WantedAt(p)

\* The data belongs at the position.
Belongs(data, pos) == \A i \in 1 .. Len(data) : data[i] \in WantedAt(pos + i - 1)

Calling == longpc = "sparse"

IsCurrent(b) ==
    /\ Calling /\ Buffer = b.data /\ WritePos = b.offset
    /\ Written(b) = KeptBytes(b.data, b.offset)

\* A place that has its byte, or will get it from the buffer.
HasByte(p) == p \in DOMAIN file \/ p \in longbuf.pos .. getbufend - 1

LongRight ==
    /\ writing \in Writings /\ todo \subseteq writing.blocks
    /\ longpc \in {"open", "sparse", "closed", "thrown"}
    /\ longbuf.pos \in Nat /\ longbuf.data \in Seq(Byte)
    /\ Belongs(longbuf.data, longbuf.pos)
    /\ Right(file)
    /\ longpc # "thrown" => \A b \in writing.blocks \ todo :
          IsCurrent(b) \/ \A i \in Written(b) : HasByte(b.offset + i)
    /\ longpc = "closed" => todo = {} /\ longbuf.data = <<>>

\* The pieces end where IsZeroBlock is asked about them.
AtPiece(k) == k = Len(Buffer) \/ \E q \in Nat : k = UnalignedRemainder + q * BlockSize

\* A byte that SparseWrite has gone through.
Settled(i) == i \notin KeptBytes(Buffer, WritePos) \/ WritePos + i \in DOMAIN file

CallRight ==
    /\ ~Calling => pc = "idle"
    /\ Calling =>
          /\ \E b \in writing.blocks \ todo : Buffer = b.data /\ WritePos = b.offset
          /\ pc \in {"begin", "loop", "true", "false"}
          /\ buffered = [begin |-> buffered.begin, pos |-> WritePos + buffered.begin, n |-> buffered.n]
          /\ buffered.begin \in Nat /\ buffered.n \in Nat /\ skipped \in Nat /\ done \in Nat
          /\ buffered.begin + buffered.n + skipped = done /\ done <= Len(Buffer)
          /\ IF pc = "begin" THEN done = 0 ELSE AtPiece(done)
          /\ pc \in {"begin", "loop"} => \A i \in 0 .. done - 1 :
                Settled(i) \/ i \in buffered.begin .. buffered.begin + buffered.n - 1
          /\ pc = "true" => \A i \in 0 .. Len(Buffer) - 1 : Settled(i)

FileInv == LongRight /\ CallRight

-----------------------------------------------------------------------------
LEMMA BlockTypes ==
    ASSUME FileInv, NEW b \in writing.blocks
    PROVE  /\ b.offset \in Nat /\ b.data \in Seq(Byte) /\ b.sparse \in BOOLEAN /\ Len(b.data) \in Nat
           /\ Belongs(b.data, b.offset)
<1>1. b.offset \in Nat /\ b.data \in Seq(Byte) /\ b.sparse \in BOOLEAN /\ Len(b.data) \in Nat
  BY WritingsAssumption DEF FileInv, LongRight
<1>2. ASSUME NEW i \in 1 .. Len(b.data)
      PROVE  b.data[i] \in WantedAt(b.offset + i - 1)
  <2> DEFINE p == b.offset + i - 1
  <2>1. p - b.offset + 1 = i /\ b.offset <= p /\ p < b.offset + Len(b.data)
    BY <1>1
  <2> HIDE DEF p
  <2>2. b.data[p - b.offset + 1] \in WantedAt(p)
    BY <2>1 DEF WantedAt
  <2> QED
    BY <2>1, <2>2 DEF p
<1> QED
  BY <1>1, <1>2 DEF Belongs

(* What pwrite64 of data in its place leaves. *)
LEMMA PwrittenRight ==
    ASSUME NEW f, Right(f), NEW pos \in Nat, NEW data \in Seq(Byte), Belongs(data, pos)
    PROVE  /\ Right(Pwritten(f, pos, data))
           /\ DOMAIN Pwritten(f, pos, data) = DOMAIN f \cup pos .. pos + Len(data) - 1
<1> DEFINE g == Pwritten(f, pos, data)
<1>1. DOMAIN g = DOMAIN f \cup pos .. pos + Len(data) - 1
  BY DEF Pwritten
<1>2. ASSUME NEW p \in DOMAIN g
      PROVE  g[p] \in WantedAt(p)
  <2>1. CASE p \in pos .. pos + Len(data) - 1
    <3>1. g[p] = data[p - pos + 1]
      BY <1>1, <2>1 DEF Pwritten
    <3>2. p - pos + 1 \in 1 .. Len(data) /\ pos + (p - pos + 1) - 1 = p
      BY <2>1
    <3>3. data[p - pos + 1] \in WantedAt(pos + (p - pos + 1) - 1)
      BY <3>2 DEF Belongs
    <3> QED
      BY <3>1, <3>2, <3>3
  <2>2. CASE p \notin pos .. pos + Len(data) - 1
    <3>1. p \in DOMAIN f /\ g[p] = f[p]
      BY <1>1, <2>2 DEF Pwritten
    <3> QED
      BY <3>1 DEF Right
  <2> QED
    BY <2>1, <2>2
<1> QED
  BY <1>1, <1>2 DEF Right

(* A part of data in its place is in its place. *)
LEMMA PartBelongs ==
    ASSUME NEW data \in Seq(Byte), NEW pos \in Nat, Belongs(data, pos),
           NEW k \in Nat, NEW n \in Nat, k + n <= Len(data)
    PROVE  /\ SubSeq(data, k + 1, k + n) \in Seq(Byte) /\ Len(SubSeq(data, k + 1, k + n)) = n
           /\ Belongs(SubSeq(data, k + 1, k + n), pos + k)
<1> DEFINE part == SubSeq(data, k + 1, k + n)
<1>1. part \in Seq(Byte) /\ Len(part) = n /\ \A i \in 1 .. n : part[i] = data[k + i]
  <2>1. CASE n = 0
    BY <2>1
  <2>2. CASE n > 0
    BY <2>2
  <2> QED
    BY <2>1, <2>2
<1>2. ASSUME NEW i \in 1 .. n
      PROVE  data[k + i] \in WantedAt((pos + k) + i - 1)
  <2>1. k + i \in 1 .. Len(data) /\ pos + (k + i) - 1 = (pos + k) + i - 1
    OBVIOUS
  <2> QED
    BY <2>1 DEF Belongs
<1> QED
  BY <1>1, <1>2 DEF Belongs

(* What is to be written depends on the blocks alone. *)
LEMMA WrittenSame ==
    ASSUME UNCHANGED writing
    PROVE  \A b : Written(b)' = Written(b)
BY DEF Written, WholeFile, MaxBufSize

(* It is part of the block. *)
LEMMA WrittenPart ==
    ASSUME FileInv, NEW b \in writing.blocks
    PROVE  Written(b) \subseteq 0 .. Len(b.data) - 1
BY DEF Written, KeptBytes, KeptOffsets

LEMMA FileStart == FileInit => FileInv
<1> SUFFICES ASSUME FileInit PROVE FileInv
  OBVIOUS
<1>1. Right(file)
  BY DEF FileInit, Right
<1>2. Belongs(longbuf.data, longbuf.pos) /\ longbuf.data = <<>> /\ longbuf.pos = 0
  BY DEF FileInit, Belongs
<1> QED
  BY <1>1, <1>2 DEF FileInit, FileInv, LongRight, CallRight, Calling

LEMMA RemainderRange ==
    ASSUME Buffer \in Seq(Byte), WritePos \in Nat
    PROVE  UnalignedRemainder \in 0 .. Len(Buffer)
<1>1. NextBlockBoundary(WritePos) \in Int
  BY BlockSizeAssumption DEF NextBlockBoundary
<1>2. Len(Buffer) \in Nat
  OBVIOUS
<1> QED
  BY <1>1, <1>2 DEF UnalignedRemainder, Remainder

(* The buffer of a running call. *)
LEMMA CallTypes ==
    ASSUME FileInv, Calling
    PROVE  /\ Buffer \in Seq(Byte) /\ Len(Buffer) \in Nat /\ WritePos \in Nat /\ Belongs(Buffer, WritePos)
           /\ UnalignedRemainder \in 0 .. Len(Buffer)
<1>1. PICK b \in writing.blocks : Buffer = b.data /\ WritePos = b.offset
  BY DEF FileInv, CallRight
<1>2. Buffer \in Seq(Byte) /\ Len(Buffer) \in Nat /\ WritePos \in Nat /\ Belongs(Buffer, WritePos)
  BY <1>1, BlockTypes
<1> QED
  BY <1>2, RemainderRange

(* What pwrite64 of the collected bytes leaves. *)
LEMMA PwriteRight ==
    ASSUME FileInv, Calling, NEW n \in 0 .. buffered.n, Pwrite(n), writing' = writing
    PROVE  /\ Right(file)'
           /\ DOMAIN file' = DOMAIN file \cup
                 WritePos + buffered.begin .. WritePos + buffered.begin + n - 1
<1>1. /\ buffered.begin \in Nat /\ buffered.n \in Nat /\ skipped \in Nat /\ done \in Nat
      /\ buffered.begin + buffered.n + skipped = done /\ done <= Len(Buffer)
      /\ buffered.pos = WritePos + buffered.begin
  BY DEF FileInv, CallRight
<1> DEFINE k    == buffered.begin
           part == SubSeq(Buffer, k + 1, k + n)
<1>2. /\ Buffer \in Seq(Byte) /\ Len(Buffer) \in Nat /\ WritePos \in Nat /\ Belongs(Buffer, WritePos)
  BY CallTypes
<1>3. k \in Nat /\ n \in Nat /\ k + n <= Len(Buffer)
  BY <1>1, <1>2
<1>4. file' = Pwritten(file, WritePos + k, part)
  BY <1>1 DEF Pwrite
<1> HIDE DEF k
<1>5. part \in Seq(Byte) /\ Len(part) = n /\ Belongs(part, WritePos + k)
  BY <1>2, <1>3, PartBelongs
<1>6. WritePos + k \in Nat /\ Right(file)
  BY <1>2, <1>3 DEF FileInv, LongRight
<1> HIDE DEF part
<1>7. Right(Pwritten(file, WritePos + k, part))
      /\ DOMAIN Pwritten(file, WritePos + k, part) = DOMAIN file \cup WritePos + k .. WritePos + k + Len(part) - 1
  <2> DEFINE pos == WritePos + k
  <2>1. pos \in Nat /\ Belongs(part, pos)
    BY <1>5, <1>6
  <2> HIDE DEF pos
  <2>2. Right(Pwritten(file, pos, part)) /\ DOMAIN Pwritten(file, pos, part) = DOMAIN file \cup pos .. pos + Len(part) - 1
    BY <2>1, <1>5, <1>6, PwrittenRight
  <2> QED
    BY <2>2 DEF pos
<1>8. Right(file)'
  BY <1>4, <1>7 DEF Right, WantedAt
<1> QED
  BY <1>4, <1>5, <1>7, <1>8 DEF k

(* A step of SparseWrite that only adds to the file keeps what concerns the whole file. *)
LEMMA SparseKeeps ==
    ASSUME FileInv, UNCHANGED <<longVars, Buffer, WritePos>>, Right(file)', DOMAIN file \subseteq DOMAIN file'
    PROVE  LongRight'
<1>1. longpc # "thrown" => \A b \in writing.blocks \ todo :
          IsCurrent(b)' \/ \A i \in Written(b)' : HasByte(b.offset + i)'
  <2>1. \A b : Written(b)' = Written(b)
    BY WrittenSame DEF longVars
  <2>2. \A b : IsCurrent(b) => IsCurrent(b)'
    BY <2>1 DEF IsCurrent, Calling, longVars
  <2>3. \A p : HasByte(p) => HasByte(p)'
    BY DEF HasByte, getbufend, longVars
  <2> QED
    BY <2>1, <2>2, <2>3 DEF FileInv, LongRight
<1>2. Belongs(longbuf.data, longbuf.pos)'
  BY DEF FileInv, LongRight, longVars, Belongs, WantedAt
<1> QED
  BY <1>1, <1>2 DEF FileInv, LongRight, longVars

(* AppendBuf: the next n bytes of the buffer are collected. *)
LEMMA AppendKeeps ==
    ASSUME FileInv, Calling, NEW n \in Nat, done + n <= Len(Buffer), AppendBuf(n), done' = done + n,
           pc \in {"begin", "loop"}, pc' = "loop", UNCHANGED <<longVars, Buffer, WritePos>>, AtPiece(done + n)
    PROVE  FileInv'
<1>1. /\ buffered.begin \in Nat /\ buffered.n \in Nat /\ skipped \in Nat /\ done \in Nat
      /\ buffered.begin + buffered.n + skipped = done /\ done <= Len(Buffer)
      /\ buffered.pos = WritePos + buffered.begin
      /\ buffered = [begin |-> buffered.begin, pos |-> buffered.pos, n |-> buffered.n]
      /\ \A i \in 0 .. done - 1 : Settled(i) \/ i \in buffered.begin .. buffered.begin + buffered.n - 1
  BY DEF FileInv, CallRight
<1>2. /\ Buffer \in Seq(Byte) /\ Len(Buffer) \in Nat /\ WritePos \in Nat
  BY CallTypes
<1>3. Right(file)
  BY DEF FileInv, LongRight
<1>4. PICK b \in writing.blocks \ todo : Buffer = b.data /\ WritePos = b.offset
  BY DEF FileInv, CallRight
<1>5. AtPiece(done)'
  BY DEF AtPiece, UnalignedRemainder
<1>6. Calling' /\ done' \in Nat /\ done' <= Len(Buffer') /\ skipped' = 0
  BY <1>1 DEF Calling, longVars, AppendBuf
<1>7. KeptBytes(Buffer, WritePos)' = KeptBytes(Buffer, WritePos)
  OBVIOUS
<1>8. CASE skipped > 0
  <2>1. Pwrite(buffered.n) /\ buffered' = [begin |-> done, pos |-> WritePos + done, n |-> n]
    BY <1>8 DEF AppendBuf
  <2>2. Right(file)' /\ DOMAIN file' = DOMAIN file \cup
              WritePos + buffered.begin .. WritePos + buffered.begin + buffered.n - 1
    <3> DEFINE n0 == buffered.n
    <3>1. n0 \in 0 .. buffered.n /\ Pwrite(n0) /\ writing' = writing
      BY <1>1, <2>1 DEF longVars
    <3> HIDE DEF n0
    <3>2. Right(file)' /\ DOMAIN file' = DOMAIN file \cup
              WritePos + buffered.begin .. WritePos + buffered.begin + n0 - 1
      BY <3>1, PwriteRight
    <3> QED
      BY <3>2 DEF n0
  <2>3. LongRight'
    BY <2>2, SparseKeeps
  <2>4. ASSUME NEW i \in 0 .. done' - 1
        PROVE  Settled(i)' \/ i \in buffered'.begin .. buffered'.begin + buffered'.n - 1
    <3>1. CASE i \in done .. done + n - 1
      BY <2>1, <3>1
    <3>2. CASE i \in 0 .. done - 1
      <4>1. Settled(i) \/ i \in buffered.begin .. buffered.begin + buffered.n - 1
        BY <1>1, <3>2
      <4>2. CASE Settled(i)
        BY <4>2, <2>2, <1>7 DEF Settled
      <4>3. CASE i \in buffered.begin .. buffered.begin + buffered.n - 1
        <5>1. WritePos + i \in WritePos + buffered.begin .. WritePos + buffered.begin + buffered.n - 1
          BY <4>3, <1>1, <1>2, SMTT(60)
        <5>2. (WritePos + i)' \in DOMAIN file'
          BY <5>1, <2>2
        <5> QED
          BY <5>2 DEF Settled
      <4> QED
        BY <4>1, <4>2, <4>3
    <3> QED
      BY <3>1, <3>2, <1>1
  <2>5. /\ buffered'.begin = done /\ buffered'.n = n /\ buffered'.pos = WritePos + done
        /\ buffered' = [begin |-> buffered'.begin, pos |-> WritePos' + buffered'.begin, n |-> buffered'.n]
    BY <2>1
  <2>6. CallRight'
    BY <2>4, <2>5, <1>1, <1>4, <1>5, <1>6 DEF CallRight, longVars
  <2> QED
    BY <2>3, <2>6 DEF FileInv
<1>9. CASE skipped = 0
  <2>1. UNCHANGED file /\ buffered' = [buffered EXCEPT !.n = @ + n]
    BY <1>9 DEF AppendBuf
  <2>2. /\ buffered'.begin = buffered.begin /\ buffered'.n = buffered.n + n /\ buffered'.pos = buffered.pos
        /\ buffered' = [begin |-> buffered'.begin, pos |-> WritePos' + buffered'.begin, n |-> buffered'.n]
    <3>1. PICK bb, pp, nn : buffered = [begin |-> bb, pos |-> pp, n |-> nn]
      BY <1>1
    <3>2. buffered' = [begin |-> bb, pos |-> pp, n |-> nn + n]
      BY <2>1, <3>1
    <3> QED
      BY <3>1, <3>2, <1>1
  <2>3. Right(file)'
    BY <2>1, <1>3 DEF Right, WantedAt, longVars
  <2>4. LongRight'
    BY <2>1, <2>3, SparseKeeps
  <2>5. ASSUME NEW i \in 0 .. done' - 1
        PROVE  Settled(i)' \/ i \in buffered'.begin .. buffered'.begin + buffered'.n - 1
    <3>1. CASE i \in done .. done + n - 1
      BY <2>2, <3>1, <1>1, <1>9
    <3>2. CASE i \in 0 .. done - 1
      <4>1. Settled(i) \/ i \in buffered.begin .. buffered.begin + buffered.n - 1
        BY <1>1, <3>2
      <4>2. CASE Settled(i)
        BY <4>2, <2>1, <1>7 DEF Settled
      <4>3. CASE i \in buffered.begin .. buffered.begin + buffered.n - 1
        BY <4>3, <2>2, <1>1
      <4> QED
        BY <4>1, <4>2, <4>3
    <3> QED
      BY <3>1, <3>2, <1>1
  <2>6. buffered'.begin \in Nat /\ buffered'.n \in Nat /\ buffered'.begin + buffered'.n + skipped' = done'
    BY <2>2, <1>1, <1>6, <1>9
  <2>7. CallRight'
    BY <2>2, <2>5, <2>6, <1>1, <1>4, <1>5, <1>6 DEF CallRight, longVars
  <2> QED
    BY <2>4, <2>7 DEF FileInv
<1> QED
  BY <1>1, <1>8, <1>9

(* The numbers whose quotient is q. *)
LEMMA PieceOf ==
    ASSUME NEW B \in Nat \ {0}, NEW q \in Nat, NEW y \in Nat
    PROVE  y \div B = q <=> y \in q * B .. q * B + B - 1
<1> DEFINE d == y \div B
           m == y % B
           p == q * B
           e == d * B
<1>1. d \in Int /\ m \in 0 .. B - 1 /\ y = e + m
  OBVIOUS
<1> SUFFICES d = q <=> y \in p .. p + B - 1
  OBVIOUS
<1> HIDE DEF d, m
<1>2. p \in Int /\ e \in Int
  BY <1>1
<1>3. CASE d = q
  <2>1. e = p
    BY <1>3
  <2> HIDE DEF e, p
  <2> QED
    BY <1>1, <1>2, <1>3, <2>1
<1>4. CASE d > q
  <2>1. (d - q) * B >= B
    BY <1>1, <1>4
  <2>2. (d - q) * B = e - p
    BY <1>1
  <2> HIDE DEF e, p
  <2> QED
    BY <1>1, <1>2, <1>4, <2>1, <2>2
<1>5. CASE d < q
  <2>1. (q - d) * B >= B
    BY <1>1, <1>5
  <2>2. (q - d) * B = p - e
    BY <1>1
  <2> HIDE DEF e, p
  <2> QED
    BY <1>1, <1>2, <1>5, <2>1, <2>2
<1> QED
  BY <1>1, <1>3, <1>4, <1>5

(* Where an element of a part comes from. *)
LEMMA SubSeqPart ==
    ASSUME NEW S, NEW s \in Seq(S), NEW from \in Nat, NEW n \in Nat, from + n <= Len(s), NEW k \in 1 .. n
    PROVE  k \in DOMAIN SubSeq(s, from + 1, from + n) /\ SubSeq(s, from + 1, from + n)[k] = s[from + k]
OBVIOUS

(* The piece that the loop looks at, and where the next one begins. *)
LEMMA NextPiece ==
    ASSUME FileInv, Calling, pc = "loop", done < Len(Buffer)
    PROVE  /\ PieceSize(done) \in Nat /\ done + PieceSize(done) <= Len(Buffer)
           /\ AtPiece(done + PieceSize(done))
           /\ IsZeroBlock(Piece(done)) =>
                 \A i \in done .. done + PieceSize(done) - 1 : i \notin KeptBytes(Buffer, WritePos)
<1>1. /\ Len(Buffer) \in Nat /\ done \in Nat /\ UnalignedRemainder \in Nat /\ BlockSize \in Nat \ {0}
      /\ Buffer \in Seq(Byte)
  BY CallTypes, BlockSizeAssumption DEF FileInv, CallRight
<1>2. PICK q \in Nat : done = UnalignedRemainder + q * BlockSize
  BY <1>1 DEF FileInv, CallRight, AtPiece
<1>3. PieceSize(done) \in Nat /\ done + PieceSize(done) <= Len(Buffer) /\ PieceSize(done) <= BlockSize
  BY <1>1 DEF PieceSize
<1>4. PieceSize(done) = BlockSize \/ done + PieceSize(done) = Len(Buffer)
  BY <1>1 DEF PieceSize
<1>5. done + BlockSize = UnalignedRemainder + (q + 1) * BlockSize
  BY <1>1, <1>2
<1>6. AtPiece(done + PieceSize(done))
  BY <1>4, <1>5, <1>2 DEF AtPiece
<1>7. \A x \in UnalignedRemainder .. Len(Buffer) - 1 :
         (x - UnalignedRemainder) \div BlockSize = q <=> x \in done .. done + PieceSize(done) - 1
  <2> SUFFICES ASSUME NEW x \in UnalignedRemainder .. Len(Buffer) - 1
               PROVE  (x - UnalignedRemainder) \div BlockSize = q <=> x \in done .. done + PieceSize(done) - 1
    OBVIOUS
  <2> DEFINE y == x - UnalignedRemainder
             p == q * BlockSize
             n == PieceSize(done)
  <2>1. y \in Nat /\ p \in Nat /\ x = UnalignedRemainder + y /\ done = UnalignedRemainder + p
    BY <1>1, <1>2
  <2>2. n \in Nat /\ done + n <= Len(Buffer) /\ n <= BlockSize /\ (n = BlockSize \/ done + n = Len(Buffer))
    BY <1>3, <1>4
  <2> HIDE DEF y, n
  <2>3. y \div BlockSize = q <=> y \in p .. p + BlockSize - 1
    BY <1>1, <2>1, PieceOf
  <2> HIDE DEF p
  <2>4. y \in p .. p + BlockSize - 1 <=> x \in done .. done + n - 1
    BY <1>1, <2>1, <2>2
  <2> QED
    BY <2>3, <2>4 DEF y, n
<1>8. ASSUME IsZeroBlock(Piece(done)), NEW i \in done .. done + PieceSize(done) - 1
      PROVE  i \notin KeptBytes(Buffer, WritePos)
  <2> DEFINE R == UnalignedRemainder
             n == PieceSize(done)
  <2>1. i \in R .. Len(Buffer) - 1 /\ ~(i < R)
    <3> DEFINE p == q * BlockSize
    <3>1. p \in Nat /\ done = R + p
      BY <1>1, <1>2
    <3>2. n \in Nat /\ done + n <= Len(Buffer) /\ i \in done .. done + n - 1
      BY <1>3, <1>8
    <3> HIDE DEF p, n
    <3> QED
      BY <1>1, <3>1, <3>2
  <2>2. (i - R) \div BlockSize = q
    BY <1>7, <1>8, <2>1
  <2> SUFFICES ASSUME NEW z \in ZeroOffsets(Buffer), R <= z, z < Len(Buffer),
                      (z - R) \div BlockSize = q
               PROVE  FALSE
    BY <2>1, <2>2 DEF KeptBytes, KeptOffsets, UnalignedRemainder
  <2>3. z \in Int /\ z + 1 \in DOMAIN Buffer /\ Buffer[z + 1] = Zero
    <3> DEFINE S == {l \in DOMAIN Buffer : Buffer[l] = Zero}
    <3>0. z \in {l - 1 : l \in S}
      BY DEF ZeroOffsets
    <3> HIDE DEF S
    <3>1. PICK j \in S : z = j - 1
      BY <3>0
    <3>2. j \in DOMAIN Buffer /\ Buffer[j] = Zero
      BY Zenon DEF S
    <3>3. j \in 1 .. Len(Buffer)
      BY <1>1, <3>2
    <3>4. z \in Int /\ z + 1 = j
      BY <1>1, <3>1, <3>3
    <3> QED
      BY <3>2, <3>4
  <2>4. z \in done .. done + n - 1
    BY <1>1, <1>7, <2>3
  <2> DEFINE k == z - done + 1
  <2>5. n \in Nat /\ done + n <= Len(Buffer)
    BY <1>3
  <2>6. Piece(done) = SubSeq(Buffer, done + 1, done + n)
    BY DEF Piece
  <2> HIDE DEF n, R
  <2>7. k \in 1 .. n /\ done + k = z + 1
    BY <1>1, <2>3, <2>4, <2>5
  <2> HIDE DEF k
  <2>8. k \in DOMAIN Piece(done) /\ Piece(done)[k] = Buffer[done + k]
    BY <1>1, <2>5, <2>6, <2>7, SubSeqPart
  <2> QED
    BY <1>8, <2>3, <2>7, <2>8 DEF IsZeroBlock
<1> QED
  BY <1>3, <1>6, <1>8

LEMMA BeginKeeps == ASSUME FileInv, Calling, Begin, UNCHANGED longVars PROVE FileInv'
<1> DEFINE n == UnalignedRemainder
<1>1. n \in 0 .. Len(Buffer) /\ Len(Buffer) \in Nat
  BY CallTypes
<1>2. done = 0 /\ AppendBuf(n) /\ done' = n /\ pc = "begin" /\ pc' = "loop" /\ UNCHANGED <<Buffer, WritePos>>
  BY DEF Begin, FileInv, CallRight
<1>3. AtPiece(n)
  <2>1. n = UnalignedRemainder + 0 * BlockSize
    BY <1>1, BlockSizeAssumption
  <2> QED
    BY <2>1 DEF AtPiece
<1> HIDE DEF n
<1>4. n \in Nat /\ done + n = n /\ n <= Len(Buffer)
  BY <1>1, <1>2
<1> QED
  BY <1>1, <1>2, <1>3, <1>4, AppendKeeps

LEMMA WriteBlockKeeps == ASSUME FileInv, Calling, WriteBlock, UNCHANGED longVars PROVE FileInv'
<1> DEFINE n == PieceSize(done)
<1>1. pc = "loop" /\ done < Len(Buffer) /\ AppendBuf(n) /\ done' = done + n /\ pc' = pc /\ UNCHANGED <<Buffer, WritePos>>
  BY DEF WriteBlock
<1>2. n \in Nat /\ done + n <= Len(Buffer) /\ AtPiece(done + n)
  BY <1>1, NextPiece
<1> HIDE DEF n
<1> QED
  BY <1>1, <1>2, AppendKeeps

LEMMA SkipBlockKeeps == ASSUME FileInv, Calling, SkipBlock, UNCHANGED longVars PROVE FileInv'
<1> DEFINE size == PieceSize(done)
<1>1. /\ pc = "loop" /\ done < Len(Buffer) /\ IsZeroBlock(Piece(done))
      /\ skipped' = skipped + size /\ done' = done + size
      /\ UNCHANGED <<Buffer, WritePos, file, buffered, pc>>
  BY DEF SkipBlock
<1>2. /\ size \in Nat /\ done + size <= Len(Buffer)
      /\ AtPiece(done + size)
      /\ \A i \in done .. done + size - 1 : i \notin KeptBytes(Buffer, WritePos)
  BY <1>1, NextPiece
<1> HIDE DEF size
<1>2a. size \in Nat /\ done + size <= Len(Buffer) /\ Len(Buffer) \in Nat
  BY <1>2, CallTypes
<1>3. /\ buffered.begin \in Nat /\ buffered.n \in Nat /\ skipped \in Nat /\ done \in Nat
      /\ buffered.begin + buffered.n + skipped = done /\ done <= Len(Buffer)
      /\ buffered = [begin |-> buffered.begin, pos |-> WritePos + buffered.begin, n |-> buffered.n]
      /\ \A i \in 0 .. done - 1 : Settled(i) \/ i \in buffered.begin .. buffered.begin + buffered.n - 1
  BY <1>1 DEF FileInv, CallRight
<1>4. Right(file)'
  BY <1>1 DEF FileInv, LongRight, Right, WantedAt, longVars
<1>5. LongRight'
  BY <1>1, <1>4, SparseKeeps
<1>6. /\ KeptBytes(Buffer, WritePos)' = KeptBytes(Buffer, WritePos)
      /\ \A i : Settled(i)' <=> Settled(i)
  BY <1>1 DEF Settled
<1>7. ASSUME NEW i \in 0 .. done' - 1
      PROVE  Settled(i)' \/ i \in buffered'.begin .. buffered'.begin + buffered'.n - 1
  <2>1. i \in done .. done + size - 1 \/ i \in 0 .. done - 1
    <3>1. done' = done + size /\ done \in Nat
      BY <1>1, <1>3
    <3> QED
      BY <3>1, <1>2a
  <2>2. CASE i \in done .. done + size - 1
    BY <2>2, <1>2, <1>6 DEF Settled
  <2>3. CASE i \in 0 .. done - 1
    BY <2>3, <1>1, <1>3, <1>6
  <2> QED
    BY <2>1, <2>2, <2>3
<1>8. AtPiece(done)'
  BY <1>1, <1>2 DEF AtPiece, UnalignedRemainder
<1>9. PICK b \in writing.blocks \ todo : Buffer = b.data /\ WritePos = b.offset
  BY DEF FileInv, CallRight
<1>10. /\ buffered'.begin \in Nat /\ buffered'.n \in Nat /\ skipped' \in Nat /\ done' \in Nat
       /\ buffered'.begin + buffered'.n + skipped' = done' /\ done' <= Len(Buffer')
  <2>1. /\ buffered.begin \in Nat /\ buffered.n \in Nat /\ skipped \in Nat /\ done \in Nat
        /\ buffered.begin + buffered.n + skipped = done
    BY <1>3
  <2>2. skipped' = skipped + size /\ done' = done + size /\ buffered' = buffered /\ Buffer' = Buffer
    BY <1>1
  <2> QED
    BY <1>2a, <2>1, <2>2
<1>11. buffered' = [begin |-> buffered'.begin, pos |-> WritePos' + buffered'.begin, n |-> buffered'.n]
  BY <1>1, <1>3
<1>12. CallRight'
  BY <1>1, <1>7, <1>8, <1>9, <1>10, <1>11 DEF CallRight, longVars, Calling
<1> QED
  BY <1>5, <1>12 DEF FileInv

LEMMA FinishKeeps == ASSUME FileInv, Calling, Finish, UNCHANGED longVars PROVE FileInv'
<1> DEFINE n == buffered.n
<1>1. /\ pc = "loop" /\ done = Len(Buffer) /\ Pwrite(n) /\ pc' = "true"
      /\ UNCHANGED <<Buffer, WritePos, done, buffered, skipped>>
  BY DEF Finish
<1>2. /\ buffered.begin \in Nat /\ n \in Nat /\ skipped \in Nat /\ done \in Nat
      /\ buffered.begin + n + skipped = done /\ done <= Len(Buffer) /\ AtPiece(done)
      /\ buffered = [begin |-> buffered.begin, pos |-> WritePos + buffered.begin, n |-> buffered.n]
      /\ \A i \in 0 .. done - 1 : Settled(i) \/ i \in buffered.begin .. buffered.begin + n - 1
  BY <1>1 DEF FileInv, CallRight
<1>3. n \in 0 .. buffered.n /\ writing' = writing
  BY <1>2 DEF longVars
<1> HIDE DEF n
<1>4. Right(file)' /\ DOMAIN file' = DOMAIN file \cup WritePos + buffered.begin .. WritePos + buffered.begin + n - 1
  BY <1>1, <1>3, PwriteRight
<1>5. LongRight'
  BY <1>1, <1>4, SparseKeeps
<1>6. KeptBytes(Buffer, WritePos)' = KeptBytes(Buffer, WritePos)
  BY <1>1
<1>7. WritePos \in Nat /\ Len(Buffer) \in Nat
  BY CallTypes
<1>8. ASSUME NEW i \in 0 .. Len(Buffer) - 1
      PROVE  Settled(i)'
  <2>1. Settled(i) \/ i \in buffered.begin .. buffered.begin + n - 1
    BY <1>1, <1>2
  <2>2. CASE Settled(i)
    BY <2>2, <1>1, <1>4, <1>6 DEF Settled
  <2>3. CASE i \in buffered.begin .. buffered.begin + n - 1
    <3>1. WritePos + i \in WritePos + buffered.begin .. WritePos + buffered.begin + n - 1
      BY <2>3, <1>2, <1>7
    <3>2. (WritePos + i)' \in DOMAIN file'
      BY <3>1, <1>1, <1>4
    <3> QED
      BY <3>2 DEF Settled
  <2> QED
    BY <2>1, <2>2, <2>3
<1>9. AtPiece(done)'
  BY <1>1, <1>2 DEF AtPiece, UnalignedRemainder
<1>10. PICK b \in writing.blocks \ todo : Buffer = b.data /\ WritePos = b.offset
  BY DEF FileInv, CallRight
<1>11. CallRight'
  BY <1>1, <1>2, <1>8, <1>9, <1>10 DEF CallRight, longVars, Calling, n
<1> QED
  BY <1>5, <1>11 DEF FileInv

LEMMA FailKeeps == ASSUME FileInv, Calling, Fail, UNCHANGED longVars PROVE FileInv'
<1>1. /\ pc = "loop" /\ pc' = "false"
      /\ UNCHANGED <<Buffer, WritePos, done, buffered, skipped>>
  BY DEF Fail
<1>2. PICK n \in 0 .. buffered.n - 1 : Pwrite(n)
  BY DEF Fail
<1>3. buffered.n \in Nat /\ n \in 0 .. buffered.n /\ writing' = writing
  BY <1>1, <1>2 DEF FileInv, CallRight, longVars
<1>4. Right(file)' /\ DOMAIN file' = DOMAIN file \cup WritePos + buffered.begin .. WritePos + buffered.begin + n - 1
  BY <1>2, <1>3, PwriteRight
<1>5. LongRight'
  BY <1>1, <1>4, SparseKeeps
<1>6. AtPiece(done)'
  BY <1>1 DEF FileInv, CallRight, AtPiece, UnalignedRemainder
<1>7. PICK b \in writing.blocks \ todo : Buffer = b.data /\ WritePos = b.offset
  BY DEF FileInv, CallRight
<1>8. CallRight'
  BY <1>1, <1>6, <1>7 DEF FileInv, CallRight, longVars, Calling
<1> QED
  BY <1>5, <1>8 DEF FileInv

LEMMA SparseStepKeeps == ASSUME FileInv, SparseStep PROVE FileInv'
<1>1. Calling /\ UNCHANGED longVars
  BY DEF SparseStep, Calling
<1> QED
  BY <1>1, BeginKeeps, WriteBlockKeeps, SkipBlockKeeps, FinishKeeps, FailKeeps DEF SparseStep, Next

LEMMA ReturnKeeps == ASSUME FileInv, SparseReturn PROVE FileInv'
<1>1. /\ Calling /\ pc \in {"true", "false"} /\ pc' = "idle"
      /\ longpc' = IF pc = "true" THEN "open" ELSE "thrown"
      /\ UNCHANGED <<writing, todo, longbuf, Buffer, WritePos, file, done, buffered, skipped>>
  BY DEF SparseReturn, Calling
<1>2. ~Calling'
  BY <1>1 DEF Calling
<1>3. CallRight'
  BY <1>1, <1>2 DEF CallRight
<1>4. WritePos \in Nat /\ Len(Buffer) \in Nat
  BY <1>1, CallTypes
<1>5. ASSUME longpc' # "thrown", NEW b \in writing.blocks \ todo, NEW i \in Written(b)
      PROVE  HasByte(b.offset + i)'
  <2>1. pc = "true" /\ \A k \in 0 .. Len(Buffer) - 1 : Settled(k)
    BY <1>1, <1>5 DEF FileInv, CallRight
  <2>2. CASE IsCurrent(b)
    <3>1. i \in KeptBytes(Buffer, WritePos) /\ i \in 0 .. Len(Buffer) - 1
      BY <2>2, WrittenPart DEF IsCurrent
    <3>2. WritePos + i \in DOMAIN file /\ WritePos = b.offset
      BY <2>1, <2>2, <3>1 DEF Settled, IsCurrent
    <3> QED
      BY <3>2, <1>1 DEF HasByte
  <2>3. CASE ~IsCurrent(b)
    <3>1. HasByte(b.offset + i)
      BY <2>3, <1>1, <1>5, <2>1 DEF FileInv, LongRight, Calling
    <3> QED
      BY <3>1, <1>1 DEF HasByte, getbufend
  <2> QED
    BY <2>2, <2>3
<1>6. Right(file)' /\ Belongs(longbuf.data, longbuf.pos)'
  BY <1>1 DEF FileInv, LongRight, Right, Belongs, WantedAt
<1>7. \A b : Written(b)' = Written(b)
  BY <1>1, WrittenSame
<1>8. LongRight'
  BY <1>1, <1>5, <1>6, <1>7 DEF FileInv, LongRight, Calling
<1> QED
  BY <1>3, <1>8 DEF FileInv

(* A block that goes to the file at once, or to SparseWrite. *)
LEMMA DirectlyKeeps ==
    ASSUME FileInv, longpc = "open", NEW b \in todo, todo' = todo \ {b}, UNCHANGED writing,
           WholeFile(b) \/ Len(b.data) > MaxBufSize,
           NEW f, Right(f), DOMAIN file \subseteq DOMAIN f, Directly(b, f),
           longbuf'.pos \in Nat, longbuf'.data \in Seq(Byte), Belongs(longbuf'.data, longbuf'.pos),
           \A p \in longbuf.pos .. getbufend - 1 : p \in DOMAIN f \/ p \in (longbuf.pos)' .. getbufend' - 1
    PROVE  FileInv'
<1>1. b \in writing.blocks /\ todo \subseteq writing.blocks /\ pc = "idle"
  BY DEF FileInv, LongRight, CallRight, Calling
<1>2. /\ b.offset \in Nat /\ b.data \in Seq(Byte) /\ b.sparse \in BOOLEAN /\ Len(b.data) \in Nat
      /\ Belongs(b.data, b.offset)
  BY <1>1, BlockTypes
<1>3. Belongs(longbuf.data, longbuf.pos)'
  BY DEF Belongs, WantedAt
<1>4. ASSUME NEW c \in writing.blocks \ todo, NEW i \in Written(c)
      PROVE  HasByte(c.offset + i)
  BY DEF FileInv, LongRight, IsCurrent, Calling
<1>7. \A c : Written(c)' = Written(c)
  BY WrittenSame
<1>5. CASE b.sparse
  <2>1. /\ file' = f /\ longpc' = "sparse" /\ pc' = "begin"
        /\ Buffer' = b.data /\ WritePos' = b.offset
        /\ done' = 0 /\ buffered' = [begin |-> 0, pos |-> b.offset, n |-> 0] /\ skipped' = 0
    BY <1>5 DEF Directly, JustWriteIt
  <2>2. Right(file)'
    BY <2>1 DEF Right, WantedAt
  <2>3. \A p : HasByte(p) => HasByte(p)'
    BY <2>1 DEF HasByte
  <2>4. ASSUME NEW c \in (writing.blocks \ todo)'
        PROVE  IsCurrent(c)' \/ \A i \in Written(c)' : HasByte(c.offset + i)'
    <3>1. CASE c = b
      <4>1. Written(b) = KeptBytes(b.data, b.offset)
        BY <1>5 DEF Written
      <4> QED
        BY <3>1, <4>1, <1>7, <2>1 DEF IsCurrent, Calling
    <3>2. CASE c # b
      BY <3>2, <1>4, <1>7, <2>3
    <3> QED
      BY <3>1, <3>2
  <2>5. LongRight'
    BY <1>1, <1>3, <2>1, <2>2, <2>4 DEF FileInv, LongRight
  <2>6. /\ buffered'.begin = 0 /\ buffered'.n = 0 /\ WritePos' + 0 = WritePos'
        /\ buffered' = [begin |-> buffered'.begin, pos |-> WritePos' + buffered'.begin, n |-> buffered'.n]
    BY <1>2, <2>1
  <2>7. \A i \in 0 .. done' - 1 : FALSE
    BY <2>1
  <2>8. b \in (writing.blocks \ todo)' /\ Calling' /\ done' <= Len(Buffer')
    BY <1>1, <1>2, <2>1 DEF Calling
  <2>9. CallRight'
    BY <2>1, <2>6, <2>7, <2>8 DEF CallRight
  <2> QED
    BY <2>5, <2>9 DEF FileInv
<1>6. CASE ~b.sparse
  <2>1. /\ file' = Pwritten(f, b.offset, b.data)
        /\ UNCHANGED <<longpc, pc, Buffer, WritePos, done, buffered, skipped>>
    BY <1>6 DEF Directly, JustWriteIt
  <2> DEFINE pos  == b.offset
             data == b.data
  <2>2. Right(Pwritten(f, pos, data)) /\ DOMAIN Pwritten(f, pos, data) = DOMAIN f \cup pos .. pos + Len(data) - 1
    <3> HIDE DEF pos, data
    <3>1. pos \in Nat /\ data \in Seq(Byte) /\ Belongs(data, pos)
      BY <1>2 DEF pos, data
    <3> QED
      BY <3>1, PwrittenRight
  <2>3. Right(file)' /\ DOMAIN file' = DOMAIN f \cup b.offset .. b.offset + Len(b.data) - 1
    BY <2>1, <2>2 DEF Right, WantedAt
  <2>4. \A p : HasByte(p) => HasByte(p)'
    BY <2>3 DEF HasByte
  <2>5. ASSUME NEW c \in (writing.blocks \ todo)', NEW i \in Written(c)'
        PROVE  HasByte(c.offset + i)'
    <3>1. CASE c = b
      <4>1. i \in 0 .. Len(b.data) - 1
        BY <3>1, <1>1, <1>7, WrittenPart
      <4>2. c.offset + i \in b.offset .. b.offset + Len(b.data) - 1
        BY <3>1, <4>1, <1>2
      <4>3. c.offset + i \in DOMAIN file'
        BY <4>2, <2>3
      <4> QED
        BY <4>3 DEF HasByte
    <3>2. CASE c # b
      BY <3>2, <1>4, <1>7, <2>4
    <3> QED
      BY <3>1, <3>2
  <2>6. LongRight'
    BY <1>1, <1>3, <2>1, <2>3, <2>5 DEF FileInv, LongRight
  <2>7. CallRight' /\ ~Calling'
    BY <1>1, <2>1 DEF CallRight, Calling
  <2> QED
    BY <2>6, <2>7 DEF FileInv
<1> QED
  BY <1>5, <1>6

(* FlushBuffer. *)
LEMMA FlushRight ==
    ASSUME FileInv
    PROVE  /\ Right(Flushed(file))
           /\ DOMAIN Flushed(file) = DOMAIN file \cup longbuf.pos .. getbufend - 1
<1> DEFINE pos  == longbuf.pos
           data == longbuf.data
<1>1. pos \in Nat /\ data \in Seq(Byte) /\ Belongs(data, pos) /\ Right(file)
  BY DEF FileInv, LongRight
<1> HIDE DEF pos, data
<1>2. Right(Pwritten(file, pos, data)) /\ DOMAIN Pwritten(file, pos, data) = DOMAIN file \cup pos .. pos + Len(data) - 1
  BY <1>1, PwrittenRight
<1> DEFINE g == Pwritten(file, pos, data)
<1>3. Flushed(file) = g /\ getbufend = pos + Len(data) /\ longbuf.pos = pos
  BY DEF Flushed, getbufend, pos, data
<1>4. Right(g) /\ DOMAIN g = DOMAIN file \cup pos .. pos + Len(data) - 1
  BY <1>2
<1> HIDE DEF g
<1>5. Right(Flushed(file))
  BY <1>3, <1>4 DEF Right
<1>6. DOMAIN Flushed(file) = DOMAIN file \cup longbuf.pos .. getbufend - 1
  <2>1. Len(data) \in Nat
    BY <1>1
  <2> QED
    BY <1>1, <1>3, <1>4, <2>1
<1> QED
  BY <1>5, <1>6

LEMMA WriteKeeps == ASSUME FileInv, NEW b \in todo, write(b) PROVE FileInv'
<1>1. longpc = "open" /\ todo' = todo \ {b} /\ UNCHANGED writing
  BY DEF write
<1>2. Right(file) /\ longbuf.pos \in Nat /\ longbuf.data \in Seq(Byte) /\ Belongs(longbuf.data, longbuf.pos)
      /\ b \in writing.blocks /\ todo \subseteq writing.blocks /\ pc = "idle" /\ ~Calling
  BY <1>1 DEF FileInv, LongRight, CallRight, Calling
<1>3. CASE WholeFile(b)
  <2>1. Directly(b, file) /\ longbuf' = longbuf
    BY <1>3 DEF write
  <2>2. \A p \in longbuf.pos .. getbufend - 1 : p \in (longbuf.pos)' .. getbufend' - 1
    BY <2>1 DEF getbufend
  <2> QED
    BY <1>1, <1>2, <1>3, <2>1, <2>2, DirectlyKeeps
<1>4. CASE ~WholeFile(b)
  <2> DEFINE buf == BufferFor(b)
             f   == IF MustFlush(b) THEN Flushed(file) ELSE file
  <2>1. /\ b.offset \in Nat /\ b.data \in Seq(Byte) /\ b.sparse \in BOOLEAN /\ Len(b.data) \in Nat
        /\ Belongs(b.data, b.offset)
    BY <1>2, BlockTypes
  <2>2. Right(f) /\ DOMAIN file \subseteq DOMAIN f
    BY <1>2, FlushRight
  <2>3. /\ buf.pos \in Nat /\ buf.data \in Seq(Byte) /\ Belongs(buf.data, buf.pos)
        /\ \A p \in longbuf.pos .. getbufend - 1 : p \in DOMAIN f \/ p \in buf.pos .. buf.pos + Len(buf.data) - 1
    <3>1. CASE MustFlush(b)
      <4>1. buf.pos = b.offset /\ buf.data = <<>>
        BY <3>1 DEF BufferFor
      <4>2. Belongs(buf.data, buf.pos)
        BY <4>1 DEF Belongs
      <4> QED
        BY <4>1, <4>2, <3>1, <2>1, FlushRight
    <3>2. CASE ~MustFlush(b) /\ longbuf.data = <<>>
      <4>1. buf.pos = b.offset /\ buf.data = <<>>
        BY <3>2 DEF BufferFor
      <4>2. Belongs(buf.data, buf.pos)
        BY <4>1 DEF Belongs
      <4>3. \A p \in longbuf.pos .. getbufend - 1 : FALSE
        BY <3>2, <1>2 DEF getbufend
      <4> QED
        BY <4>1, <4>2, <4>3, <2>1
    <3>3. CASE ~MustFlush(b) /\ longbuf.data # <<>>
      <4>1. buf.pos = longbuf.pos /\ buf.data = longbuf.data
        BY <3>3 DEF BufferFor
      <4> QED
        BY <4>1, <1>2 DEF getbufend
    <3> QED
      BY <3>1, <3>2, <3>3
  <2>4. IF b.offset = buf.pos + Len(buf.data) /\ Len(buf.data) + Len(b.data) <= MaxBufSize
        THEN /\ longbuf' = [buf EXCEPT !.data = @ \o b.data]
             /\ file' = f
             /\ UNCHANGED <<longpc, pc, Buffer, WritePos, done, buffered, skipped>>
        ELSE longbuf' = buf /\ Directly(b, f)
    BY <1>4 DEF write
  <2>5. buf = [pos |-> buf.pos, data |-> buf.data]
    BY DEF BufferFor
  <2>8. /\ b.offset = buf.pos + Len(buf.data)
        /\ Len(buf.data) + Len(b.data) <= MaxBufSize \/ Len(b.data) > MaxBufSize
    <3>1. MaxBufSize \in Nat
      BY WritingsAssumption DEF MaxBufSize, FileInv, LongRight
    <3>2. CASE buf.data = <<>>
      <4>1. buf.pos = b.offset /\ Len(buf.data) = 0
        BY <3>2 DEF BufferFor
      <4> HIDE DEF buf
      <4> QED
        BY <2>1, <3>1, <4>1
    <3>3. CASE buf.data # <<>>
      BY <3>3 DEF BufferFor, MustFlush, Fits, getbufend
    <3> QED
      BY <3>2, <3>3
  <2> HIDE DEF buf, f
  <2>6. CASE longbuf' = buf /\ Directly(b, f) /\ Len(b.data) > MaxBufSize
    <3>1. \A p \in longbuf.pos .. getbufend - 1 : p \in DOMAIN f \/ p \in (longbuf.pos)' .. getbufend' - 1
      BY <2>6, <2>3 DEF getbufend
    <3>2. longbuf'.pos \in Nat /\ longbuf'.data \in Seq(Byte) /\ Belongs(longbuf'.data, longbuf'.pos)
      BY <2>6, <2>3
    <3> QED
      BY <1>1, <2>2, <2>6, <3>1, <3>2, DirectlyKeeps
  <2>7. CASE /\ b.offset = buf.pos + Len(buf.data)
             /\ longbuf' = [buf EXCEPT !.data = @ \o b.data]
             /\ file' = f
             /\ UNCHANGED <<longpc, pc, Buffer, WritePos, done, buffered, skipped>>
    <3>1. PICK bp, bd : buf = [pos |-> bp, data |-> bd]
      BY <2>5
    <3>2. longbuf' = [pos |-> bp, data |-> bd \o b.data]
      BY <3>1, <2>7
    <3>3. bp \in Nat /\ bd \in Seq(Byte) /\ Belongs(bd, bp) /\ b.offset = bp + Len(bd) /\ Len(bd) \in Nat
          /\ \A p \in longbuf.pos .. getbufend - 1 : p \in DOMAIN f \/ p \in bp .. bp + Len(bd) - 1
      BY <3>1, <2>3, <2>7
    <3> DEFINE bb  == b.data
               all == bd \o bb
    <3>4. bb \in Seq(Byte)
      BY <2>1
    <3>5. all \in Seq(Byte) /\ Len(all) = Len(bd) + Len(b.data)
          /\ \A i \in 1 .. Len(all) : all[i] = IF i <= Len(bd) THEN bd[i] ELSE b.data[i - Len(bd)]
      <4> HIDE DEF bb
      <4>1. all \in Seq(Byte) /\ Len(all) = Len(bd) + Len(bb)
            /\ \A i \in 1 .. Len(all) : all[i] = IF i <= Len(bd) THEN bd[i] ELSE bb[i - Len(bd)]
        BY <3>3, <3>4, ConcatProperties
      <4> QED
        BY <4>1 DEF bb
    <3> HIDE DEF all, bb
    <3>6. ASSUME NEW i \in 1 .. Len(all)
          PROVE  all[i] \in WantedAt(bp + i - 1)
      <4>1. CASE i <= Len(bd)
        BY <4>1, <3>3, <3>5 DEF Belongs
      <4>2. CASE i > Len(bd)
        <5> DEFINE j == i - Len(bd)
        <5>1. j \in 1 .. Len(b.data) /\ b.offset + j - 1 = bp + i - 1 /\ all[i] = b.data[j]
          BY <4>2, <3>3, <3>5, <2>1
        <5> HIDE DEF j
        <5> QED
          BY <5>1, <2>1 DEF Belongs
      <4> QED
        BY <4>1, <4>2, <3>3, <3>5, <2>1
    <3>7. longbuf' = [pos |-> bp, data |-> all]
      BY <3>2 DEF all, bb
    <3>8. longbuf'.pos = bp /\ longbuf'.data = all /\ getbufend' = bp + Len(all)
      BY <3>7 DEF getbufend
    <3>9. Belongs(longbuf.data, longbuf.pos)'
      BY <1>1, <3>6, <3>8 DEF Belongs, WantedAt
    <3>10. Right(file)'
      BY <1>1, <2>2, <2>7 DEF Right, WantedAt
    <3>11. \A p : HasByte(p) => HasByte(p)'
      <4>1. \A p \in bp .. bp + Len(bd) - 1 : p \in bp .. bp + Len(all) - 1
        BY <3>3, <3>5, <2>1
      <4> QED
        BY <1>1, <2>2, <2>7, <3>3, <3>8, <4>1 DEF HasByte
    <3>12. ASSUME NEW c \in (writing.blocks \ todo)', NEW i \in Written(c)'
           PROVE  HasByte(c.offset + i)'
      <4>0. i \in Written(c)
        BY <1>1, WrittenSame
      <4>1. CASE c = b
        <5>1. i \in 0 .. Len(b.data) - 1
          BY <4>0, <4>1, <1>2, WrittenPart
        <5>2. c.offset + i \in bp .. bp + Len(all) - 1
          BY <4>1, <5>1, <2>1, <3>3, <3>5
        <5> QED
          BY <5>2, <3>8, <3>3, <3>5, <2>1 DEF HasByte
      <4>2. CASE c # b
        <5>1. HasByte(c.offset + i)
          BY <4>0, <4>2, <1>1, <1>2 DEF FileInv, LongRight, IsCurrent
        <5> QED
          BY <5>1, <3>11
      <4> QED
        BY <4>1, <4>2
    <3>13. LongRight'
      BY <1>1, <1>2, <2>7, <3>3, <3>5, <3>8, <3>9, <3>10, <3>12 DEF LongRight, FileInv
    <3>14. CallRight'
      BY <1>1, <1>2, <2>7 DEF CallRight, Calling
    <3> QED
      BY <3>13, <3>14 DEF FileInv
  <2> QED
    BY <2>4, <2>6, <2>7, <2>8
<1> QED
  BY <1>3, <1>4

(* After a throw nothing is promised but that no byte is in a wrong place. *)
LEMMA ThrownKeeps ==
    ASSUME FileInv, longpc = "open", NEW f, Right(f), file' = f, longpc' = "thrown",
           UNCHANGED <<Buffer, WritePos, done, buffered, skipped, pc, writing, todo, longbuf>>
    PROVE  FileInv'
<1>1. Right(file)' /\ Belongs(longbuf.data, longbuf.pos)'
  BY DEF FileInv, LongRight, Right, Belongs, WantedAt
<1>2. LongRight'
  BY <1>1 DEF FileInv, LongRight
<1>3. CallRight'
  BY DEF FileInv, CallRight, Calling
<1> QED
  BY <1>2, <1>3 DEF FileInv

(* A pwrite64 that stops in the middle. *)
LEMMA PartRight ==
    ASSUME NEW f, Right(f), NEW pos \in Nat, NEW data \in Seq(Byte), Belongs(data, pos), NEW n \in 0 .. Len(data) - 1
    PROVE  Right(Pwritten(f, pos, SubSeq(data, 1, n)))
<1> DEFINE part == SubSeq(data, 1, n)
<1>1. n \in Nat /\ 0 \in Nat /\ 0 + n <= Len(data) /\ pos + 0 = pos /\ 0 + n = n /\ 0 + 1 = 1
  OBVIOUS
<1>2. part \in Seq(Byte) /\ Belongs(part, pos)
  <2>1. /\ SubSeq(data, 0 + 1, 0 + n) \in Seq(Byte)
        /\ Belongs(SubSeq(data, 0 + 1, 0 + n), pos + 0)
    BY <1>1, PartBelongs
  <2> QED
    BY <1>1, <2>1
<1> HIDE DEF part
<1> QED
  BY <1>2, PwrittenRight DEF part

LEMMA ThrowKeeps == ASSUME FileInv, Throw PROVE FileInv'
<1> DEFINE data == longbuf.data
           pos  == longbuf.pos
<1>1. longpc = "open" /\ longpc' = "thrown"
      /\ UNCHANGED <<Buffer, WritePos, done, buffered, skipped, pc, writing, todo, longbuf>>
  BY DEF Throw
<1>2. PICK n \in 0 .. Len(data) - 1 : file' = Pwritten(file, pos, SubSeq(data, 1, n))
  BY DEF Throw
<1>3. pos \in Nat /\ data \in Seq(Byte) /\ Belongs(data, pos) /\ Right(file)
  BY DEF FileInv, LongRight
<1> HIDE DEF data, pos
<1> DEFINE f == Pwritten(file, pos, SubSeq(data, 1, n))
<1>4. Right(f)
  BY <1>3, PartRight
<1> HIDE DEF f
<1>5. file' = f
  BY <1>2 DEF f
<1> QED
  BY <1>1, <1>4, <1>5, ThrownKeeps

LEMMA ThrowDirectlyKeeps == ASSUME FileInv, NEW b \in todo, ThrowDirectly(b) PROVE FileInv'
<1> DEFINE data == b.data
           pos  == b.offset
           g    == IF WholeFile(b) THEN file ELSE Flushed(file)
<1>1. longpc = "open" /\ longpc' = "thrown"
      /\ UNCHANGED <<Buffer, WritePos, done, buffered, skipped, pc, writing, todo, longbuf>>
  BY DEF ThrowDirectly
<1>2. PICK n \in 0 .. Len(data) - 1 : file' = Pwritten(g, pos, SubSeq(data, 1, n))
  BY DEF ThrowDirectly
<1>3. pos \in Nat /\ data \in Seq(Byte) /\ Belongs(data, pos)
  BY BlockTypes DEF FileInv, LongRight
<1>4. Right(g)
  BY FlushRight DEF FileInv, LongRight
<1> HIDE DEF data, pos, g
<1> DEFINE f == Pwritten(g, pos, SubSeq(data, 1, n))
<1>5. Right(f)
  BY <1>3, <1>4, PartRight
<1> HIDE DEF f
<1>6. file' = f
  BY <1>2 DEF f
<1> QED
  BY <1>1, <1>5, <1>6, ThrownKeeps

LEMMA CloseKeeps == ASSUME FileInv, CloseFile PROVE FileInv'
<1>1. /\ longpc = "open" /\ todo = {} /\ longpc' = "closed"
      /\ file' = Flushed(file) /\ longbuf' = [longbuf EXCEPT !.data = <<>>]
      /\ UNCHANGED <<writing, todo, Buffer, WritePos, done, buffered, skipped, pc>>
  BY DEF CloseFile
<1>2. Right(file)' /\ DOMAIN file' = DOMAIN file \cup longbuf.pos .. getbufend - 1
  BY <1>1, FlushRight DEF Right, WantedAt
<1>3. longbuf'.data = <<>> /\ longbuf'.pos = longbuf.pos
  BY <1>1 DEF FileInv, LongRight
<1>4. Belongs(longbuf.data, longbuf.pos)'
  BY <1>3 DEF Belongs
<1>5. \A p : HasByte(p) => HasByte(p)'
  BY <1>1, <1>2 DEF HasByte
<1>6. ASSUME NEW c \in (writing.blocks \ todo)', NEW i \in Written(c)'
      PROVE  HasByte(c.offset + i)'
  <2>1. i \in Written(c)
    BY <1>1, WrittenSame
  <2> QED
    BY <1>1, <1>5, <2>1 DEF FileInv, LongRight, IsCurrent, Calling
<1>7. LongRight'
  BY <1>1, <1>2, <1>3, <1>4, <1>6 DEF FileInv, LongRight
<1>8. CallRight'
  BY <1>1 DEF FileInv, CallRight, Calling
<1> QED
  BY <1>7, <1>8 DEF FileInv

LEMMA FileIdleKeeps == ASSUME FileInv, UNCHANGED fileVars PROVE FileInv'
<1>1. UNCHANGED <<Buffer, WritePos, file, done, buffered, skipped, pc, writing, todo, longbuf, longpc>>
  BY DEF fileVars, vars, longVars
<1>2. Right(file)' /\ Belongs(longbuf.data, longbuf.pos)'
  BY <1>1 DEF FileInv, LongRight, Right, Belongs, WantedAt
<1>3. \A p : HasByte(p)' <=> HasByte(p)
  BY <1>1 DEF HasByte, getbufend
<1>4. \A b : (Written(b)' = Written(b)) /\ (IsCurrent(b)' <=> IsCurrent(b))
  <2>1. \A b : Written(b)' = Written(b)
    BY <1>1, WrittenSame
  <2> QED
    BY <1>1, <2>1 DEF IsCurrent, Calling
<1>5. LongRight'
  BY <1>1, <1>2, <1>3, <1>4 DEF FileInv, LongRight
<1>6. /\ KeptBytes(Buffer, WritePos)' = KeptBytes(Buffer, WritePos)
      /\ \A i : Settled(i)' <=> Settled(i)
  BY <1>1 DEF Settled
<1>7. AtPiece(done)' <=> AtPiece(done)
  BY <1>1 DEF AtPiece, UnalignedRemainder
<1>8. CallRight'
  BY <1>1, <1>6, <1>7 DEF FileInv, CallRight, Calling
<1> QED
  BY <1>5, <1>8 DEF FileInv

-----------------------------------------------------------------------------
(* The blocks do not overlap: every place has one byte. *)
LEMMA OneByte ==
    ASSUME FileInv, NEW b \in writing.blocks, NEW i \in 1 .. Len(b.data),
           NEW x \in WantedAt(b.offset + i - 1)
    PROVE  x = b.data[i]
<1> DEFINE p == b.offset + i - 1
<1>1. b.offset \in Nat /\ Len(b.data) \in Nat /\ i \in Nat
  BY BlockTypes
<1>2. p - b.offset + 1 = i /\ b.offset <= p /\ p < b.offset + Len(b.data) /\ p \in Nat
  BY <1>1
<1> HIDE DEF p
<1>3. x \in WantedAt(p)
  BY DEF p
<1>4. PICK c \in writing.blocks : c.offset <= p /\ p < c.offset + Len(c.data) /\ x = c.data[p - c.offset + 1]
  BY <1>3 DEF WantedAt
<1>5. c.offset \in Nat /\ Len(c.data) \in Nat
  BY BlockTypes
<1>6. ~Disjoint(b, c)
  <2>1. ~(b.offset + Len(b.data) <= c.offset)
    BY <1>1, <1>2, <1>4, <1>5, SMTT(60)
  <2>2. ~(c.offset + Len(c.data) <= b.offset)
    BY <1>1, <1>2, <1>4, <1>5
  <2> QED
    BY <2>1, <2>2 DEF Disjoint
<1>7. c = b
  BY <1>6, WritingsAssumption DEF FileInv, LongRight
<1> QED
  BY <1>2, <1>4, <1>7

LEMMA FileInvFaithful == FileInv => FileFaithful
<1> SUFFICES ASSUME FileInv PROVE FileFaithful
  OBVIOUS
<1>1. WrittenInPlace
  BY DEF FileInv, LongRight, Right, WrittenInPlace
<1>2. ASSUME pc = "true", NEW i \in KeptBytes(Buffer, WritePos)
      PROVE  WritePos + i \in DOMAIN file /\ file[WritePos + i] = Buffer[i + 1]
  <2>0. i \in 0 .. Len(Buffer) - 1
    BY DEF KeptBytes, KeptOffsets
  <2>1. Calling /\ WritePos + i \in DOMAIN file
    BY <1>2, <2>0 DEF FileInv, CallRight, Settled
  <2>2. PICK b \in writing.blocks : Buffer = b.data /\ WritePos = b.offset
    BY <2>1 DEF FileInv, CallRight
  <2> DEFINE k == i + 1
  <2>3. Len(b.data) \in Nat /\ b.offset \in Nat
    BY BlockTypes
  <2>4. k \in 1 .. Len(b.data) /\ b.offset + k - 1 = WritePos + i
    BY <2>0, <2>2, <2>3
  <2>5. file[WritePos + i] \in WantedAt(b.offset + k - 1)
    BY <2>1, <1>1, <2>4 DEF WrittenInPlace
  <2> HIDE DEF k
  <2>6. file[WritePos + i] = b.data[k]
    BY <2>4, <2>5, OneByte
  <2> QED
    BY <2>1, <2>2, <2>6 DEF k
<1>3. ASSUME longpc = "closed", NEW b \in writing.blocks, NEW i \in Written(b)
      PROVE  b.offset + i \in DOMAIN file /\ file[b.offset + i] = b.data[i + 1]
  <2> DEFINE k == i + 1
  <2>1. b.offset \in Nat /\ Len(b.data) \in Nat /\ i \in 0 .. Len(b.data) - 1
    <3>1. i \in 0 .. Len(b.data) - 1
      BY <1>3, WrittenPart
    <3> QED
      BY <3>1, BlockTypes
  <2>2. k \in 1 .. Len(b.data) /\ b.offset + k - 1 = b.offset + i
    BY <2>1
  <2>3. HasByte(b.offset + i) /\ longbuf.data = <<>> /\ longbuf.pos \in Nat
    BY <1>3 DEF FileInv, LongRight, IsCurrent, Calling
  <2>4. b.offset + i \in DOMAIN file
    BY <2>3 DEF HasByte, getbufend
  <2>5. file[b.offset + i] \in WantedAt(b.offset + k - 1)
    BY <2>2, <2>4, <1>1 DEF WrittenInPlace
  <2> HIDE DEF k
  <2>6. file[b.offset + i] = b.data[k]
    BY <2>2, <2>5, OneByte
  <2> QED
    BY <2>4, <2>6 DEF k
<1> QED
  BY <1>1, <1>2, <1>3 DEF FileFaithful, KeptPiecesWritten, FileComplete

LEMMA FileStep == FileInv /\ [FileNext]_fileVars => FileInv'
<1> SUFFICES ASSUME FileInv, [FileNext]_fileVars PROVE FileInv'
  OBVIOUS
<1>1. CASE \E b \in todo : write(b) \/ ThrowDirectly(b)
  BY <1>1, WriteKeeps, ThrowDirectlyKeeps
<1>2. CASE Throw
  BY <1>2, ThrowKeeps
<1>3. CASE SparseStep
  BY <1>3, SparseStepKeeps
<1>4. CASE SparseReturn
  BY <1>4, ReturnKeeps
<1>5. CASE CloseFile
  BY <1>5, CloseKeeps
<1>6. CASE FileEnd \/ UNCHANGED fileVars
  BY <1>6, FileIdleKeeps DEF FileEnd
<1> QED
  BY <1>1, <1>2, <1>3, <1>4, <1>5, <1>6 DEF FileNext

\* However a file's blocks are merged, flushed and made sparse: every byte that
\* reaches the file is in its place, and the closed file lacks nothing but what
\* is_zero_block takes for zero (LongFileWrite::write, SparseWrite).
THEOREM FileSafe == FileInit /\ [][FileNext]_fileVars => []FileFaithful
<1>1. FileInit => FileInv
  BY FileStart
<1>2. FileInv /\ [FileNext]_fileVars => FileInv'
  BY FileStep
<1>3. FileInv => FileFaithful
  BY FileInvFaithful
<1> QED
  BY <1>1, <1>2, <1>3, PTL

-----------------------------------------------------------------------------
(* The search for LZMA parameters.                                          *)

(* A nonempty set of natural numbers has a least element. *)
LEMMA LeastOf ==
    ASSUME NEW S, S \subseteq Nat, S # {}
    PROVE  \E x \in S : \A y \in S : x <= y
<1>1. PICK x \in S : \A y \in S : ~(<<y, x>> \in OpToRel(<, Nat))
  BY WFMin, NatLessThanWellFounded, Zenon
<1>2. ASSUME NEW y \in S PROVE x <= y
  <2>1. ~(<<y, x>> \in Nat \X Nat /\ <<y, x>>[1] < <<y, x>>[2])
    BY <1>1 DEF OpToRel
  <2> QED BY <2>1
<1> QED BY <1>2

LEMMA MinRight ==
    ASSUME NEW S, S \subseteq Nat, S # {}
    PROVE  /\ Min(S) \in S
           /\ \A y \in S : Min(S) <= y
<1>1. PICK x \in S : \A y \in S : x <= y
  BY LeastOf, Zenon
<1> QED BY <1>1 DEF Min

(* The largest of 0 .. n is n. *)
LEMMA MaxUpTo ==
    ASSUME NEW n \in Nat
    PROVE  Max(0 .. n) = n
<1>1. n \in 0 .. n /\ \A y \in 0 .. n : n >= y
  OBVIOUS
<1>2. Max(0 .. n) \in 0 .. n /\ \A y \in 0 .. n : Max(0 .. n) >= y
  BY <1>1 DEF Max
<1> QED BY <1>1, <1>2

(* A curve that never falls from a to b is nowhere lower than at a. *)
LEMMA Ascending ==
    ASSUME NEW s, NEW a \in Nat, NEW b \in Nat, \A c \in a .. b : s[c] \in Nat,
           \A c \in a .. b : c > a => s[c - 1] <= s[c]
    PROVE  \A c \in a .. b : \A d \in a .. c : s[d] <= s[c]
<1> DEFINE Bad == {c \in a .. b : \E d \in a .. c : ~(s[d] <= s[c])}
<1>1. SUFFICES ASSUME Bad # {} PROVE FALSE
  BY <1>1
<1>2. Bad \subseteq Nat
  OBVIOUS
<1>3. PICK c \in Bad : \A e \in Bad : c <= e
  BY <1>1, <1>2, LeastOf, Zenon
<1>4. PICK d \in a .. c : ~(s[d] <= s[c])
  BY <1>3
<1>5. c \in a .. b /\ d < c
  BY <1>3, <1>4
<1>6. c - 1 \in a .. b /\ d \in a .. c - 1 /\ c - 1 \notin Bad
  BY <1>3, <1>5
<1>7. s[d] <= s[c - 1] /\ s[c - 1] <= s[c]
  BY <1>5, <1>6
<1>8. s[d] \in Nat /\ s[c - 1] \in Nat /\ s[c] \in Nat
  BY <1>5, <1>6
<1> QED BY <1>4, <1>7, <1>8

(* A curve that never rises from a to b is nowhere lower than at b. *)
LEMMA Descending ==
    ASSUME NEW s, NEW a \in Nat, NEW b \in Nat, \A c \in a .. b : s[c] \in Nat,
           \A c \in a .. b : c > a => s[c - 1] >= s[c]
    PROVE  \A c \in a .. b : \A d \in a .. c : s[d] >= s[c]
<1> DEFINE Bad == {c \in a .. b : \E d \in a .. c : ~(s[d] >= s[c])}
<1>1. SUFFICES ASSUME Bad # {} PROVE FALSE
  BY <1>1
<1>2. Bad \subseteq Nat
  OBVIOUS
<1>3. PICK c \in Bad : \A e \in Bad : c <= e
  BY <1>1, <1>2, LeastOf, Zenon
<1>4. PICK d \in a .. c : ~(s[d] >= s[c])
  BY <1>3
<1>5. c \in a .. b /\ d < c
  BY <1>3, <1>4
<1>6. c - 1 \in a .. b /\ d \in a .. c - 1 /\ c - 1 \notin Bad
  BY <1>3, <1>5
<1>7. s[d] >= s[c - 1] /\ s[c - 1] >= s[c]
  BY <1>5, <1>6
<1>8. s[d] \in Nat /\ s[c - 1] \in Nat /\ s[c] \in Nat
  BY <1>5, <1>6
<1> QED BY <1>4, <1>7, <1>8

(* The last value of an axis, and how a finder tells that it need not go on:  *)
(* one side rises and the other end was tried.                               *)
Limit(a) == Limits[Axes[a]]

FinderTypes(f, a) ==
    f \in [results : [0 .. Limit(a) -> Nat], state : [0 .. Limit(a) -> {"unknown", "pending", "done"}],
           swap : BOOLEAN]

RisesFromLeft(f, a) ==
    \E i \in 1 .. Limit(a) : /\ \A j \in 0 .. i : f.state[j] = "done"
                             /\ f.results[i] > f.results[i - 1]
                             /\ f.state[Limit(a)] # "unknown"

RisesFromRight(f, a) ==
    \E i \in 1 .. Limit(a) : /\ \A j \in i - 1 .. Limit(a) : f.state[j] = "done"
                             /\ f.results[i - 1] > f.results[i]
                             /\ f.state[0] # "unknown"

Satisfied(f, a) == Unknowns(f) = {} \/ RisesFromLeft(f, a) \/ RisesFromRight(f, a)

LEMMA LimitTypes == \A a \in 1 .. 3 : /\ Axes[a] \in {"pb", "lp", "lc"}
                                      /\ Limit(a) \in Nat
<1>1. \A a \in 1 .. 3 : Axes[a] \in {"pb", "lp", "lc"}
  BY DEF Axes
<1> QED BY <1>1, LzmaAssumption DEF Limit

LEMMA TeamHasMaster == \E n \in Nat \ {0} : LzmaThreads = 1 .. n
<1> DEFINE n == Cardinality(LzmaThreads)
<1>1. n \in Nat /\ LzmaThreads = 1 .. n /\ LzmaThreads # {}
  BY FS_CardinalityType, LzmaAssumption
<1> HIDE DEF n
<1> QED BY <1>1

(* Where a scan from a side ends: all before is done, and does not rise.     *)
LEMMA ScanRight ==
    ASSUME NEW a \in 1 .. 3, NEW f, FinderTypes(f, a), Unknowns(f) # {}, NEW left \in BOOLEAN
    PROVE  \E stop \in 0 .. Limit(a) :
              /\ \A i \in 0 .. Limit(a) : i < stop => f.state[From(f, left, i)] = "done"
              /\ f.state[From(f, left, stop)] # "done" \/ Rises(f, left, stop)
              /\ Scan(f, left).next = IF f.state[From(f, left, stop)] = "done" THEN -1 ELSE From(f, left, stop)
              /\ Scan(f, left).doable <=> (f.state[From(f, left, stop)] = "unknown")
              /\ Scan(f, left).rises <=> (f.state[From(f, left, stop)] = "done")
<1>1. Limit(a) \in Nat /\ DOMAIN f.state = 0 .. Limit(a)
  BY LimitTypes DEF FinderTypes
<1>2. LastOf(f) = Limit(a)
  BY <1>1, MaxUpTo DEF LastOf
<1> DEFINE S == {i \in DOMAIN f.state : f.state[From(f, left, i)] # "done" \/ Rises(f, left, i)}
<1>3. S # {}
  <2>1. PICK c \in 0 .. Limit(a) : f.state[c] = "unknown"
    BY <1>1 DEF Unknowns
  <2>2. From(f, left, c) = c \/ From(f, left, Limit(a) - c) = c
    BY <1>1, <1>2 DEF From
  <2>3. c \in 0 .. Limit(a) /\ Limit(a) - c \in 0 .. Limit(a)
    BY <1>1
  <2> QED BY <1>1, <2>1, <2>2, <2>3
<1>4. S \subseteq Nat
  BY <1>1
<1>5. Min(S) \in S /\ \A y \in S : Min(S) <= y
  BY <1>3, <1>4, MinRight
<1> DEFINE stop == Min(S)
<1>6. stop \in 0 .. Limit(a)
  BY <1>1, <1>5
<1>7. ASSUME NEW i \in 0 .. Limit(a), i < stop PROVE f.state[From(f, left, i)] = "done"
  <2>1. i \notin S
    <3> HIDE DEF S
    <3> QED BY <1>1, <1>4, <1>5, <1>6, <1>7
  <2> QED BY <1>1, <2>1
<1>8. f.state[From(f, left, stop)] # "done" \/ Rises(f, left, stop)
  BY <1>5
<1>9. /\ Scan(f, left).next = IF f.state[From(f, left, stop)] = "done" THEN -1 ELSE From(f, left, stop)
      /\ Scan(f, left).doable <=> (f.state[From(f, left, stop)] = "unknown")
      /\ Scan(f, left).rises <=> (f.state[From(f, left, stop)] = "done")
  BY DEF Scan
<1> HIDE DEF stop
<1> QED BY <1>6, <1>7, <1>8, <1>9

(* When the finder ends the search of an axis, it is satisfied.              *)
LEMMA EndSatisfied ==
    ASSUME NEW a \in 1 .. 3, NEW f, FinderTypes(f, a), Instruction(f) = "End"
    PROVE  Satisfied(f, a)
<1>1. Limit(a) \in Nat /\ DOMAIN f.state = 0 .. Limit(a)
  BY LimitTypes DEF FinderTypes
<1>2. LastOf(f) = Limit(a)
  BY <1>1, MaxUpTo DEF LastOf
<1>3. SUFFICES ASSUME Unknowns(f) # {} PROVE RisesFromLeft(f, a) \/ RisesFromRight(f, a)
  BY <1>3 DEF Satisfied
<1>4. Ends(f, Scan(f, TRUE), Scan(f, FALSE))
  BY <1>3 DEF Instruction
<1>5. CASE Scan(f, TRUE).rises /\ f.state[LastOf(f)] # "unknown"
  <2>1. PICK stop \in 0 .. Limit(a) :
              /\ \A i \in 0 .. Limit(a) : i < stop => f.state[From(f, TRUE, i)] = "done"
              /\ f.state[From(f, TRUE, stop)] # "done" \/ Rises(f, TRUE, stop)
              /\ Scan(f, TRUE).rises <=> (f.state[From(f, TRUE, stop)] = "done")
    BY <1>3, ScanRight
  <2>2. f.state[From(f, TRUE, stop)] = "done" /\ Rises(f, TRUE, stop)
    BY <1>5, <2>1
  <2>3. stop > 0 /\ f.results[stop] > f.results[stop - 1]
    BY <2>2 DEF Rises, From
  <2>4. \A j \in 0 .. stop : f.state[j] = "done"
    BY <2>1, <2>2, <1>1 DEF From
  <2> QED BY <1>1, <1>2, <1>5, <2>3, <2>4 DEF RisesFromLeft
<1>6. CASE Scan(f, FALSE).rises /\ f.state[0] # "unknown"
  <2>1. PICK stop \in 0 .. Limit(a) :
              /\ \A i \in 0 .. Limit(a) : i < stop => f.state[From(f, FALSE, i)] = "done"
              /\ f.state[From(f, FALSE, stop)] # "done" \/ Rises(f, FALSE, stop)
              /\ Scan(f, FALSE).rises <=> (f.state[From(f, FALSE, stop)] = "done")
    BY <1>3, ScanRight
  <2>2. f.state[From(f, FALSE, stop)] = "done" /\ Rises(f, FALSE, stop)
    BY <1>6, <2>1
  <2> DEFINE i == Limit(a) - stop + 1
  <2>3. stop > 0 /\ f.results[Limit(a) - stop] > f.results[Limit(a) - (stop - 1)]
    BY <2>2, <1>2 DEF Rises, From
  <2>4. i \in 1 .. Limit(a) /\ i - 1 = Limit(a) - stop /\ i = Limit(a) - (stop - 1)
    BY <1>1, <2>3
  <2>5. ASSUME NEW j \in i - 1 .. Limit(a) PROVE f.state[j] = "done"
    <3>1. Limit(a) - j \in 0 .. stop /\ Limit(a) - j \in 0 .. Limit(a) /\ From(f, FALSE, Limit(a) - j) = j
      <4> HIDE DEF i
      <4>1. Limit(a) - j \in 0 .. stop /\ Limit(a) - j \in 0 .. Limit(a) /\ Limit(a) - (Limit(a) - j) = j
        BY <1>1, <2>3, <2>4
      <4> QED BY <1>2, <4>1 DEF From
    <3>2. CASE Limit(a) - j = stop
      BY <3>1, <3>2, <2>2
    <3>3. CASE Limit(a) - j < stop
      BY <3>1, <3>3, <2>1
    <3> QED BY <3>1, <3>2, <3>3
  <2>6. f.results[i - 1] > f.results[i]
    BY <2>3, <2>4
  <2> HIDE DEF i
  <2> QED BY <1>1, <1>6, <2>4, <2>5, <2>6 DEF RisesFromRight
<1> QED BY <1>4, <1>5, <1>6 DEF Ends

(* What the finder hands out was not done yet; and when it lets a thread     *)
(* wait, some value is pending.                                              *)
LEMMA AttemptRight ==
    ASSUME NEW a \in 1 .. 3, NEW f, FinderTypes(f, a), Instruction(f) # "End"
    PROVE  IF Instruction(f) = "HereYouGo" THEN Attempt(f) \in 0 .. Limit(a) /\ f.state[Attempt(f)] # "done"
           ELSE \E c \in 0 .. Limit(a) : f.state[c] = "pending"
<1>1. Limit(a) \in Nat /\ DOMAIN f.state = 0 .. Limit(a)
  BY LimitTypes DEF FinderTypes
<1>2. LastOf(f) = Limit(a)
  BY <1>1, MaxUpTo DEF LastOf
<1>3. Unknowns(f) # {} /\ ~Ends(f, Scan(f, TRUE), Scan(f, FALSE))
  BY DEF Instruction
<1>4. \A left \in BOOLEAN : \A i \in 0 .. Limit(a) : From(f, left, i) \in 0 .. Limit(a)
  BY <1>1, <1>2 DEF From
<1> DEFINE l == Scan(f, TRUE)
           r == Scan(f, FALSE)
<1>5. /\ l.next # -1 => l.next \in 0 .. Limit(a) /\ f.state[l.next] # "done"
      /\ r.next # -1 => r.next \in 0 .. Limit(a) /\ f.state[r.next] # "done"
  <2>1. ASSUME NEW left \in BOOLEAN, Scan(f, left).next # -1
        PROVE  Scan(f, left).next \in 0 .. Limit(a) /\ f.state[Scan(f, left).next] # "done"
    BY <1>3, <1>4, <2>1, ScanRight
  <2> QED BY <2>1
<1>6. /\ l.doable => l.next # -1
      /\ r.doable => r.next # -1
  <2>1. ASSUME NEW left \in BOOLEAN, Scan(f, left).doable PROVE Scan(f, left).next # -1
    <3>1. PICK stop \in 0 .. Limit(a) :
              /\ Scan(f, left).next = IF f.state[From(f, left, stop)] = "done" THEN -1 ELSE From(f, left, stop)
              /\ Scan(f, left).doable <=> (f.state[From(f, left, stop)] = "unknown")
      BY <1>3, ScanRight
    <3> QED BY <2>1, <3>1, <1>4
  <2> QED BY <2>1
<1>7. CASE Instruction(f) = "HereYouGo"
  <2>1. Attempt(f) # -1
    BY <1>3, <1>7 DEF Instruction
  <2>2. Attempt(f) = Choice(f, l, r) \/ Attempt(f) = Choice(f, r, l)
    BY DEF Attempt
  <2> HIDE DEF l, r
  <2>3. ASSUME NEW one, NEW two, Choice(f, one, two) # -1, one.doable => one.next # -1, two.doable => two.next # -1,
               one.next = -1 \/ one.next \in 0 .. Limit(a), two.next = -1 \/ two.next \in 0 .. Limit(a)
        PROVE  \/ Choice(f, one, two) = one.next /\ one.next # -1
               \/ Choice(f, one, two) = two.next /\ two.next # -1
    BY <2>3, <1>1 DEF Choice
  <2>4. \/ Attempt(f) = l.next /\ l.next # -1
        \/ Attempt(f) = r.next /\ r.next # -1
    BY <1>5, <1>6, <2>1, <2>2, <2>3
  <2> QED BY <1>5, <1>7, <2>4
<1>8. CASE Instruction(f) # "HereYouGo"
  <2>1. Attempt(f) = -1
    BY <1>3, <1>8 DEF Instruction
  <2>2. ~l.doable /\ ~r.doable
    BY <1>5, <1>6, <2>1, <1>1 DEF Attempt, Choice
  <2>3. PICK i \in 0 .. Limit(a) :
              /\ \A k \in 0 .. Limit(a) : k < i => f.state[From(f, TRUE, k)] = "done"
              /\ f.state[From(f, TRUE, i)] # "done" \/ Rises(f, TRUE, i)
              /\ l.doable <=> (f.state[From(f, TRUE, i)] = "unknown")
              /\ l.rises <=> (f.state[From(f, TRUE, i)] = "done")
    BY <1>3, ScanRight
  <2>4. PICK j \in 0 .. Limit(a) :
              /\ \A k \in 0 .. Limit(a) : k < j => f.state[From(f, FALSE, k)] = "done"
              /\ f.state[From(f, FALSE, j)] # "done" \/ Rises(f, FALSE, j)
              /\ r.doable <=> (f.state[From(f, FALSE, j)] = "unknown")
              /\ r.rises <=> (f.state[From(f, FALSE, j)] = "done")
    BY <1>3, ScanRight
  <2> HIDE DEF l, r
  <2>5. From(f, TRUE, i) \in 0 .. Limit(a) /\ From(f, FALSE, j) \in 0 .. Limit(a)
    BY <1>4
  <2>6. f.state \in [0 .. Limit(a) -> {"unknown", "pending", "done"}]
    BY DEF FinderTypes
  <2>7. CASE f.state[From(f, TRUE, i)] = "pending" \/ f.state[From(f, FALSE, j)] = "pending"
    BY <1>8, <2>5, <2>7
  <2>8. CASE l.rises /\ r.rises
    <3>1. f.state[Limit(a)] = "unknown"
      BY <1>2, <1>3, <2>8 DEF Ends, l, r
    <3>2. j > 0
      BY <2>4, <2>8 DEF Rises
    <3>3. f.state[From(f, FALSE, 0)] = "done" /\ From(f, FALSE, 0) = Limit(a)
      BY <1>1, <1>2, <2>4, <3>2 DEF From
    <3> QED BY <3>1, <3>3
  <2> QED BY <2>2, <2>3, <2>4, <2>5, <2>6, <2>7, <2>8
<1> QED BY <1>7, <1>8

(* The automatic search.                                                     *)

\* What a value of an axis comes to with the bits of the other axes.
Sized(a, c) == LZMACompress([bits EXCEPT ![a] = c])

ParametersRight == bits \in [1 .. 3 -> Nat] /\ \A a \in 1 .. 3 : bits[a] <= Limit(a)

WorkerRight(t) ==
    /\ worker[t] = [pc |-> worker[t].pc, attempt |-> worker[t].attempt, result |-> worker[t].result]
    /\ worker[t].pc \in {"ask", "got", "update", "barrier"}
    /\ worker[t].pc \in {"got", "update"} =>
          worker[t].attempt \in 0 .. Limit(axis) /\ worker[t].result = Sized(axis, worker[t].attempt)

\* A result that the finder has is that of its value, and the best result so far
\* is as good unless a thread is still to compare them.
DoneRight(c) ==
    finder.state[c] = "done" =>
       /\ finder.results[c] = Sized(axis, c).size
       /\ \/ best.size # -1 /\ best.size <= finder.results[c]
          \/ \E t \in LzmaThreads : worker[t].pc = "update" /\ worker[t].attempt = c

PendingHeld(c) ==
    finder.state[c] = "pending" => \E t \in LzmaThreads : worker[t].pc = "got" /\ worker[t].attempt = c

SomeoneDone == \E t \in LzmaThreads : worker[t].pc = "barrier"

AxisInv ==
    /\ FinderTypes(finder, axis)
    /\ \A t \in LzmaThreads : WorkerRight(t)
    /\ \A c \in 0 .. Limit(axis) : DoneRight(c) /\ PendingHeld(c)
    /\ SomeoneDone => Satisfied(finder, axis)

AutoInv ==
    /\ call \in LzmaCalls
    /\ call.level = 1 =>
          /\ axis \in 1 .. 4 /\ ParametersRight /\ DOMAIN worker = LzmaThreads
          /\ best.size = -1 \/ best = LZMACompress(bits)
          /\ axis # 4 => AxisInv

LEMMA CompressRight ==
    ASSUME call \in LzmaCalls, NEW m \in [1 .. 3 -> Nat], \A a \in 1 .. 3 : m[a] <= Limit(a)
    PROVE  LZMACompress(m).size \in Nat
<1>1. m[1] \in 0 .. Limits["pb"] /\ m[2] \in 0 .. Limits["lp"] /\ m[3] \in 0 .. Limits["lc"]
  BY LimitTypes DEF Limit, Axes
<1>2. call.sizes["pb"][m[1]] \in Nat /\ call.sizes["lp"][m[2]] \in Nat /\ call.sizes["lc"][m[3]] \in Nat
  BY <1>1, LzmaAssumption
<1> QED BY <1>2 DEF LZMACompress

LEMMA SizedRight ==
    ASSUME call \in LzmaCalls, ParametersRight, NEW a \in 1 .. 3, NEW c \in 0 .. Limit(a)
    PROVE  Sized(a, c).size \in Nat
<1>1. Limit(a) \in Nat
  BY LimitTypes
<1>2. [bits EXCEPT ![a] = c] \in [1 .. 3 -> Nat] /\ \A b \in 1 .. 3 : [bits EXCEPT ![a] = c][b] <= Limit(b)
  BY <1>1 DEF ParametersRight
<1> QED BY <1>2, CompressRight DEF Sized

(* Two values of an axis differ by what the axis adds. *)
LEMMA SizedCompared ==
    ASSUME call \in LzmaCalls, ParametersRight, NEW a \in 1 .. 3, NEW c \in 0 .. Limit(a), NEW d \in 0 .. Limit(a)
    PROVE  Sized(a, c).size <= Sized(a, d).size <=> call.sizes[Axes[a]][c] <= call.sizes[Axes[a]][d]
<1>1. bits[1] \in 0 .. Limits["pb"] /\ bits[2] \in 0 .. Limits["lp"] /\ bits[3] \in 0 .. Limits["lc"]
  BY LimitTypes DEF Limit, Axes, ParametersRight
<1>2. call.sizes["pb"][bits[1]] \in Nat /\ call.sizes["lp"][bits[2]] \in Nat /\ call.sizes["lc"][bits[3]] \in Nat
  BY <1>1, LzmaAssumption
<1>3. call.sizes[Axes[a]][c] \in Nat /\ call.sizes[Axes[a]][d] \in Nat
  BY LimitTypes, LzmaAssumption DEF Limit
<1>4. bits \in [1 .. 3 -> Nat]
  BY DEF ParametersRight
<1>5. CASE a = 1
  BY <1>2, <1>3, <1>4, <1>5 DEF Sized, LZMACompress, Axes
<1>6. CASE a = 2
  BY <1>2, <1>3, <1>4, <1>6 DEF Sized, LZMACompress, Axes
<1>7. CASE a = 3
  BY <1>2, <1>3, <1>4, <1>7 DEF Sized, LZMACompress, Axes
<1> QED BY <1>5, <1>6, <1>7

LEMMA AutoStart == LzmaInit => AutoInv
<1> SUFFICES ASSUME LzmaInit, call.level = 1 PROVE AutoInv
  BY DEF LzmaInit, AutoInv
<1>1. call \in LzmaCalls /\ axis = 1 /\ bits = <<0, 0, 0>> /\ finder = NewFinder("pb", <<>>) /\ best.size = -1
  BY DEF LzmaInit
<1>2. Limit(1) = Limits["pb"] /\ \A a \in 1 .. 3 : Limit(a) \in Nat
  BY LimitTypes DEF Limit, Axes
<1>3. bits \in [1 .. 3 -> Nat] /\ \A a \in 1 .. 3 : bits[a] = 0
  BY <1>1
<1>4. finder = [results |-> [c \in 0 .. Limit(1) |-> 0], state |-> [c \in 0 .. Limit(1) |-> "unknown"], swap |-> FALSE]
  <2>1. DOMAIN <<>> = {}
    OBVIOUS
  <2> QED BY <1>1, <1>2, <2>1 DEF NewFinder
<1>5. \A t \in LzmaThreads : worker[t] = [pc |-> "ask", attempt |-> 0, result |-> 0]
  BY DEF LzmaInit, Waiting
<1>6. AxisInv
  <2>1. FinderTypes(finder, axis)
    <3> DEFINE z == [c \in 0 .. Limit(1) |-> 0]
               u == [c \in 0 .. Limit(1) |-> "unknown"]
    <3>1. z \in [0 .. Limit(1) -> Nat] /\ u \in [0 .. Limit(1) -> {"unknown", "pending", "done"}]
      OBVIOUS
    <3>2. finder = [results |-> z, state |-> u, swap |-> FALSE]
      BY <1>4
    <3> HIDE DEF z, u
    <3>3. finder \in [results : [0 .. Limit(1) -> Nat], state : [0 .. Limit(1) -> {"unknown", "pending", "done"}],
                      swap : BOOLEAN]
      BY <3>1, <3>2
    <3> QED BY <1>1, <3>3 DEF FinderTypes
  <2>2. \A t \in LzmaThreads : WorkerRight(t) /\ worker[t].pc # "barrier"
    BY <1>5 DEF WorkerRight
  <2>3. \A c \in 0 .. Limit(axis) : finder.state[c] = "unknown"
    <3>1. finder.state = [c \in 0 .. Limit(1) |-> "unknown"]
      BY <1>4
    <3> QED BY <1>1, <3>1
  <2> QED BY <2>1, <2>2, <2>3 DEF AxisInv, DoneRight, PendingHeld, SomeoneDone
<1>7. DOMAIN worker = LzmaThreads
  BY DEF LzmaInit
<1> QED BY <1>1, <1>2, <1>3, <1>6, <1>7 DEF AutoInv, ParametersRight

(* What the finder was satisfied with stays so.                              *)
LEMMA SatisfiedStays ==
    ASSUME NEW a \in 1 .. 3, NEW f, NEW g, FinderTypes(f, a), FinderTypes(g, a), Satisfied(f, a),
           \A c \in 0 .. Limit(a) : /\ f.state[c] = "done" => g.state[c] = "done" /\ g.results[c] = f.results[c]
                                    /\ f.state[c] # "unknown" => g.state[c] # "unknown"
    PROVE  Satisfied(g, a)
<1>1. Limit(a) \in Nat /\ DOMAIN f.state = 0 .. Limit(a) /\ DOMAIN g.state = 0 .. Limit(a)
  BY LimitTypes DEF FinderTypes
<1>2. CASE Unknowns(f) = {}
  BY <1>1, <1>2 DEF Unknowns, Satisfied
<1>3. CASE RisesFromLeft(f, a)
  <2>1. PICK i \in 1 .. Limit(a) : /\ \A j \in 0 .. i : f.state[j] = "done"
                                   /\ f.results[i] > f.results[i - 1]
                                   /\ f.state[Limit(a)] # "unknown"
    BY <1>3 DEF RisesFromLeft
  <2>2. i \in 0 .. i /\ i - 1 \in 0 .. i /\ \A j \in 0 .. i : j \in 0 .. Limit(a)
    BY <1>1
  <2>3. g.results[i] = f.results[i] /\ g.results[i - 1] = f.results[i - 1]
    BY <2>1, <2>2
  <2>4. Limit(a) \in 0 .. Limit(a)
    BY <1>1
  <2> QED BY <2>1, <2>2, <2>3, <2>4 DEF RisesFromLeft, Satisfied
<1>4. CASE RisesFromRight(f, a)
  <2>1. PICK i \in 1 .. Limit(a) : /\ \A j \in i - 1 .. Limit(a) : f.state[j] = "done"
                                   /\ f.results[i - 1] > f.results[i]
                                   /\ f.state[0] # "unknown"
    BY <1>4 DEF RisesFromRight
  <2>2. i \in i - 1 .. Limit(a) /\ i - 1 \in i - 1 .. Limit(a) /\ \A j \in i - 1 .. Limit(a) : j \in 0 .. Limit(a)
    BY <1>1
  <2>3. g.results[i] = f.results[i] /\ g.results[i - 1] = f.results[i - 1]
    BY <2>1, <2>2
  <2>4. 0 \in 0 .. Limit(a)
    BY <1>1
  <2> QED BY <2>1, <2>2, <2>3, <2>4 DEF RisesFromRight, Satisfied
<1> QED BY <1>2, <1>3, <1>4 DEF Satisfied

LEMMA AutoFacts ==
    ASSUME AutoInv, AutoSearch
    PROVE  /\ call \in LzmaCalls /\ call.level = 1 /\ axis \in 1 .. 3 /\ AxisInv /\ ParametersRight
           /\ DOMAIN worker = LzmaThreads
           /\ best.size = -1 \/ best = LZMACompress(bits)
<1>1. call.level = 1 /\ axis \in 1 .. 3 /\ axis # 4
  BY DEF AutoSearch
<1> QED BY <1>1 DEF AutoInv

LEMMA AskEndKeeps == ASSUME AutoInv, NEW t \in LzmaThreads, AskEnd(t) PROVE AutoInv'
<1>1. /\ call \in LzmaCalls /\ call.level = 1 /\ axis \in 1 .. 3 /\ AxisInv /\ DOMAIN worker = LzmaThreads
      /\ worker[t].pc = "ask" /\ Instruction(finder) = "End"
      /\ UNCHANGED <<call, axis, bits, best, modes>>
  BY AutoFacts DEF AskEnd
<1>2. FinderTypes(finder, axis) /\ Satisfied(finder, axis)
  BY <1>1, EndSatisfied DEF AxisInv
<1>3. finder'.state = finder.state /\ finder'.results = finder.results /\ FinderTypes(finder', axis)
  BY <1>2 DEF AskEnd, FinderTypes
<1>4. Satisfied(finder', axis)
  BY <1>1, <1>2, <1>3, SatisfiedStays
<1>5. /\ DOMAIN worker' = LzmaThreads
      /\ worker'[t] = [worker[t] EXCEPT !.pc = "barrier"]
      /\ \A u \in LzmaThreads \ {t} : worker'[u] = worker[u]
  BY <1>1 DEF AskEnd
<1>6. ASSUME NEW u \in LzmaThreads PROVE WorkerRight(u)'
  <2>1. WorkerRight(u)
    BY <1>1 DEF AxisInv
  <2>2. CASE u = t
    BY <1>5, <2>1, <2>2 DEF WorkerRight
  <2>3. CASE u # t
    BY <1>1, <1>5, <2>1, <2>3 DEF WorkerRight, Sized, LZMACompress
  <2> QED BY <2>2, <2>3
<1>7. \A u \in LzmaThreads : worker[u].pc \in {"got", "update"} => worker'[u] = worker[u]
  BY <1>1, <1>5
<1>8. ASSUME NEW c \in 0 .. Limit(axis) PROVE DoneRight(c)' /\ PendingHeld(c)'
  <2>1. DoneRight(c) /\ PendingHeld(c)
    BY <1>1 DEF AxisInv
  <2>2. Sized(axis, c)' = Sized(axis, c)
    BY <1>1 DEF Sized, LZMACompress
  <2> QED BY <1>1, <1>3, <1>7, <2>1, <2>2 DEF DoneRight, PendingHeld
<1>9. AxisInv'
  BY <1>1, <1>3, <1>4, <1>6, <1>8 DEF AxisInv
<1> QED BY <1>1, <1>5, <1>9 DEF AutoInv, ParametersRight, LZMACompress

LEMMA AskWaitKeeps == ASSUME AutoInv, NEW t \in LzmaThreads, AskWait(t) PROVE AutoInv'
<1>1. /\ call \in LzmaCalls /\ call.level = 1 /\ axis \in 1 .. 3 /\ AxisInv /\ DOMAIN worker = LzmaThreads
      /\ UNCHANGED <<call, axis, bits, best, modes, worker>>
  BY AutoFacts DEF AskWait
<1>2. finder'.state = finder.state /\ finder'.results = finder.results /\ FinderTypes(finder', axis)
  BY <1>1 DEF AskWait, FinderTypes, AxisInv
<1>3. SomeoneDone' => Satisfied(finder', axis)
  BY <1>1, <1>2, SatisfiedStays DEF AxisInv, SomeoneDone
<1>4. ASSUME NEW u \in LzmaThreads PROVE WorkerRight(u)'
  BY <1>1 DEF AxisInv, WorkerRight, Sized, LZMACompress
<1>5. ASSUME NEW c \in 0 .. Limit(axis) PROVE DoneRight(c)' /\ PendingHeld(c)'
  <2>1. DoneRight(c) /\ PendingHeld(c)
    BY <1>1 DEF AxisInv
  <2>2. Sized(axis, c)' = Sized(axis, c)
    BY <1>1 DEF Sized, LZMACompress
  <2> QED BY <1>1, <1>2, <2>1, <2>2 DEF DoneRight, PendingHeld
<1>6. AxisInv'
  BY <1>1, <1>2, <1>3, <1>4, <1>5 DEF AxisInv
<1> QED BY <1>1, <1>6 DEF AutoInv, ParametersRight, LZMACompress

LEMMA AskAttemptKeeps == ASSUME AutoInv, NEW t \in LzmaThreads, AskAttempt(t) PROVE AutoInv'
<1>1. /\ call \in LzmaCalls /\ call.level = 1 /\ axis \in 1 .. 3 /\ AxisInv /\ DOMAIN worker = LzmaThreads
      /\ worker[t].pc = "ask" /\ Instruction(finder) = "HereYouGo" /\ ParametersRight
      /\ UNCHANGED <<call, axis, bits, best, modes>>
  BY AutoFacts DEF AskAttempt
<1> DEFINE c == Attempt(finder)
<1>2. c \in 0 .. Limit(axis) /\ finder.state[c] # "done" /\ FinderTypes(finder, axis)
  BY <1>1, AttemptRight DEF AxisInv
<1>3. /\ finder' = [finder EXCEPT !.swap = ~@, !.state[c] = "pending"]
      /\ worker' = [worker EXCEPT ![t] = [pc |-> "got", attempt |-> c, result |-> Sized(axis, c)]]
  BY <1>1 DEF AskAttempt, Sized
<1> HIDE DEF c
<1>4. /\ finder'.results = finder.results /\ finder'.state = [finder.state EXCEPT ![c] = "pending"]
      /\ FinderTypes(finder', axis)
  BY <1>2, <1>3 DEF FinderTypes
<1>5. /\ finder'.state[c] = "pending"
      /\ \A d \in 0 .. Limit(axis) : d # c => finder'.state[d] = finder.state[d]
  BY <1>2, <1>4 DEF FinderTypes
<1>6. /\ DOMAIN worker' = LzmaThreads
      /\ worker'[t] = [pc |-> "got", attempt |-> c, result |-> Sized(axis, c)]
      /\ \A u \in LzmaThreads \ {t} : worker'[u] = worker[u]
  BY <1>1, <1>3
<1>7. \A d \in 0 .. Limit(axis) : Sized(axis, d)' = Sized(axis, d)
  BY <1>1 DEF Sized, LZMACompress
<1>8. ASSUME NEW u \in LzmaThreads PROVE WorkerRight(u)'
  <2>1. WorkerRight(u)
    BY <1>1 DEF AxisInv
  <2>2. CASE u = t
    BY <1>1, <1>2, <1>6, <1>7, <2>2 DEF WorkerRight, Sized, LZMACompress
  <2>3. CASE u # t
    BY <1>1, <1>6, <2>1, <2>3 DEF WorkerRight, Sized, LZMACompress
  <2> QED BY <2>2, <2>3
<1>9. \A u \in LzmaThreads : worker[u].pc \in {"got", "update"} => worker'[u] = worker[u]
  BY <1>1, <1>6
<1>10. ASSUME NEW d \in 0 .. Limit(axis) PROVE DoneRight(d)' /\ PendingHeld(d)'
  <2>1. DoneRight(d) /\ PendingHeld(d)
    BY <1>1 DEF AxisInv
  <2>2. Sized(axis, d)' = Sized(axis, d)
    BY <1>1 DEF Sized, LZMACompress
  <2>3. CASE d = c
    BY <1>5, <1>6, <2>3 DEF DoneRight, PendingHeld
  <2>4. CASE d # c
    <3>1. finder'.state[d] = finder.state[d]
      BY <1>5, <2>4
    <3> QED BY <1>1, <1>4, <1>9, <2>1, <2>2, <3>1 DEF DoneRight, PendingHeld
  <2> QED BY <2>3, <2>4
<1>11. SomeoneDone' => Satisfied(finder', axis)
  <2>1. SUFFICES ASSUME SomeoneDone' PROVE Satisfied(finder', axis)
    OBVIOUS
  <2>2. SomeoneDone
    BY <1>6, <2>1 DEF SomeoneDone
  <2>3. Satisfied(finder, axis)
    BY <1>1, <2>2 DEF AxisInv
  <2> QED BY <1>1, <1>2, <1>4, <1>5, <2>3, SatisfiedStays
<1>12. AxisInv'
  BY <1>1, <1>4, <1>8, <1>10, <1>11 DEF AxisInv
<1> QED BY <1>1, <1>6, <1>12 DEF AutoInv, ParametersRight, LZMACompress

LEMMA TellFinderKeeps == ASSUME AutoInv, NEW t \in LzmaThreads, TellFinder(t) PROVE AutoInv'
<1>1. /\ call \in LzmaCalls /\ call.level = 1 /\ axis \in 1 .. 3 /\ AxisInv /\ DOMAIN worker = LzmaThreads
      /\ worker[t].pc = "got" /\ ParametersRight
      /\ UNCHANGED <<call, axis, bits, best, modes>>
  BY AutoFacts DEF TellFinder
<1> DEFINE c == worker[t].attempt
<1>2. /\ c \in 0 .. Limit(axis) /\ worker[t].result = Sized(axis, c)
      /\ worker[t] = [pc |-> worker[t].pc, attempt |-> c, result |-> worker[t].result]
  BY <1>1 DEF AxisInv, WorkerRight
<1>3. /\ finder' = [finder EXCEPT !.results[c] = Sized(axis, c).size, !.state[c] = "done"]
      /\ worker' = [worker EXCEPT ![t].pc = "update"]
  BY <1>2 DEF TellFinder, GotResult
<1>4. Sized(axis, c).size \in Nat
  BY <1>1, <1>2, SizedRight
<1> HIDE DEF c
<1>5. /\ finder'.results = [finder.results EXCEPT ![c] = Sized(axis, c).size]
      /\ finder'.state = [finder.state EXCEPT ![c] = "done"]
      /\ FinderTypes(finder', axis) /\ FinderTypes(finder, axis)
  BY <1>1, <1>2, <1>3, <1>4 DEF FinderTypes, AxisInv
<1>6. /\ finder'.state[c] = "done" /\ finder'.results[c] = Sized(axis, c).size
      /\ \A d \in 0 .. Limit(axis) : d # c => finder'.state[d] = finder.state[d] /\ finder'.results[d] = finder.results[d]
  BY <1>2, <1>5 DEF FinderTypes
<1>7. /\ DOMAIN worker' = LzmaThreads
      /\ worker'[t] = [worker[t] EXCEPT !.pc = "update"]
      /\ \A u \in LzmaThreads \ {t} : worker'[u] = worker[u]
  BY <1>1, <1>3
<1>8. worker'[t] = [pc |-> "update", attempt |-> c, result |-> Sized(axis, c)]
  BY <1>2, <1>7
<1>9. \A d \in 0 .. Limit(axis) : Sized(axis, d)' = Sized(axis, d)
  BY <1>1 DEF Sized, LZMACompress
<1>10. ASSUME NEW u \in LzmaThreads PROVE WorkerRight(u)'
  <2>1. WorkerRight(u)
    BY <1>1 DEF AxisInv
  <2>2. CASE u = t
    BY <1>1, <1>2, <1>8, <2>2 DEF WorkerRight, Sized, LZMACompress
  <2>3. CASE u # t
    BY <1>1, <1>7, <2>1, <2>3 DEF WorkerRight, Sized, LZMACompress
  <2> QED BY <2>2, <2>3
<1>11. ASSUME NEW d \in 0 .. Limit(axis) PROVE DoneRight(d)' /\ PendingHeld(d)'
  <2>1. DoneRight(d) /\ PendingHeld(d)
    BY <1>1 DEF AxisInv
  <2>2. Sized(axis, d)' = Sized(axis, d)
    BY <1>1 DEF Sized, LZMACompress
  <2>3. CASE d = c
    BY <1>6, <1>8, <2>2, <2>3 DEF DoneRight, PendingHeld
  <2>4. CASE d # c
    <3>1. finder'.state[d] = finder.state[d] /\ finder'.results[d] = finder.results[d]
      BY <1>6, <2>4
    <3>2. \A u \in LzmaThreads : (worker[u].pc \in {"got", "update"} /\ worker[u].attempt = d) => worker'[u] = worker[u]
      BY <1>7, <2>4 DEF c
    <3> QED BY <1>1, <2>1, <2>2, <3>1, <3>2 DEF DoneRight, PendingHeld
  <2> QED BY <2>3, <2>4
<1>12. SomeoneDone' => Satisfied(finder', axis)
  <2>1. SUFFICES ASSUME SomeoneDone' PROVE Satisfied(finder', axis)
    OBVIOUS
  <2>2. SomeoneDone
    BY <1>7, <1>8, <2>1 DEF SomeoneDone
  <2>3. Satisfied(finder, axis)
    BY <1>1, <2>2 DEF AxisInv
  <2>4. finder.state[c] = "done" => finder.results[c] = Sized(axis, c).size
    BY <1>1, <1>2 DEF AxisInv, DoneRight
  <2> QED BY <1>1, <1>5, <1>6, <2>3, <2>4, SatisfiedStays
<1>13. AxisInv'
  BY <1>1, <1>5, <1>10, <1>11, <1>12 DEF AxisInv
<1> QED BY <1>1, <1>7, <1>13 DEF AutoInv, ParametersRight, LZMACompress, AutoSearch

LEMMA UpdateStatsKeeps == ASSUME AutoInv, NEW t \in LzmaThreads, UpdateStats(t) PROVE AutoInv'
<1>1. /\ call \in LzmaCalls /\ call.level = 1 /\ axis \in 1 .. 3 /\ AxisInv /\ DOMAIN worker = LzmaThreads
      /\ worker[t].pc = "update" /\ ParametersRight /\ (best.size = -1 \/ best = LZMACompress(bits))
      /\ UNCHANGED <<call, axis, finder, modes>>
      /\ worker' = [worker EXCEPT ![t] = Waiting]
  BY AutoFacts DEF UpdateStats
<1> DEFINE c == worker[t].attempt
           r == worker[t].result
<1>2. c \in 0 .. Limit(axis) /\ r = Sized(axis, c)
  BY <1>1 DEF AxisInv, WorkerRight
<1>3. r.size \in Nat
  BY <1>1, <1>2, SizedRight
<1>4. best.size = -1 \/ best.size \in Nat
  BY <1>1, CompressRight DEF ParametersRight
<1>5. \/ (best.size = -1 \/ r.size <= best.size) /\ best' = r /\ bits' = [bits EXCEPT ![axis] = c]
      \/ ~(best.size = -1 \/ r.size <= best.size) /\ best' = best /\ bits' = bits
  BY DEF UpdateStats
<1>6. FinderTypes(finder, axis)
  BY <1>1 DEF AxisInv
<1> HIDE DEF c, r
<1>7. \A d \in 0 .. Limit(axis) : Sized(axis, d)' = Sized(axis, d)
  <2>1. ASSUME NEW d \in 0 .. Limit(axis) PROVE [bits' EXCEPT ![axis] = d] = [bits EXCEPT ![axis] = d]
    BY <1>1, <1>5 DEF ParametersRight
  <2> QED BY <1>1, <2>1 DEF Sized, LZMACompress
<1>8. ParametersRight'
  <2>1. Limit(axis) \in Nat
    BY <1>1, LimitTypes
  <2> QED BY <1>1, <1>2, <1>5, <2>1 DEF ParametersRight
<1>9. best'.size = -1 \/ best' = LZMACompress(bits)'
  BY <1>1, <1>2, <1>5 DEF Sized, LZMACompress
<1>10. /\ DOMAIN worker' = LzmaThreads
       /\ worker'[t] = [pc |-> "ask", attempt |-> 0, result |-> 0]
       /\ \A u \in LzmaThreads \ {t} : worker'[u] = worker[u]
  BY <1>1 DEF Waiting
<1>11. /\ best'.size # -1 /\ best'.size <= r.size
       /\ best.size # -1 => best'.size <= best.size
       /\ best'.size \in Nat
  BY <1>3, <1>4, <1>5
<1>12. ASSUME NEW u \in LzmaThreads PROVE WorkerRight(u)'
  <2>1. WorkerRight(u)
    BY <1>1 DEF AxisInv
  <2>2. CASE u = t
    BY <1>10, <2>2 DEF WorkerRight
  <2>3. CASE u # t
    <3>1. worker'[u] = worker[u] /\ axis' = axis
      BY <1>1, <1>10, <2>3
    <3>2. worker[u].pc \in {"got", "update"} =>
            worker[u].attempt \in 0 .. Limit(axis) /\ worker[u].result = Sized(axis, worker[u].attempt)
      BY <2>1 DEF WorkerRight
    <3> QED
      <4>1. \A a \in 0 .. Limit(axis) : LZMACompress([bits EXCEPT ![axis] = a])' = LZMACompress([bits EXCEPT ![axis] = a])
        BY <1>7 DEF Sized
      <4>2. worker[u].pc \in {"got", "update"} => worker'[u].result = LZMACompress([bits EXCEPT ![axis] = worker[u].attempt])'
        BY <3>1, <3>2, <4>1 DEF Sized
      <4> QED BY <2>1, <3>1, <3>2, <4>2 DEF WorkerRight, Sized, LZMACompress
  <2> QED BY <2>2, <2>3
<1>13. ASSUME NEW d \in 0 .. Limit(axis) PROVE DoneRight(d)' /\ PendingHeld(d)'
  <2>1. DoneRight(d) /\ PendingHeld(d)
    BY <1>1 DEF AxisInv
  <2>2. Sized(axis, d)' = Sized(axis, d)
    BY <1>7
  <2>3. PendingHeld(d)'
    BY <1>1, <1>10, <2>1 DEF PendingHeld
  <2>4. ASSUME finder.state[d] = "done"
        PROVE  \/ best'.size # -1 /\ best'.size <= finder.results[d]
               \/ \E u \in LzmaThreads : worker'[u].pc = "update" /\ worker'[u].attempt = d
    <3>1. finder.results[d] \in Nat /\ finder.results[d] = Sized(axis, d).size
      BY <1>6, <2>1, <2>4 DEF FinderTypes, DoneRight
    <3>2. CASE best.size # -1 /\ best.size <= finder.results[d]
      BY <1>4, <1>11, <3>1, <3>2
    <3>3. CASE \E u \in LzmaThreads : worker[u].pc = "update" /\ worker[u].attempt = d
      <4>1. PICK u \in LzmaThreads : worker[u].pc = "update" /\ worker[u].attempt = d
        BY <3>3
      <4>2. CASE u = t
        BY <1>2, <1>3, <1>11, <3>1, <4>1, <4>2 DEF c
      <4>3. CASE u # t
        BY <1>10, <4>1, <4>3
      <4> QED BY <4>2, <4>3
    <3> QED BY <2>1, <2>4, <3>2, <3>3 DEF DoneRight
  <2> QED BY <1>1, <2>1, <2>2, <2>3, <2>4 DEF DoneRight
<1>14. SomeoneDone' => Satisfied(finder', axis)
  <2>1. SomeoneDone' => SomeoneDone
    BY <1>10 DEF SomeoneDone
  <2> QED BY <1>1, <2>1 DEF AxisInv
<1>15. AxisInv'
  BY <1>1, <1>6, <1>12, <1>13, <1>14 DEF AxisInv
<1> QED BY <1>1, <1>8, <1>9, <1>10, <1>15 DEF AutoInv

(* At the barrier everything that was tried was compared.                    *)
LEMMA Arrived ==
    ASSUME AutoInv, AutoSearch, AllArrived
    PROVE  /\ best.size # -1 /\ best = LZMACompress(bits)
           /\ Satisfied(finder, axis)
           /\ \A c \in 0 .. Limit(axis) :
                 /\ finder.state[c] \in {"unknown", "done"}
                 /\ finder.state[c] = "done" => /\ finder.results[c] = Sized(axis, c).size
                                                /\ best.size <= finder.results[c]
<1>1. /\ axis \in 1 .. 3 /\ AxisInv /\ (best.size = -1 \/ best = LZMACompress(bits))
      /\ \A t \in LzmaThreads : worker[t].pc = "barrier"
  BY AutoFacts DEF AllArrived
<1>2. FinderTypes(finder, axis) /\ Limit(axis) \in Nat
  BY <1>1, LimitTypes DEF AxisInv
<1>3. \A c \in 0 .. Limit(axis) : /\ finder.state[c] \in {"unknown", "done"}
                                  /\ finder.state[c] = "done" => /\ finder.results[c] = Sized(axis, c).size
                                                                 /\ best.size # -1 /\ best.size <= finder.results[c]
  <2>1. SUFFICES ASSUME NEW c \in 0 .. Limit(axis)
                 PROVE  /\ finder.state[c] \in {"unknown", "done"}
                        /\ finder.state[c] = "done" => /\ finder.results[c] = Sized(axis, c).size
                                                       /\ best.size # -1 /\ best.size <= finder.results[c]
    OBVIOUS
  <2>2. DoneRight(c) /\ PendingHeld(c)
    BY <1>1 DEF AxisInv
  <2>3. finder.state[c] \in {"unknown", "pending", "done"}
    BY <1>2 DEF FinderTypes
  <2> QED BY <1>1, <2>2, <2>3 DEF DoneRight, PendingHeld
<1>4. Satisfied(finder, axis)
  <2>1. \E t \in LzmaThreads : TRUE
    <3>1. PICK n \in Nat \ {0} : LzmaThreads = 1 .. n
      BY TeamHasMaster
    <3> QED BY <3>1
  <2> QED BY <1>1, <2>1 DEF AxisInv, SomeoneDone
<1>5. \E c \in 0 .. Limit(axis) : finder.state[c] # "unknown"
  <2>1. CASE Unknowns(finder) = {}
    <3>1. 0 \in DOMAIN finder.state /\ 0 \in 0 .. Limit(axis)
      BY <1>2 DEF FinderTypes
    <3> QED BY <2>1, <3>1 DEF Unknowns
  <2>2. CASE RisesFromLeft(finder, axis)
    BY <1>2, <2>2 DEF RisesFromLeft
  <2>3. CASE RisesFromRight(finder, axis)
    BY <1>2, <2>3 DEF RisesFromRight
  <2> QED BY <1>4, <2>1, <2>2, <2>3 DEF Satisfied
<1>6. best.size # -1
  BY <1>3, <1>5
<1> QED BY <1>1, <1>3, <1>4, <1>6

LEMMA NextAxisKeeps == ASSUME AutoInv, NextAxis PROVE AutoInv'
<1>1. /\ call \in LzmaCalls /\ call.level = 1 /\ axis \in 1 .. 3 /\ DOMAIN worker = LzmaThreads /\ ParametersRight
      /\ AutoSearch /\ AllArrived /\ axis' = axis + 1 /\ UNCHANGED <<call, bits, best, modes>>
  BY AutoFacts DEF NextAxis
<1>2. best.size # -1 /\ best = LZMACompress(bits)
  BY <1>1, Arrived
<1>3. ParametersRight' /\ best' = LZMACompress(bits)' /\ axis' \in 1 .. 4
  BY <1>1, <1>2 DEF ParametersRight, LZMACompress
<1>4. CASE axis = 3
  <2>1. axis' = 4 /\ worker' = worker
    BY <1>1, <1>4 DEF NextAxis
  <2> QED BY <1>1, <1>3, <2>1 DEF AutoInv
<1>5. CASE axis # 3
  <2>1. axis + 1 \in 2 .. 3 /\ axis' \in 1 .. 3
    BY <1>1, <1>5
  <2>0. PICK b : b = bits[axis + 1]
    OBVIOUS
  <2> DEFINE old == [c \in {b} |-> best.size]
             n == Limit(axis + 1)
  <2>2. finder' = NewFinder(Axes[axis + 1], old)
    BY <1>5, <2>0 DEF NextAxis
  <2>3. /\ DOMAIN worker' = LzmaThreads
        /\ \A t \in LzmaThreads : worker'[t] = [pc |-> "ask", attempt |-> 0, result |-> 0]
    BY <1>1, <1>5 DEF NextAxis, AllArrived, Waiting
  <2>4. b \in 0 .. n /\ n \in Nat /\ best.size \in Nat
    <3>1. best.size \in Nat
      BY <1>1, <1>2, CompressRight DEF ParametersRight
    <3> QED BY <1>1, <2>0, <2>1, <3>1, LimitTypes DEF ParametersRight
  <2>5. DOMAIN old = {b} /\ old[b] = best.size
    OBVIOUS
  <2> DEFINE res == [c \in 0 .. n |-> IF c \in DOMAIN old THEN old[c] ELSE 0]
             sta == [c \in 0 .. n |-> IF c \in DOMAIN old THEN "done" ELSE "unknown"]
  <2>6. finder' = [results |-> res, state |-> sta, swap |-> FALSE]
    BY <2>2 DEF NewFinder, Limit
  <2> HIDE DEF old
  <2>7. res \in [0 .. n -> Nat] /\ sta \in [0 .. n -> {"unknown", "pending", "done"}]
    BY <2>4, <2>5
  <2>8. res[b] = best.size /\ \A c \in 0 .. n : sta[c] = IF c = b THEN "done" ELSE "unknown"
    BY <2>4, <2>5
  <2> HIDE DEF res, sta
  <2>9. FinderTypes(finder', axis')
    <3>1. finder' \in [results : [0 .. n -> Nat], state : [0 .. n -> {"unknown", "pending", "done"}], swap : BOOLEAN]
      BY <2>6, <2>7
    <3> QED BY <1>1, <3>1 DEF FinderTypes
  <2>10. Sized(axis, b)' = best
    <3>1. [bits' EXCEPT ![axis'] = b] = bits
      BY <1>1, <2>0, <2>1 DEF ParametersRight
    <3> QED BY <1>1, <1>2, <3>1 DEF Sized, LZMACompress
  <2>11. ASSUME NEW c \in 0 .. n PROVE DoneRight(c)' /\ PendingHeld(c)'
    <3>1. finder'.state[c] = (IF c = b THEN "done" ELSE "unknown") /\ finder'.results[b] = best.size
      BY <2>6, <2>8
    <3>2. CASE c = b
      BY <1>1, <1>2, <2>4, <2>10, <3>1, <3>2 DEF DoneRight, PendingHeld
    <3>3. CASE c # b
      BY <3>1, <3>3 DEF DoneRight, PendingHeld
    <3> QED BY <3>2, <3>3
  <2>12. \A t \in LzmaThreads : WorkerRight(t)' /\ worker'[t].pc # "barrier"
    BY <2>3 DEF WorkerRight
  <2>13. AxisInv'
    BY <1>1, <2>9, <2>11, <2>12 DEF AxisInv, SomeoneDone
  <2> QED BY <1>1, <1>3, <2>3, <2>13 DEF AutoInv
<1> QED BY <1>4, <1>5

(* A parabolic curve whose finder is satisfied: nothing is lower than the    *)
(* lowest of what was tried.                                                 *)
LEMMA ParabolaTried ==
    ASSUME NEW n \in Nat, NEW s \in [0 .. n -> Nat], Parabolic(s), NEW tried, tried \subseteq 0 .. n,
           NEW x \in Nat, \A c \in tried : x <= s[c],
           \/ tried = 0 .. n
           \/ \E i \in 1 .. n : 0 .. i \subseteq tried /\ s[i] > s[i - 1] /\ n \in tried
           \/ \E i \in 1 .. n : i - 1 .. n \subseteq tried /\ s[i - 1] > s[i] /\ 0 \in tried
    PROVE  \A c \in 0 .. n : x <= s[c]
<1>1. \A c \in 0 .. n : s[c] \in Nat
  OBVIOUS
<1>2. ASSUME NEW top \in 0 .. n, NEW i \in 1 .. n,
             \A c \in 0 .. n : c > 0 => IF c <= top THEN s[c - 1] >= s[c] ELSE s[c - 1] <= s[c],
             0 .. i \subseteq tried /\ s[i] > s[i - 1]
      PROVE  \A c \in 0 .. n : x <= s[c]
  <2>1. i > top
    BY <1>1, <1>2
  <2>2. \A c \in i - 1 .. n : \A d \in i - 1 .. c : s[d] <= s[c]
    <3>1. \A c \in i - 1 .. n : s[c] \in Nat
      BY <1>1, <1>2, <2>1
    <3>2. \A c \in i - 1 .. n : c > i - 1 => s[c - 1] <= s[c]
      BY <1>1, <1>2, <2>1
    <3>3. i - 1 \in Nat /\ n \in Nat
      OBVIOUS
    <3> QED BY <3>1, <3>2, <3>3, Ascending
  <2>3. ASSUME NEW c \in 0 .. n PROVE x <= s[c]
    <3>1. CASE c <= i
      BY <1>2, <3>1
    <3>2. CASE c > i
      <4>1. s[i - 1] <= s[c] /\ i - 1 \in tried /\ i - 1 \in 0 .. n
        BY <1>2, <2>2, <3>2
      <4> QED BY <1>1, <4>1
    <3> QED BY <3>1, <3>2
  <2> QED BY <2>3
<1>3. ASSUME NEW top \in 0 .. n, NEW i \in 1 .. n,
             \A c \in 0 .. n : c > 0 => IF c <= top THEN s[c - 1] >= s[c] ELSE s[c - 1] <= s[c],
             i - 1 .. n \subseteq tried /\ s[i - 1] > s[i]
      PROVE  \A c \in 0 .. n : x <= s[c]
  <2>1. i <= top
    BY <1>1, <1>3
  <2>2. \A c \in 0 .. i : \A d \in 0 .. c : s[d] >= s[c]
    <3>1. \A c \in 0 .. i : s[c] \in Nat
      BY <1>1, <1>3, <2>1
    <3>2. \A c \in 0 .. i : c > 0 => s[c - 1] >= s[c]
      BY <1>1, <1>3, <2>1
    <3>3. 0 \in Nat /\ i \in Nat
      OBVIOUS
    <3> QED BY <3>1, <3>2, <3>3, Descending
  <2>3. ASSUME NEW c \in 0 .. n PROVE x <= s[c]
    <3>1. CASE c >= i
      BY <1>3, <3>1
    <3>2. CASE c < i
      <4>1. s[c] >= s[i] /\ i \in tried /\ i \in 0 .. n
        BY <1>3, <2>2, <3>2
      <4> QED BY <1>1, <4>1
    <3> QED BY <3>1, <3>2
  <2> QED BY <2>3
<1>4. ASSUME NEW top \in 0 .. n, NEW i \in 1 .. n,
             \A c \in 0 .. n : c > 0 => IF c <= top THEN s[c - 1] <= s[c] ELSE s[c - 1] >= s[c],
             0 .. i \subseteq tried /\ s[i] > s[i - 1] /\ n \in tried
      PROVE  \A c \in 0 .. n : x <= s[c]
  <2>1. i <= top
    BY <1>1, <1>4
  <2>2. \A c \in 0 .. top : \A d \in 0 .. c : s[d] <= s[c]
    <3>1. \A c \in 0 .. top : s[c] \in Nat
      BY <1>1, <1>4
    <3>2. \A c \in 0 .. top : c > 0 => s[c - 1] <= s[c]
      BY <1>1, <1>4
    <3>3. 0 \in Nat /\ top \in Nat
      OBVIOUS
    <3> QED BY <3>1, <3>2, <3>3, Ascending
  <2>3. \A c \in top .. n : \A d \in top .. c : s[d] >= s[c]
    <3>1. \A c \in top .. n : s[c] \in Nat
      BY <1>1, <1>4
    <3>2. \A c \in top .. n : c > top => s[c - 1] >= s[c]
      BY <1>1, <1>4
    <3>3. top \in Nat /\ n \in Nat
      OBVIOUS
    <3> QED BY <3>1, <3>2, <3>3, Descending
  <2>4. ASSUME NEW c \in 0 .. n PROVE x <= s[c]
    <3>1. CASE c <= top
      <4>1. s[0] <= s[c] /\ 0 \in tried
        BY <1>4, <2>2, <3>1
      <4> QED BY <1>1, <4>1
    <3>2. CASE c > top
      <4>1. s[c] >= s[n] /\ n \in tried
        BY <1>4, <2>3, <3>2
      <4> QED BY <1>1, <4>1
    <3> QED BY <3>1, <3>2
  <2> QED BY <2>4
<1>5. ASSUME NEW top \in 0 .. n, NEW i \in 1 .. n,
             \A c \in 0 .. n : c > 0 => IF c <= top THEN s[c - 1] <= s[c] ELSE s[c - 1] >= s[c],
             i - 1 .. n \subseteq tried /\ s[i - 1] > s[i] /\ 0 \in tried
      PROVE  \A c \in 0 .. n : x <= s[c]
  <2>1. i > top
    BY <1>1, <1>5
  <2>2. \A c \in 0 .. top : \A d \in 0 .. c : s[d] <= s[c]
    <3>1. \A c \in 0 .. top : s[c] \in Nat
      BY <1>1, <1>5
    <3>2. \A c \in 0 .. top : c > 0 => s[c - 1] <= s[c]
      BY <1>1, <1>5
    <3>3. 0 \in Nat /\ top \in Nat
      OBVIOUS
    <3> QED BY <3>1, <3>2, <3>3, Ascending
  <2>3. \A c \in top .. n : \A d \in top .. c : s[d] >= s[c]
    <3>1. \A c \in top .. n : s[c] \in Nat
      BY <1>1, <1>5
    <3>2. \A c \in top .. n : c > top => s[c - 1] >= s[c]
      BY <1>1, <1>5
    <3>3. top \in Nat /\ n \in Nat
      OBVIOUS
    <3> QED BY <3>1, <3>2, <3>3, Descending
  <2>4. ASSUME NEW c \in 0 .. n PROVE x <= s[c]
    <3>1. CASE c <= top
      <4>1. s[0] <= s[c] /\ 0 \in tried
        BY <1>5, <2>2, <3>1
      <4> QED BY <1>1, <4>1
    <3>2. CASE c > top
      <4>1. s[c] >= s[n] /\ n \in tried
        <5>1. n \in i - 1 .. n
          OBVIOUS
        <5> QED BY <1>5, <2>3, <3>2, <5>1
      <4> QED BY <1>1, <4>1
    <3> QED BY <3>1, <3>2
  <2> QED BY <2>4
<1>6. DOMAIN s = 0 .. n
  OBVIOUS
<1>7. CASE tried = 0 .. n
  BY <1>7
<1>8. PICK top \in 0 .. n :
         \/ \A c \in 0 .. n : c > 0 => IF c <= top THEN s[c - 1] >= s[c] ELSE s[c - 1] <= s[c]
         \/ \A c \in 0 .. n : c > 0 => IF c <= top THEN s[c - 1] <= s[c] ELSE s[c - 1] >= s[c]
  BY <1>6 DEF Parabolic
<1>9. CASE \E i \in 1 .. n : 0 .. i \subseteq tried /\ s[i] > s[i - 1] /\ n \in tried
  BY <1>2, <1>4, <1>8, <1>9
<1>10. CASE \E i \in 1 .. n : i - 1 .. n \subseteq tried /\ s[i - 1] > s[i] /\ 0 \in tried
  BY <1>3, <1>5, <1>8, <1>10
<1> QED BY <1>7, <1>9, <1>10

LEMMA AutoInvLowest == AutoInv => LowestFound
<1> SUFFICES ASSUME AutoInv, AutoSearch, AllArrived, Parabolic(call.sizes[Axes[axis]])
             PROVE  call.sizes[Axes[axis]][bits[axis]]
                    = Min({call.sizes[Axes[axis]][c] : c \in DOMAIN call.sizes[Axes[axis]]})
  BY DEF LowestFound
<1>1. call \in LzmaCalls /\ axis \in 1 .. 3 /\ AxisInv /\ ParametersRight
  BY AutoFacts
<1>2. PICK n : n = Limit(axis)
  OBVIOUS
<1>3. PICK s : s = call.sizes[Axes[axis]]
  OBVIOUS
<1>4. n \in Nat /\ s \in [0 .. n -> Nat] /\ DOMAIN s = 0 .. n
  BY <1>1, <1>2, <1>3, LimitTypes, LzmaAssumption DEF Limit
<1>5. bits[axis] \in 0 .. n
  BY <1>1, <1>2 DEF ParametersRight
<1>6. best = Sized(axis, bits[axis])
  <2>1. [bits EXCEPT ![axis] = bits[axis]] = bits
    BY <1>1 DEF ParametersRight
  <2> QED BY <2>1, Arrived DEF Sized
<1>7. /\ Satisfied(finder, axis)
      /\ \A c \in 0 .. n : /\ finder.state[c] \in {"unknown", "done"}
                           /\ finder.state[c] = "done" => /\ finder.results[c] = Sized(axis, c).size
                                                          /\ best.size <= finder.results[c]
  BY <1>2, Arrived
<1>8. \A c, d \in 0 .. n : Sized(axis, c).size <= Sized(axis, d).size <=> s[c] <= s[d]
  BY <1>1, <1>2, <1>3, SizedCompared
<1>9. \A c \in 0 .. n : Sized(axis, c).size \in Nat
  BY <1>1, <1>2, SizedRight
<1> DEFINE tried == {c \in 0 .. n : finder.state[c] = "done"}
<1>10. \A c \in tried : s[bits[axis]] <= s[c]
  BY <1>5, <1>6, <1>7, <1>8
<1>11. \/ tried = 0 .. n
       \/ \E i \in 1 .. n : 0 .. i \subseteq tried /\ s[i] > s[i - 1] /\ n \in tried
       \/ \E i \in 1 .. n : i - 1 .. n \subseteq tried /\ s[i - 1] > s[i] /\ 0 \in tried
  <2>0. \A c, d \in 0 .. n : s[c] \in Nat /\ (finder.state[c] = "done" /\ finder.state[d] = "done"
                                /\ finder.results[c] > finder.results[d] => s[c] > s[d])
    <3>1. ASSUME NEW c \in 0 .. n, NEW d \in 0 .. n, finder.state[c] = "done", finder.state[d] = "done",
                 finder.results[c] > finder.results[d]
          PROVE  s[c] > s[d]
      <4>1. Sized(axis, c).size > Sized(axis, d).size
        BY <1>7, <3>1
      <4>2. ~(Sized(axis, c).size <= Sized(axis, d).size)
        BY <1>9, <4>1
      <4>3. ~(s[c] <= s[d])
        BY <1>8, <4>2
      <4> QED BY <1>4, <4>3
    <3> QED BY <1>4, <3>1
  <2>1. CASE Unknowns(finder) = {}
    <3>1. DOMAIN finder.state = 0 .. n
      BY <1>1, <1>2 DEF AxisInv, FinderTypes
    <3> QED BY <1>7, <2>1, <3>1 DEF Unknowns
  <2>2. CASE RisesFromLeft(finder, axis)
    <3>1. PICK i \in 1 .. n : /\ \A j \in 0 .. i : finder.state[j] = "done"
                              /\ finder.results[i] > finder.results[i - 1]
                              /\ finder.state[n] # "unknown"
      BY <1>2, <2>2 DEF RisesFromLeft
    <3>2. 0 .. i \subseteq tried /\ n \in tried /\ i \in tried /\ i - 1 \in tried
      BY <1>4, <1>7, <3>1
    <3> QED BY <2>0, <3>1, <3>2
  <2>3. CASE RisesFromRight(finder, axis)
    <3>1. PICK i \in 1 .. n : /\ \A j \in i - 1 .. n : finder.state[j] = "done"
                              /\ finder.results[i - 1] > finder.results[i]
                              /\ finder.state[0] # "unknown"
      BY <1>2, <2>3 DEF RisesFromRight
    <3>2. i - 1 .. n \subseteq tried /\ 0 \in tried /\ i \in tried /\ i - 1 \in tried
      BY <1>4, <1>7, <3>1
    <3> QED BY <2>0, <3>1, <3>2
  <2> QED BY <1>7, <2>1, <2>2, <2>3 DEF Satisfied
<1> HIDE DEF tried
<1>12. tried \subseteq 0 .. n /\ s[bits[axis]] \in Nat /\ Parabolic(s)
  BY <1>3, <1>4, <1>5 DEF tried
<1>13. \A c \in 0 .. n : s[bits[axis]] <= s[c]
  BY <1>4, <1>10, <1>11, <1>12, ParabolaTried
<1> DEFINE values == {s[c] : c \in 0 .. n}
<1>14. values \subseteq Nat /\ s[bits[axis]] \in values
  BY <1>4, <1>5
<1>15. Min(values) \in values /\ \A y \in values : Min(values) <= y
  BY <1>14, MinRight
<1>16. Min(values) = s[bits[axis]]
  <2>1. PICK c \in 0 .. n : Min(values) = s[c]
    BY <1>15
  <2>2. s[bits[axis]] <= Min(values) /\ Min(values) <= s[bits[axis]] /\ Min(values) \in Nat
    BY <1>13, <1>14, <1>15, <2>1
  <2> HIDE DEF values
  <2> QED BY <1>12, <2>2
<1> QED BY <1>3, <1>4, <1>16

LEMMA AutoInvRest == AutoInv => BestIsOfItsBits /\ SomeoneHasResult
<1> SUFFICES ASSUME AutoInv PROVE BestIsOfItsBits /\ SomeoneHasResult
  OBVIOUS
<1>1. BestIsOfItsBits
  BY DEF AutoInv, BestIsOfItsBits
<1>2. ASSUME AutoSearch, Instruction(finder) = "WaitingResults" PROVE \E t \in LzmaThreads : worker[t].pc = "got"
  <2>1. axis \in 1 .. 3 /\ AxisInv
    BY <1>2, AutoFacts
  <2>2. PICK c \in 0 .. Limit(axis) : finder.state[c] = "pending"
    BY <1>2, <2>1, AttemptRight DEF AxisInv
  <2> QED BY <2>1, <2>2 DEF AxisInv, PendingHeld
<1> QED BY <1>1, <1>2 DEF SomeoneHasResult

(* The full search.                                                          *)

LEMMA Quotient ==
    ASSUME NEW n \in Nat, NEW d \in Nat \ {0}
    PROVE  n \div d \in Nat /\ n % d \in 0 .. d - 1 /\ n = d * (n \div d) + (n % d)
BY Z3

LEMMA ProductsOrdered ==
    ASSUME NEW p \in Nat, NEW a \in Nat, NEW b \in Nat, a <= b
    PROVE  p * a \in Nat /\ p * b \in Nat /\ p * a <= p * b
OBVIOUS

\* A parameter triple for each mode, within the limits.
LEMMA ModeRight ==
    ASSUME NEW n \in Modes
    PROVE  Mode(n) \in [1 .. 3 -> Nat] /\ \A a \in 1 .. 3 : Mode(n)[a] <= Limit(a)
<1>1. PICK v : v = [a \in 1 .. 3 |-> Values(a)]
  OBVIOUS
<1>2. /\ Values(1) = v[1] /\ Values(2) = v[2] /\ Values(3) = v[3]
      /\ \A a \in 1 .. 3 : v[a] \in Nat \ {0} /\ v[a] = Limit(a) + 1
  BY <1>1, LimitTypes DEF Values, Limit
<1>3. PICK p : p = v[1] * v[2]
  OBVIOUS
<1>4. p \in Nat \ {0}
  BY <1>2, <1>3
<1>5. n \in Nat /\ n < p * v[3]
  BY <1>2, <1>3, <1>4 DEF Modes
<1>6. n % v[1] \in 0 .. v[1] - 1 /\ n \div v[1] \in Nat
  <2>1. v[1] \in Nat \ {0}
    BY <1>2
  <2> QED BY <1>5, <2>1, Quotient, Zenon
<1>7. (n \div v[1]) % v[2] \in 0 .. v[2] - 1
  <2>1. v[2] \in Nat \ {0}
    BY <1>2
  <2> QED BY <1>6, <2>1, Quotient, Zenon
<1>8. n \div p \in Nat /\ n = p * (n \div p) + (n % p) /\ n % p \in 0 .. p - 1
  BY <1>4, <1>5, Quotient
<1>9. n \div p < v[3]
  <2>1. PICK q \in Nat : q = n \div p
    BY <1>8
  <2>2. SUFFICES ASSUME q >= v[3] PROVE FALSE
    BY <1>2, <2>1
  <2>3. p * v[3] <= p * q /\ p * v[3] \in Nat /\ p * q \in Nat
    BY <1>2, <1>4, <2>2, ProductsOrdered
  <2> QED BY <1>5, <1>8, <2>1, <2>3
<1>10. Mode(n) = <<n % v[1], (n \div v[1]) % v[2], n \div p>>
  BY <1>2, <1>3 DEF Mode
<1> HIDE DEF Mode
<1>11. Mode(n) \in [1 .. 3 -> Nat]
  BY <1>2, <1>6, <1>7, <1>8, <1>10
<1>12. Mode(n)[1] = n % v[1] /\ Mode(n)[2] = (n \div v[1]) % v[2] /\ Mode(n)[3] = n \div p
  BY <1>10
<1>13. Mode(n)[1] <= Limit(1) /\ Mode(n)[2] <= Limit(2) /\ Mode(n)[3] <= Limit(3)
  BY <1>2, <1>6, <1>7, <1>8, <1>9, <1>12, LimitTypes
<1> QED BY <1>11, <1>13

LEMMA ModesCounted ==
    /\ Cardinality(Modes) \in Nat \ {0}
    /\ Modes = 0 .. Cardinality(Modes) - 1
<1>1. PICK v : v = [a \in 1 .. 3 |-> Values(a)]
  OBVIOUS
<1>2. /\ Values(1) = v[1] /\ Values(2) = v[2] /\ Values(3) = v[3]
      /\ \A a \in 1 .. 3 : v[a] \in Nat \ {0}
  BY <1>1, LimitTypes DEF Values, Limit
<1>3. PICK k : k = v[1] * v[2] * v[3]
  OBVIOUS
<1>4. k \in Nat \ {0}
  <2>1. v[1] * v[2] \in Nat \ {0}
    BY <1>2
  <2> QED BY <1>2, <1>3, <2>1
<1>5. Modes = 0 .. k - 1
  BY <1>2, <1>3 DEF Modes
<1>6. Cardinality(0 .. k - 1) = k
  BY <1>4, FS_Interval
<1> QED BY <1>4, <1>5, <1>6

\* The shares of the threads have all modes, and nothing else.
LEMMA SharesRight ==
    /\ \A t \in LzmaThreads : Share(t) \subseteq Modes
    /\ \A m \in Modes : \E t \in LzmaThreads : m \in Share(t)
<1>1. PICK workers \in Nat \ {0} : LzmaThreads = 1 .. workers
  BY TeamHasMaster
<1>2. Cardinality(LzmaThreads) = workers
  BY <1>1, FS_Interval
<1>3. PICK k \in Nat \ {0} : k = Cardinality(Modes) /\ Modes = 0 .. k - 1
  BY ModesCounted
<1>4. PICK n \in Nat : n = k \div workers
  BY <1>1, <1>3, Quotient
<1>5. PICK r \in Nat : r = k % workers
  BY <1>1, <1>3, Quotient
<1>6. k = workers * n + r /\ r < workers
  <2>1. k = workers * (k \div workers) + (k % workers) /\ k % workers \in 0 .. workers - 1
    BY <1>1, <1>3, Quotient, Zenon
  <2>2. k = workers * n + r /\ r \in 0 .. workers - 1
    BY <1>4, <1>5, <2>1, Zenon
  <2> QED BY <1>1, <2>2
<1>7. ASSUME NEW a \in Nat PROVE Min({a, r}) = IF a < r THEN a ELSE r
  <2>1. Min({a, r}) \in {a, r} /\ \A y \in {a, r} : Min({a, r}) <= y
    BY MinRight
  <2> QED BY <2>1
<1> DEFINE First(i) == n * i + (IF i < r THEN i ELSE r)
<1>8. ASSUME NEW t \in 1 .. workers PROVE Share(t) = First(t - 1) .. First(t) - 1
  <2>1. t - 1 \in Nat /\ t \in Nat
    OBVIOUS
  <2>2. Share(t) = n * (t - 1) + Min({t - 1, r}) .. n * (t - 1) + Min({t - 1, r}) + n + (IF t <= r THEN 1 ELSE 0) - 1
    BY <1>2, <1>3, <1>4, <1>5 DEF Share
  <2>3. Min({t - 1, r}) = IF t - 1 < r THEN t - 1 ELSE r
    BY <1>7, <2>1
  <2>4. n * (t - 1) + n = n * t /\ n * (t - 1) \in Nat /\ n * t \in Nat
    BY <2>1
  <2>5. First(t - 1) = n * (t - 1) + Min({t - 1, r})
    BY <2>3
  <2>6. First(t) = First(t - 1) + n + (IF t <= r THEN 1 ELSE 0)
    BY <2>1, <2>4
  <2>7. First(t - 1) \in Nat
    BY <2>1, <2>4
  <2> HIDE DEF First
  <2>8. First(t - 1) + n + (IF t <= r THEN 1 ELSE 0) - 1 = First(t) - 1
    BY <2>6, <2>7
  <2> QED BY <2>2, <2>5, <2>8
<1>9. \A i \in Nat : First(i) \in Nat
  OBVIOUS
<1>10. First(0) = 0 /\ First(workers) = k
  <2>1. n * 0 = 0 /\ n * workers = workers * n
    BY <1>1
  <2> QED BY <1>6, <2>1
<1>11. \A i, j \in Nat : i <= j => First(i) <= First(j)
  <2>1. ASSUME NEW i \in Nat, NEW j \in Nat, i <= j PROVE First(i) <= First(j)
    <3>1. n * i <= n * j /\ n * i \in Nat /\ n * j \in Nat
      BY <2>1, ProductsOrdered
    <3> QED BY <2>1, <3>1
  <2> QED BY <2>1
<1> HIDE DEF First
<1>12. ASSUME NEW t \in LzmaThreads PROVE Share(t) \subseteq Modes
  <2>1. t \in 1 .. workers /\ t \in Nat /\ t - 1 \in Nat /\ workers \in Nat /\ t <= workers
    BY <1>1
  <2>2. First(t) <= k /\ First(t) \in Nat /\ First(t - 1) \in Nat
    BY <1>9, <1>10, <1>11, <2>1
  <2>3. Share(t) = First(t - 1) .. First(t) - 1
    BY <1>8, <2>1
  <2>4. \A x \in First(t - 1) .. First(t) - 1 : x \in 0 .. k - 1
    BY <1>3, <2>2
  <2> QED BY <1>3, <2>3, <2>4
<1>13. ASSUME NEW m \in Modes PROVE \E t \in LzmaThreads : m \in Share(t)
  <2> DEFINE S == {t \in 1 .. workers : m < First(t)}
  <2>1. m \in Nat /\ m < k
    <3>1. m \in 0 .. k - 1
      BY <1>3
    <3> QED BY <1>3, <3>1
  <2>2. workers \in S /\ S \subseteq Nat
    BY <1>1, <1>10, <2>1
  <2>3. PICK t \in S : \A u \in S : t <= u
    BY <2>2, LeastOf
  <2>4. First(t - 1) <= m
    <3>1. CASE t = 1
      BY <1>10, <2>1, <3>1
    <3>2. CASE t # 1
      <4>1. t - 1 \in 1 .. workers /\ t - 1 \notin S /\ t - 1 \in Nat
        BY <2>3, <3>2
      <4> QED BY <1>9, <2>1, <4>1
    <3> QED BY <3>1, <3>2
  <2>5. m \in First(t - 1) .. First(t) - 1
    <3>1. First(t) \in Nat /\ First(t - 1) \in Nat /\ m < First(t)
      BY <1>9, <2>3
    <3> QED BY <2>1, <2>4, <3>1
  <2> QED BY <1>1, <1>8, <2>3, <2>5
<1> QED BY <1>12, <1>13

\* Each mode is still to try, is being compared, or was compared with the best.
Accounted(m) ==
    \/ best.size # -1 /\ best.size <= LZMACompress(Mode(m)).size
    \/ \E t \in LzmaThreads : m \in modes[t]
    \/ \E t \in LzmaThreads : worker[t].pc = "update" /\ worker[t].result = LZMACompress(Mode(m))

HeavyInv ==
    /\ call \in LzmaCalls
    /\ call.level >= 2 =>
          /\ DOMAIN worker = LzmaThreads /\ DOMAIN modes = LzmaThreads
          /\ \A t \in LzmaThreads :
                /\ modes[t] \subseteq Modes
                /\ worker[t].pc = "update" => \E m \in Modes : worker[t].result = LZMACompress(Mode(m))
          /\ best.size = -1 \/ \E m \in Modes : best = LZMACompress(Mode(m))
          /\ \A m \in Modes : Accounted(m)

LEMMA HeavyStart == LzmaInit => HeavyInv
<1> SUFFICES ASSUME LzmaInit, call.level >= 2 PROVE HeavyInv
  BY DEF LzmaInit, HeavyInv
<1>1. call \in LzmaCalls /\ call.level \in Nat
  BY LzmaAssumption DEF LzmaInit
<1>2. modes = [t \in LzmaThreads |-> Share(t)]
  BY DEF LzmaInit
<1>3. \A t \in LzmaThreads : worker[t].pc = "ask"
  BY DEF LzmaInit, Waiting
<1>4. DOMAIN worker = LzmaThreads /\ best.size = -1
  BY DEF LzmaInit
<1>5. \A m \in Modes : Accounted(m)
  BY <1>2, SharesRight DEF Accounted
<1> QED BY <1>1, <1>2, <1>3, <1>4, <1>5, SharesRight DEF HeavyInv

LEMMA ModeSized == ASSUME call \in LzmaCalls, NEW m \in Modes PROVE LZMACompress(Mode(m)).size \in Nat
  BY ModeRight, CompressRight

LEMMA HeavyBeginKeeps ==
    ASSUME HeavyInv, call.level >= 2, NEW t \in LzmaThreads, HeavyBegin(t) PROVE HeavyInv'
<1>1. /\ call \in LzmaCalls /\ DOMAIN worker = LzmaThreads /\ DOMAIN modes = LzmaThreads
      /\ \A u \in LzmaThreads :
            /\ modes[u] \subseteq Modes
            /\ worker[u].pc = "update" => \E m \in Modes : worker[u].result = LZMACompress(Mode(m))
      /\ best.size = -1 \/ \E m \in Modes : best = LZMACompress(Mode(m))
      /\ \A m \in Modes : Accounted(m)
      /\ worker[t].pc = "ask" /\ modes[t] # {}
      /\ UNCHANGED <<call, axis, finder, bits, best>>
  BY DEF HeavyInv, HeavyBegin
<1>2. PICK k : k = Min(modes[t])
  OBVIOUS
<1>3. k \in modes[t] /\ k \in Modes
  <2>1. Modes \subseteq Nat
    BY ModesCounted
  <2> QED BY <1>1, <1>2, <2>1, MinRight
<1>4. /\ modes' = [modes EXCEPT ![t] = @ \ {k}]
      /\ worker' = [worker EXCEPT ![t] = [pc |-> "update", attempt |-> 0, result |-> LZMACompress(Mode(k))]]
  BY <1>2 DEF HeavyBegin
<1>5. /\ DOMAIN worker' = LzmaThreads /\ DOMAIN modes' = LzmaThreads
      /\ modes'[t] = modes[t] \ {k} /\ worker'[t].pc = "update" /\ worker'[t].result = LZMACompress(Mode(k))
      /\ \A u \in LzmaThreads \ {t} : modes'[u] = modes[u] /\ worker'[u] = worker[u]
  BY <1>1, <1>4
<1>6. \A m : LZMACompress(Mode(m))' = LZMACompress(Mode(m))
  BY <1>1 DEF LZMACompress
<1>7. ASSUME NEW m \in Modes PROVE Accounted(m)'
  <2>1. Accounted(m)
    BY <1>1
  <2>2. CASE m = k
    BY <1>5, <1>6, <2>2 DEF Accounted
  <2>3. CASE m # k /\ \E u \in LzmaThreads : m \in modes[u]
    BY <1>5, <2>3 DEF Accounted
  <2>4. CASE \E u \in LzmaThreads : worker[u].pc = "update" /\ worker[u].result = LZMACompress(Mode(m))
    <3>1. PICK u \in LzmaThreads : worker[u].pc = "update" /\ worker[u].result = LZMACompress(Mode(m))
      BY <2>4
    <3>2. worker'[u] = worker[u]
      BY <1>1, <1>5, <3>1
    <3> QED BY <1>6, <3>1, <3>2 DEF Accounted
  <2>5. CASE best.size # -1 /\ best.size <= LZMACompress(Mode(m)).size
    BY <1>1, <1>6, <2>5 DEF Accounted
  <2> QED BY <2>1, <2>2, <2>3, <2>4, <2>5 DEF Accounted
<1>8. ASSUME NEW u \in LzmaThreads
      PROVE  /\ modes'[u] \subseteq Modes
             /\ worker'[u].pc = "update" => \E m \in Modes : worker'[u].result = LZMACompress(Mode(m))'
  <2>1. CASE u = t
    BY <1>1, <1>3, <1>5, <1>6, <2>1
  <2>2. CASE u # t
    BY <1>1, <1>5, <1>6, <2>2
  <2> QED BY <2>1, <2>2
<1>9. best'.size = -1 \/ \E m \in Modes : best' = LZMACompress(Mode(m))'
  BY <1>1, <1>6
<1> QED BY <1>1, <1>5, <1>7, <1>8, <1>9 DEF HeavyInv

LEMMA HeavyUpdateKeeps ==
    ASSUME HeavyInv, call.level >= 2, NEW t \in LzmaThreads, HeavyUpdate(t) PROVE HeavyInv'
<1>1. /\ call \in LzmaCalls /\ DOMAIN worker = LzmaThreads /\ DOMAIN modes = LzmaThreads
      /\ \A u \in LzmaThreads :
            /\ modes[u] \subseteq Modes
            /\ worker[u].pc = "update" => \E m \in Modes : worker[u].result = LZMACompress(Mode(m))
      /\ best.size = -1 \/ \E m \in Modes : best = LZMACompress(Mode(m))
      /\ \A m \in Modes : Accounted(m)
      /\ worker[t].pc = "update"
      /\ worker' = [worker EXCEPT ![t] = Waiting]
      /\ UNCHANGED <<call, axis, finder, bits, modes>>
  BY DEF HeavyInv, HeavyUpdate
<1>2. PICK k \in Modes : worker[t].result = LZMACompress(Mode(k))
  BY <1>1
<1>3. best' = IF best.size = -1 \/ LZMACompress(Mode(k)).size < best.size THEN LZMACompress(Mode(k)) ELSE best
  BY <1>2 DEF HeavyUpdate, Better
<1>4. \A m \in Modes : LZMACompress(Mode(m)).size \in Nat
  BY <1>1, ModeSized
<1>5. best.size = -1 \/ best.size \in Nat
  BY <1>1, <1>4
<1>6. \A m : LZMACompress(Mode(m))' = LZMACompress(Mode(m))
  BY <1>1 DEF LZMACompress
<1>7. /\ best'.size \in Nat /\ best'.size <= LZMACompress(Mode(k)).size
      /\ best.size # -1 => best'.size <= best.size
      /\ \E m \in Modes : best' = LZMACompress(Mode(m))
  BY <1>1, <1>2, <1>3, <1>4, <1>5
<1>8. /\ DOMAIN worker' = LzmaThreads /\ worker'[t].pc = "ask"
      /\ \A u \in LzmaThreads \ {t} : worker'[u] = worker[u]
  BY <1>1 DEF Waiting
<1>9. ASSUME NEW m \in Modes PROVE Accounted(m)'
  <2>1. Accounted(m) /\ LZMACompress(Mode(m)).size \in Nat
    BY <1>1, <1>4
  <2>2. CASE best.size # -1 /\ best.size <= LZMACompress(Mode(m)).size
    <3>1. best'.size # -1 /\ best'.size <= LZMACompress(Mode(m)).size
      BY <1>5, <1>7, <2>1, <2>2
    <3> QED BY <1>6, <3>1 DEF Accounted
  <2>3. CASE \E u \in LzmaThreads : m \in modes[u]
    BY <1>1, <2>3 DEF Accounted
  <2>4. CASE \E u \in LzmaThreads : worker[u].pc = "update" /\ worker[u].result = LZMACompress(Mode(m))
    <3>1. PICK u \in LzmaThreads : worker[u].pc = "update" /\ worker[u].result = LZMACompress(Mode(m))
      BY <2>4
    <3>2. CASE u = t
      <4>1. best'.size # -1 /\ best'.size <= LZMACompress(Mode(m)).size
        BY <1>2, <1>7, <3>1, <3>2
      <4> QED BY <1>6, <4>1 DEF Accounted
    <3>3. CASE u # t
      BY <1>6, <1>8, <3>1, <3>3 DEF Accounted
    <3> QED BY <3>2, <3>3
  <2> QED BY <2>1, <2>2, <2>3, <2>4 DEF Accounted
<1>10. ASSUME NEW u \in LzmaThreads
       PROVE  /\ modes'[u] \subseteq Modes
              /\ worker'[u].pc = "update" => \E m \in Modes : worker'[u].result = LZMACompress(Mode(m))'
  BY <1>1, <1>6, <1>8
<1>11. best'.size = -1 \/ \E m \in Modes : best' = LZMACompress(Mode(m))'
  BY <1>6, <1>7
<1> QED BY <1>1, <1>8, <1>9, <1>10, <1>11 DEF HeavyInv

LEMMA HeavyInvBest == HeavyInv => HeavyIsBest
<1> SUFFICES ASSUME HeavyInv, call.level >= 2, HeavyOver
             PROVE  best.size = Min({LZMACompress(Mode(n)).size : n \in Modes})
  BY DEF HeavyIsBest
<1>1. /\ call \in LzmaCalls
      /\ best.size = -1 \/ \E m \in Modes : best = LZMACompress(Mode(m))
      /\ \A m \in Modes : Accounted(m)
      /\ \A t \in LzmaThreads : modes[t] = {} /\ worker[t].pc = "ask"
  BY DEF HeavyInv, HeavyOver
<1> DEFINE values == {LZMACompress(Mode(n)).size : n \in Modes}
<1>2. \A m \in Modes : best.size # -1 /\ best.size <= LZMACompress(Mode(m)).size
  BY <1>1 DEF Accounted
<1>3. 0 \in Modes
  BY ModesCounted
<1>4. PICK k \in Modes : best = LZMACompress(Mode(k))
  BY <1>1, <1>2, <1>3
<1>5. values \subseteq Nat /\ best.size \in values
  BY <1>1, <1>4, ModeSized
<1>6. Min(values) \in values /\ \A y \in values : Min(values) <= y
  BY <1>5, MinRight
<1>7. \A y \in values : best.size <= y
  BY <1>2
<1> HIDE DEF values
<1>8. best.size <= Min(values) /\ Min(values) <= best.size /\ Min(values) \in Nat /\ best.size \in Nat
  BY <1>5, <1>6, <1>7
<1>9. best.size = Min(values)
  BY <1>8
<1> QED BY <1>9 DEF values

LEMMA LzmaStep == AutoInv /\ HeavyInv /\ [LzmaNext]_lzmaVars => AutoInv' /\ HeavyInv'
<1> SUFFICES ASSUME AutoInv, HeavyInv, [LzmaNext]_lzmaVars PROVE AutoInv' /\ HeavyInv'
  OBVIOUS
<1>0. call \in LzmaCalls /\ call.level \in Nat
  BY LzmaAssumption DEF AutoInv
<1>a. ASSUME call.level = 1, UNCHANGED call PROVE HeavyInv'
  BY <1>0, <1>a DEF HeavyInv
<1>1. ASSUME NEW t \in LzmaThreads, AskEnd(t) PROVE AutoInv' /\ HeavyInv'
  <2>1. call.level = 1 /\ UNCHANGED call
    BY <1>1 DEF AskEnd, AutoSearch
  <2> QED BY <1>a, <1>1, <2>1, AskEndKeeps
<1>2. ASSUME NEW t \in LzmaThreads, AskWait(t) PROVE AutoInv' /\ HeavyInv'
  <2>1. call.level = 1 /\ UNCHANGED call
    BY <1>2 DEF AskWait, AutoSearch
  <2> QED BY <1>a, <1>2, <2>1, AskWaitKeeps
<1>3. ASSUME NEW t \in LzmaThreads, AskAttempt(t) PROVE AutoInv' /\ HeavyInv'
  <2>1. call.level = 1 /\ UNCHANGED call
    BY <1>3 DEF AskAttempt, AutoSearch
  <2> QED BY <1>a, <1>3, <2>1, AskAttemptKeeps
<1>4. ASSUME NEW t \in LzmaThreads, TellFinder(t) PROVE AutoInv' /\ HeavyInv'
  <2>1. call.level = 1 /\ UNCHANGED call
    BY <1>4 DEF TellFinder, AutoSearch
  <2> QED BY <1>a, <1>4, <2>1, TellFinderKeeps
<1>5. ASSUME NEW t \in LzmaThreads, UpdateStats(t) PROVE AutoInv' /\ HeavyInv'
  <2>1. call.level = 1 /\ UNCHANGED call
    BY <1>5 DEF UpdateStats, AutoSearch
  <2> QED BY <1>a, <1>5, <2>1, UpdateStatsKeeps
<1>6. CASE NextAxis
  <2>1. call.level = 1 /\ UNCHANGED call
    BY <1>6 DEF NextAxis, AutoSearch
  <2> QED BY <1>a, <1>6, <2>1, NextAxisKeeps
<1>7. ASSUME NEW t \in LzmaThreads, HeavyBegin(t) \/ HeavyUpdate(t) PROVE AutoInv' /\ HeavyInv'
  <2>1. call.level # 1 /\ call' = call
    BY <1>7 DEF HeavyBegin, HeavyUpdate
  <2>2. CASE call.level >= 2
    BY <1>0, <1>7, <2>1, <2>2, HeavyBeginKeeps, HeavyUpdateKeeps DEF AutoInv
  <2>3. CASE ~(call.level >= 2)
    BY <1>0, <2>1, <2>3 DEF AutoInv, HeavyInv
  <2> QED BY <2>2, <2>3
<1>8. CASE UNCHANGED lzmaVars
  <2>1. UNCHANGED <<call, axis, finder, bits, best, worker, modes>>
    BY <1>8 DEF lzmaVars
  <2>2. \A c : DoneRight(c)' <=> DoneRight(c)
    BY <2>1 DEF DoneRight, Sized, LZMACompress
  <2>3. \A t : WorkerRight(t)' <=> WorkerRight(t)
    BY <2>1 DEF WorkerRight, Sized, LZMACompress
  <2>4. AxisInv' <=> AxisInv
    BY <2>1, <2>2, <2>3 DEF AxisInv, PendingHeld, SomeoneDone
  <2>5. AutoInv'
    BY <2>1, <2>4 DEF AutoInv, ParametersRight, LZMACompress
  <2>6. \A m : Accounted(m)' <=> Accounted(m)
    BY <2>1 DEF Accounted, LZMACompress
  <2>7. HeavyInv'
    BY <2>1, <2>6 DEF HeavyInv, LZMACompress
  <2> QED BY <2>5, <2>7
<1> QED BY <1>1, <1>2, <1>3, <1>4, <1>5, <1>6, <1>7, <1>8 DEF LzmaNext, LzmaDone

(* The search for parameters returns the best of what it was to try: the     *)
(* full search of all, the automatic one of a parabolic axis; with the bits  *)
(* that made it, and without all threads waiting for each other.             *)
THEOREM BestFound == LzmaInit /\ [][LzmaNext]_lzmaVars => []BestReturned
<1>1. LzmaInit => AutoInv /\ HeavyInv
  BY AutoStart, HeavyStart
<1>2. AutoInv /\ HeavyInv => BestReturned
  BY AutoInvLowest, AutoInvRest, HeavyInvBest DEF BestReturned
<1> QED BY <1>1, <1>2, LzmaStep, PTL
=============================================================================
