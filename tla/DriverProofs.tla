---------------------------- MODULE DriverProofs ----------------------------
(***************************************************************************)
(* What mkcromfs lays out, for every tree and every setting: the tasks of  *)
(* the walk collect the whole tree whatever their order, and the room that *)
(* each inode gets before its blocks exist is the room it takes, so that   *)
(* inodes never overlap (LayoutSound).  The driver and cvcromfs, which     *)
(* come after, change none of it.                                          *)
(***************************************************************************)
EXTENDS Driver, SequenceTheorems, FiniteSetTheorems, WellFoundedInduction, TLAPS

-----------------------------------------------------------------------------
(* Numbers and sizes.                                                        *)

LEMMA MaxIsIn ==
    ASSUME NEW n \in Nat, NEW S, S \subseteq 1 .. n, S # {}
    PROVE  Max(S) \in S
<1> DEFINE T == {n - i : i \in S}
<1>1. T \subseteq Nat /\ T # {}
  <2>1. \A i \in S : n - i \in Nat
    OBVIOUS
  <2>2. PICK i \in S : TRUE
    OBVIOUS
  <2> QED
    BY <2>1, <2>2
<1> HIDE DEF T
<1>2. PICK x \in T : \A y \in T : ~(<<y, x>> \in OpToRel(<, Nat))
  BY <1>1, WFMin, NatLessThanWellFounded, Zenon
<1>3. \A y \in T : x <= y
  <2> SUFFICES ASSUME NEW y \in T PROVE x <= y
    OBVIOUS
  <2>1. ~(<<y, x>> \in Nat \X Nat /\ <<y, x>>[1] < <<y, x>>[2])
    BY <1>2 DEF OpToRel
  <2> QED
    BY <2>1, <1>1
<1>4. PICK i \in S : x = n - i
  BY DEF T
<1>5. ASSUME NEW j \in S
      PROVE  i >= j
  <2>1. n - j \in T
    BY DEF T
  <2> QED
    BY <2>1, <1>3, <1>4
<1> QED
  BY <1>5 DEF Max

LEMMA MinOfInterval ==
    ASSUME NEW a \in Nat, NEW b \in Nat, a <= b
    PROVE  Min(a .. b) = a
<1>1. a \in a .. b /\ \A y \in a .. b : a <= y
  OBVIOUS
<1>2. Min(a .. b) \in a .. b /\ \A y \in a .. b : Min(a .. b) <= y
  BY <1>1 DEF Min
<1> QED
  BY <1>1, <1>2

SizePatterns == Seq([names : SUBSET Nat, size : Nat \ {0}])

LEMMA BlockSizeRight ==
    ASSUME BSIZE_FOR \in SizePatterns, NEW name
    PROVE  CalcBSIZEfor(name) \in Nat \ {0}
<1> DEFINE m == {i \in DOMAIN BSIZE_FOR : name \in BSIZE_FOR[i].names}
<1>1. DOMAIN BSIZE_FOR = 1 .. Len(BSIZE_FOR) /\ Len(BSIZE_FOR) \in Nat
  BY DEF SizePatterns
<1>2. CASE m = {}
  BY <1>2, MakeFsAssumption DEF CalcBSIZEfor
<1>3. CASE m # {}
  <2>1. m \subseteq 1 .. Len(BSIZE_FOR)
    BY <1>1
  <2> HIDE DEF m
  <2>2. Max(m) \in m
    BY <1>1, <1>3, <2>1, MaxIsIn
  <2>3. BSIZE_FOR[Max(m)] \in [names : SUBSET Nat, size : Nat \ {0}]
    <3>1. \A i \in 1 .. Len(BSIZE_FOR) : BSIZE_FOR[i] \in [names : SUBSET Nat, size : Nat \ {0}]
      <4> DEFINE S == [names : SUBSET Nat, size : Nat \ {0}]
      <4>1. BSIZE_FOR \in Seq(S)
        BY DEF SizePatterns
      <4> HIDE DEF S
      <4>2. \A i \in 1 .. Len(BSIZE_FOR) : BSIZE_FOR[i] \in S
        BY <4>1, LenProperties
      <4> QED
        BY <4>2 DEF S
    <3> QED
      BY <2>1, <2>2, <3>1
  <2>4. CalcBSIZEfor(name) = BSIZE_FOR[Max(m)].size
    BY <1>3 DEF CalcBSIZEfor, m
  <2> QED
    BY <2>3, <2>4
<1> QED
  BY <1>2, <1>3

LEMMA BlocksAreNat ==
    ASSUME NEW n \in Nat, NEW bsize \in Nat \ {0}
    PROVE  CalcSizeInBlocks(n, bsize) \in Nat
BY DEF CalcSizeInBlocks

LEMMA DirectorySizeRight ==
    ASSUME NEW dir, IsFiniteSet(DOMAIN dir), \A x \in DOMAIN dir : NameSize(x) \in Nat
    PROVE  calc_encoded_directory_size(dir) \in Nat
<1> DEFINE bytes == [x \in DOMAIN dir |-> {x} \X (1 .. 4 + 8 + NameSize(x) + 1)]
           all   == {{x} \X (1 .. 4 + 8 + NameSize(x) + 1) : x \in DOMAIN dir}
<1>1. bytes \in Surjection(DOMAIN dir, all)
  BY DEF Surjection
<1>2. IsFiniteSet(all)
  <2> HIDE DEF bytes, all
  <2> QED
    BY <1>1, FS_Surjection
<1>3. ASSUME NEW x \in DOMAIN dir
      PROVE  IsFiniteSet({x} \X (1 .. 4 + 8 + NameSize(x) + 1))
  <2> DEFINE k == 4 + 8 + NameSize(x) + 1
             I == 1 .. k
             X == {x}
  <2>1. k \in Int /\ 1 \in Int
    OBVIOUS
  <2> HIDE DEF k
  <2>2. IsFiniteSet(I)
    BY <2>1, FS_Interval
  <2>3. IsFiniteSet(X)
    BY FS_Singleton
  <2> HIDE DEF I, X
  <2>4. IsFiniteSet(X \X I)
    BY <2>2, <2>3, FS_Product
  <2> QED
    BY <2>4 DEF k, I, X
<1>4. IsFiniteSet(UNION all)
  <2>1. \A A \in all : IsFiniteSet(A)
    BY <1>3
  <2> HIDE DEF all
  <2> QED
    BY <1>2, <2>1, FS_UNION
<1> HIDE DEF all
<1>5. Cardinality(UNION all) \in Nat
  BY <1>4, FS_CardinalityType
<1> QED
  BY <1>5 DEF calc_encoded_directory_size, all

-----------------------------------------------------------------------------
(* The walk: the inductive invariant.                                        *)

CollectedEntries == [parent : Nat, name : Nat, node : DOMAIN tree]

\* The root, or an entry that is a directory.
IsFolder(p) == p = 0 \/ IsDir(coll[p].node)

\* What is known of an entry says how far its task is; a directory's entries
\* have a part of the collection from the moment they are collected.
PlacesRight ==
    /\ tree \in Trees /\ coll \in Seq(CollectedEntries)
    /\ 0 \in DOMAIN stage /\ DOMAIN stage \subseteq 0 .. Len(coll) /\ DOMAIN range \subseteq DOMAIN stage
    /\ stage[0] \in {"collect", "sort", "done"}
    /\ \A p \in DOMAIN stage :
          /\ stage[p] \in {"collect", "sort", "enter", "insert", "done"}
          /\ stage[p] \in {"collect", "sort", "insert"} => IsFolder(p)
          /\ p \in DOMAIN range <=> IsFolder(p) /\ stage[p] \in {"sort", "insert", "done"}

PartRightFor(p) ==
    /\ \E a, b \in Nat : range[p] = a .. b /\ a > 0 /\ b <= Len(coll)
    /\ \A i \in range[p] :
          /\ coll[i].parent = p /\ coll[i].name \in Visible(NodeAt(p))
          /\ coll[i].node = tree[NodeAt(p)].dir[coll[i].name]
    /\ \A x \in Visible(NodeAt(p)) : \E i \in range[p] : coll[i].name = x

\* Each part has the names of its directory, and they have tasks once it is sorted.
PartsRight ==
    /\ \A p \in DOMAIN range : PartRightFor(p)
    /\ \A i \in 1 .. Len(coll) :
          /\ coll[i].parent \in DOMAIN range /\ i \in range[coll[i].parent]
          /\ i \in DOMAIN stage <=> stage[coll[i].parent] # "sort"

Inserted(p) == {k \in 1 .. Len(coll) : coll[k].parent = p /\ k \in DOMAIN stage /\ stage[k] = "done"}

\* The dirinfo of a directory has the names of the tasks that are over.
DirinfosRight ==
    /\ DOMAIN dirinfo = {p \in DOMAIN stage : IsFolder(p) /\ stage[p] # "enter"}
    /\ \A p \in DOMAIN dirinfo : DOMAIN dirinfo[p] = {coll[i].name : i \in Inserted(p)}

AllDone == \A p \in DOMAIN stage : stage[p] = "done"

WalkInv == PlacesRight /\ PartsRight /\ DirinfosRight

-----------------------------------------------------------------------------
(* The walk: the steps.                                                      *)

LEMMA NodesRight ==
    ASSUME WalkInv, NEW p \in DOMAIN stage
    PROVE  /\ p \in Nat /\ NodeAt(p) \in DOMAIN tree
           /\ IsFiniteSet(Visible(NodeAt(p))) /\ Cardinality(Visible(NodeAt(p))) \in Nat
           /\ \A x \in Visible(NodeAt(p)) :
                 x \in Nat /\ NameSize(x) \in Nat /\ tree[NodeAt(p)].dir[x] \in DOMAIN tree
<1>1. p \in 0 .. Len(coll) /\ tree \in Trees
  BY DEF WalkInv, PlacesRight
<1>2. NodeAt(p) \in DOMAIN tree
  <2>1. CASE p = 0
    BY <1>1, <2>1, MakeFsAssumption DEF NodeAt
  <2>2. CASE p # 0
    <3>1. coll[p] \in CollectedEntries
      BY <1>1, <2>2 DEF WalkInv, PlacesRight
    <3> QED
      BY <3>1, <2>2 DEF NodeAt, CollectedEntries
  <2> QED
    BY <2>1, <2>2
<1> DEFINE dir == tree[NodeAt(p)].dir
<1>3. /\ dir \in [DOMAIN dir -> DOMAIN tree] /\ IsFiniteSet(DOMAIN dir)
      /\ \A x \in DOMAIN dir : x \in Nat /\ NameSize(x) \in Nat
  BY <1>1, <1>2, MakeFsAssumption
<1>4. Visible(NodeAt(p)) \in SUBSET DOMAIN dir
  BY DEF Visible
<1>5. IsFiniteSet(Visible(NodeAt(p)))
  <2> HIDE DEF dir
  <2> QED
    BY <1>3, <1>4, FS_Subset
<1>6. Cardinality(Visible(NodeAt(p))) \in Nat
  BY <1>5, FS_CardinalityType
<1> QED
  BY <1>1, <1>2, <1>3, <1>4, <1>5, <1>6

LEMMA WalkStart == MakeInit => WalkInv /\ AllDone = FALSE
<1> SUFFICES ASSUME MakeInit PROVE WalkInv /\ AllDone = FALSE
  OBVIOUS
<1>1. /\ tree \in Trees /\ coll = <<>> /\ stage = [p \in {0} |-> "collect"] /\ range = <<>>
      /\ dirinfo = [p \in {0} |-> <<>>]
  BY DEF MakeInit
<1>2. coll \in Seq(CollectedEntries) /\ Len(coll) = 0 /\ DOMAIN stage = {0} /\ stage[0] = "collect" /\ DOMAIN range = {}
      /\ DOMAIN dirinfo = {0} /\ DOMAIN dirinfo[0] = {}
  BY <1>1
<1>3. PlacesRight
  BY <1>1, <1>2 DEF PlacesRight, IsFolder
<1>4. PartsRight
  BY <1>2 DEF PartsRight
<1>5. Inserted(0) = {}
  BY <1>2 DEF Inserted
<1>6. DirinfosRight
  BY <1>2, <1>5 DEF DirinfosRight, IsFolder
<1> QED
  BY <1>2, <1>3, <1>4, <1>6 DEF WalkInv, AllDone

LEMMA CollectKeeps == ASSUME WalkInv, NEW p \in DOMAIN stage, Collect(p) PROVE WalkInv'
<1> DEFINE L == Len(coll)
           V == Visible(NodeAt(p))
           n == Cardinality(V)
<1>1. /\ stage[p] = "collect" /\ stage' = [stage EXCEPT ![p] = "sort"] /\ UNCHANGED <<tree, dirinfo>>
      /\ range' = Put(range, p, L + 1 .. Len(coll'))
  BY DEF Collect
<1>2. PICK order \in Orders(V) :
         coll' = coll \o [i \in DOMAIN order |->
                            [parent |-> p, name |-> order[i], node |-> tree[NodeAt(p)].dir[order[i]]]]
  BY DEF Collect
<1>3. /\ p \in Nat /\ n \in Nat /\ L \in Nat /\ p <= L /\ coll \in Seq(CollectedEntries) /\ IsFolder(p)
      /\ \A x \in V : x \in Nat /\ tree[NodeAt(p)].dir[x] \in DOMAIN tree
  BY <1>1, NodesRight DEF WalkInv, PlacesRight
<1> DEFINE new == [i \in DOMAIN order |->
                     [parent |-> p, name |-> order[i], node |-> tree[NodeAt(p)].dir[order[i]]]]
<1>4. order \in [1 .. n -> V] /\ \A x \in V : \E i \in 1 .. n : order[i] = x
  BY <1>2 DEF Orders
<1> HIDE DEF V, n
<1>5. /\ new \in Seq(CollectedEntries) /\ Len(new) = n
      /\ \A i \in 1 .. n : new[i].parent = p /\ new[i].name = order[i] /\ new[i].node = tree[NodeAt(p)].dir[order[i]]
  <2>1. \A i \in 1 .. n :
           [parent |-> p, name |-> order[i], node |-> tree[NodeAt(p)].dir[order[i]]] \in CollectedEntries
    BY <1>3, <1>4 DEF CollectedEntries
  <2>2. new = [i \in 1 .. n |-> [parent |-> p, name |-> order[i], node |-> tree[NodeAt(p)].dir[order[i]]]]
    BY <1>4
  <2> QED
    BY <1>3, <2>1, <2>2
<1> HIDE DEF new
<1>6. /\ coll' \in Seq(CollectedEntries) /\ Len(coll') = L + n
      /\ \A i \in 1 .. L + n : coll'[i] = IF i <= L THEN coll[i] ELSE new[i - L]
  <2>1. coll' = coll \o new
    BY <1>2 DEF new
  <2> QED
    BY <1>3, <1>5, <2>1, ConcatProperties
<1> HIDE DEF L
<1>7. /\ DOMAIN stage' = DOMAIN stage /\ stage'[p] = "sort" /\ \A q \in DOMAIN stage : q # p => stage'[q] = stage[q]
  BY <1>1
<1>8. /\ DOMAIN range' = DOMAIN range \cup {p} /\ range'[p] = L + 1 .. L + n
      /\ \A q \in DOMAIN range : q # p => range'[q] = range[q]
  BY <1>1, <1>6 DEF Put
<1>9. p \notin DOMAIN range
  BY <1>1 DEF WalkInv, PlacesRight
<1>10. \A q \in DOMAIN stage : /\ q \in 0 .. L /\ NodeAt(q)' = NodeAt(q) /\ (IsFolder(q)' <=> IsFolder(q))
  <2> TAKE q \in DOMAIN stage
  <2>1. q \in 0 .. L
    BY DEF WalkInv, PlacesRight, L
  <2>2. q # 0 => coll'[q] = coll[q]
    BY <1>3, <1>6, <2>1
  <2> QED
    BY <2>1, <2>2, <1>1 DEF NodeAt, IsFolder, IsDir
<1>11. CollectedEntries' = CollectedEntries
  BY <1>1 DEF CollectedEntries
<1>12. PlacesRight'
  <2>1. DOMAIN stage' \subseteq 0 .. Len(coll')
    BY <1>3, <1>6, <1>7, <1>10
  <2>2. stage'[0] \in {"collect", "sort", "done"}
    BY <1>7 DEF WalkInv, PlacesRight
  <2>3. ASSUME NEW q \in DOMAIN stage'
        PROVE  /\ stage'[q] \in {"collect", "sort", "enter", "insert", "done"}
               /\ stage'[q] \in {"collect", "sort", "insert"} => IsFolder(q)'
               /\ q \in DOMAIN range' <=> IsFolder(q)' /\ stage'[q] \in {"sort", "insert", "done"}
    <3>1. CASE q = p
      BY <3>1, <1>3, <1>7, <1>8, <1>10
    <3>2. CASE q # p
      BY <3>2, <1>7, <1>8, <1>10 DEF WalkInv, PlacesRight
    <3> QED
      BY <3>1, <3>2
  <2>4. tree' \in Trees /\ coll' \in Seq(CollectedEntries') /\ 0 \in DOMAIN stage' /\ DOMAIN range' \subseteq DOMAIN stage'
    BY <1>1, <1>6, <1>7, <1>8, <1>11 DEF WalkInv, PlacesRight
  <2> QED
    BY <2>1, <2>2, <2>3, <2>4 DEF PlacesRight
<1>13. PartsRight'
  <2>1. ASSUME NEW q \in DOMAIN range'
        PROVE  PartRightFor(q)'
    <3>0. q \in DOMAIN stage /\ NodeAt(q)' = NodeAt(q) /\ Visible(NodeAt(q))' = Visible(NodeAt(q))
      BY <1>1, <1>8, <1>10 DEF WalkInv, PlacesRight, Visible
    <3>1. CASE q = p
      <4>1. L + 1 \in Nat /\ L + n \in Nat /\ L + 1 > 0 /\ L + n <= Len(coll')
        BY <1>3, <1>6
      <4>2. ASSUME NEW i \in L + 1 .. L + n
            PROVE  /\ coll'[i].parent = p /\ coll'[i].name \in V /\ coll'[i].node = tree[NodeAt(p)].dir[coll'[i].name]
        <5>1. coll'[i] = new[i - L] /\ i - L \in 1 .. n
          BY <1>3, <1>6
        <5> QED
          BY <5>1, <1>4, <1>5
      <4>3. ASSUME NEW x \in V
            PROVE  \E i \in L + 1 .. L + n : coll'[i].name = x
        <5>1. PICK k \in 1 .. n : order[k] = x
          BY <1>4
        <5>2. L + k \in L + 1 .. L + n /\ coll'[L + k] = new[k]
          BY <1>3, <1>6
        <5> QED
          BY <5>1, <5>2, <1>5
      <4> QED
        BY <3>0, <3>1, <4>1, <4>2, <4>3, <1>1, <1>8 DEF PartRightFor, V
    <3>2. CASE q # p
      <4>1. q \in DOMAIN range /\ range'[q] = range[q] /\ PartRightFor(q)
        BY <3>2, <1>8 DEF WalkInv, PartsRight
      <4>2. \A i \in range[q] : i \in 1 .. L /\ coll'[i] = coll[i]
        BY <4>1, <1>3, <1>6 DEF PartRightFor, L
      <4>3. \E a, b \in Nat : range'[q] = a .. b /\ a > 0 /\ b <= Len(coll')
        BY <4>1, <1>3, <1>6 DEF PartRightFor, L
      <4> QED
        BY <3>0, <4>1, <4>2, <4>3, <1>1 DEF PartRightFor
    <3> QED
      BY <3>1, <3>2
  <2>2. ASSUME NEW i \in 1 .. Len(coll')
        PROVE  /\ coll'[i].parent \in DOMAIN range' /\ i \in range'[coll'[i].parent]
               /\ i \in DOMAIN stage' <=> stage'[coll'[i].parent] # "sort"
    <3>1. CASE i <= L
      <4>1. coll'[i] = coll[i] /\ i \in 1 .. Len(coll)
        BY <3>1, <1>3, <1>6 DEF L
      <4>2. coll[i].parent \in DOMAIN range /\ coll[i].parent # p
        BY <4>1, <1>9 DEF WalkInv, PartsRight
      <4>3. coll[i].parent \in DOMAIN stage
        BY <4>2 DEF WalkInv, PlacesRight
      <4> QED
        BY <4>1, <4>2, <4>3, <1>7, <1>8 DEF WalkInv, PartsRight
    <3>2. CASE i > L
      <4>1. i \in L + 1 .. L + n /\ coll'[i] = new[i - L] /\ i - L \in 1 .. n
        BY <3>2, <1>3, <1>6, SMTT(60)
      <4>2. coll'[i].parent = p
        BY <4>1, <1>5
      <4>3. i \notin DOMAIN stage
        BY <3>2, <1>3, <1>10
      <4> QED
        BY <4>1, <4>2, <4>3, <1>7, <1>8
    <3> QED
      BY <3>1, <3>2, <1>3
  <2> QED
    BY <2>1, <2>2 DEF PartsRight
<1>14. DirinfosRight'
  <2>1. DOMAIN dirinfo' = {q \in DOMAIN stage' : IsFolder(q)' /\ stage'[q] # "enter"}
    BY <1>1, <1>7, <1>10 DEF WalkInv, DirinfosRight
  <2>2. ASSUME NEW q
        PROVE  Inserted(q)' = Inserted(q)
    <3>1. ASSUME NEW k \in DOMAIN stage, k # 0
          PROVE  k \in 1 .. Len(coll) /\ k \in 1 .. Len(coll') /\ coll'[k] = coll[k]
      BY <3>1, <1>3, <1>6, <1>10 DEF L
    <3>2. Inserted(q) = {k \in DOMAIN stage \ {0} : coll[k].parent = q /\ stage[k] = "done"}
      BY <3>1, <1>3 DEF Inserted, L
    <3>3. Inserted(q)' = {k \in DOMAIN stage \ {0} : coll'[k].parent = q /\ stage'[k] = "done"}
      BY <3>1, <1>3, <1>6, <1>7 DEF Inserted, L
    <3>4. \A k \in DOMAIN stage : stage'[k] = "done" <=> stage[k] = "done"
      BY <1>1, <1>7
    <3> QED
      BY <3>1, <3>2, <3>3, <3>4
  <2>3. ASSUME NEW q \in DOMAIN dirinfo'
        PROVE  DOMAIN dirinfo'[q] = {coll'[i].name : i \in Inserted(q)'}
    <3>1. \A k \in Inserted(q) : coll'[k] = coll[k]
      BY <1>6, <1>3 DEF Inserted, L
    <3>2. DOMAIN dirinfo[q] = {coll[i].name : i \in Inserted(q)}
      BY <1>1 DEF WalkInv, DirinfosRight
    <3> QED
      BY <3>1, <3>2, <2>2, <1>1
  <2> QED
    BY <2>1, <2>3 DEF DirinfosRight
<1> QED
  BY <1>12, <1>13, <1>14 DEF WalkInv

LEMMA SortKeeps == ASSUME WalkInv, NEW p \in DOMAIN stage, Sort(p) PROVE WalkInv'
<1> DEFINE L == Len(coll)
           r == range[p]
<1>1. /\ stage[p] = "sort" /\ UNCHANGED <<tree, range, dirinfo>> /\ SortRange(p)
      /\ stage' = [i \in DOMAIN stage \cup r |->
                     IF i \in r THEN "enter"
                     ELSE IF i # p THEN stage[i] ELSE IF p = 0 THEN "done" ELSE "insert"]
  BY DEF Sort
<1>2. p \in DOMAIN range /\ PartRightFor(p) /\ L \in Nat /\ coll \in Seq(CollectedEntries) /\ p \in 0 .. L /\ IsFolder(p)
      /\ DOMAIN coll = 1 .. L
  BY <1>1 DEF WalkInv, PlacesRight, PartsRight
<1>3. PICK a \in Nat, b \in Nat : r = a .. b /\ a > 0 /\ b <= L
  BY <1>2 DEF PartRightFor
<1>4. PICK s \in Orders(r) : coll' = [i \in DOMAIN coll |-> IF i \in r THEN coll[s[i - Min(r) + 1]] ELSE coll[i]]
  BY <1>1 DEF SortRange, SortedPart
<1> DEFINE turn == [i \in r |-> s[i - a + 1]]
<1>5. /\ \A i \in r : turn[i] \in r
      /\ \A x \in r : \E i \in r : turn[i] = x
      /\ \A i \in 1 .. L : coll'[i] = IF i \in r THEN coll[turn[i]] ELSE coll[i]
  <2>1. CASE a > b
    BY <2>1, <1>2, <1>3, <1>4
  <2>2. CASE a <= b
    <3>1. Min(r) = a
      BY <2>2, <1>3, MinOfInterval
    <3>2. Cardinality(r) = b - a + 1
      BY <2>2, <1>3, FS_Interval
    <3>3. s \in [1 .. b - a + 1 -> r] /\ \A x \in r : \E i \in 1 .. b - a + 1 : s[i] = x
      BY <1>4, <3>2 DEF Orders
    <3>4. \A i \in r : i - a + 1 \in 1 .. b - a + 1
      BY <1>3
    <3>5. \A i \in r : turn[i] \in r
      BY <3>3, <3>4
    <3>6. ASSUME NEW x \in r
          PROVE  \E i \in r : turn[i] = x
      <4>1. PICK k \in 1 .. b - a + 1 : s[k] = x
        BY <3>3
      <4>2. a + k - 1 \in r /\ (a + k - 1) - a + 1 = k
        BY <1>3
      <4>3. turn[a + k - 1] = s[k]
        BY <4>2
      <4> QED
        BY <4>1, <4>2, <4>3
    <3> QED
      BY <3>1, <3>5, <3>6, <1>2, <1>4
  <2> QED
    BY <2>1, <2>2, <1>3, SMTT(60)
<1> HIDE DEF turn
<1>6. r \subseteq 1 .. L
  BY <1>2, <1>3
<1>7. \A i \in r : coll[i] \in CollectedEntries /\ coll[i].parent = p /\ i \notin DOMAIN stage
  <2> TAKE i \in r
  <2>1. coll[i] \in CollectedEntries /\ coll[i].parent = p
    BY <1>2, <1>6 DEF PartRightFor
  <2>2. i \notin DOMAIN stage
    BY <1>1, <1>6, <2>1 DEF WalkInv, PartsRight
  <2> QED
    BY <2>1, <2>2
<1>8. coll' \in Seq(CollectedEntries) /\ Len(coll') = L
  <2>1. \A i \in 1 .. L : coll'[i] \in CollectedEntries
    BY <1>2, <1>5, <1>7
  <2>2. coll' = [i \in 1 .. L |-> coll'[i]]
    BY <1>2, <1>4
  <2> DEFINE new == [i \in 1 .. L |-> coll'[i]]
  <2>3. new \in Seq(CollectedEntries) /\ Len(new) = L
    BY <1>2, <2>1
  <2> QED
    BY <2>2, <2>3
<1>9. \A i \in 1 .. L : i \in DOMAIN stage => coll'[i] = coll[i]
  BY <1>5, <1>7
<1>10. \A i \in 1 .. L : coll'[i].parent = coll[i].parent
  BY <1>5, <1>7
<1>11. \A q \in DOMAIN stage : /\ q \in 0 .. L /\ NodeAt(q)' = NodeAt(q) /\ (IsFolder(q)' <=> IsFolder(q))
  <2> TAKE q \in DOMAIN stage
  <2>1. q \in 0 .. L
    BY DEF WalkInv, PlacesRight
  <2>2. q # 0 => coll'[q] = coll[q]
    BY <1>2, <1>9, <2>1
  <2> QED
    BY <2>1, <2>2, <1>1 DEF NodeAt, IsFolder, IsDir
<1> HIDE DEF L, r
<1>12. /\ DOMAIN stage' = DOMAIN stage \cup r
       /\ \A i \in r : stage'[i] = "enter"
       /\ \A q \in DOMAIN stage : q # p => stage'[q] = stage[q]
       /\ stage'[p] = IF p = 0 THEN "done" ELSE "insert"
  BY <1>1, <1>7
<1>13. PlacesRight'
  <2>1. tree' \in Trees /\ coll' \in Seq(CollectedEntries') /\ 0 \in DOMAIN stage'
        /\ DOMAIN stage' \subseteq 0 .. Len(coll') /\ DOMAIN range' \subseteq DOMAIN stage'
        /\ stage'[0] \in {"collect", "sort", "done"}
    <3>1. CollectedEntries' = CollectedEntries
      BY <1>1 DEF CollectedEntries
    <3>2. DOMAIN stage' \subseteq 0 .. Len(coll')
      <4>1. r \subseteq 0 .. L
        BY <1>2, <1>6
      <4>2. DOMAIN stage \subseteq 0 .. L
        BY <1>11
      <4> QED
        BY <4>1, <4>2, <1>8, <1>12
    <3>3. stage'[0] \in {"collect", "sort", "done"}
      BY <1>12 DEF WalkInv, PlacesRight
    <3> QED
      BY <3>1, <3>2, <3>3, <1>1, <1>8, <1>12 DEF WalkInv, PlacesRight
  <2>2. ASSUME NEW q \in DOMAIN stage'
        PROVE  /\ stage'[q] \in {"collect", "sort", "enter", "insert", "done"}
               /\ stage'[q] \in {"collect", "sort", "insert"} => IsFolder(q)'
               /\ q \in DOMAIN range' <=> IsFolder(q)' /\ stage'[q] \in {"sort", "insert", "done"}
    <3>1. CASE q \in r
      <4>1. q \notin DOMAIN range
        BY <3>1, <1>7 DEF WalkInv, PlacesRight
      <4> QED
        BY <3>1, <4>1, <1>1, <1>12
    <3>2. CASE q = p
      BY <3>2, <1>1, <1>2, <1>11, <1>12
    <3>3. CASE q \in DOMAIN stage /\ q # p
      BY <3>3, <1>1, <1>11, <1>12 DEF WalkInv, PlacesRight
    <3> QED
      BY <3>1, <3>2, <3>3, <1>12
  <2> QED
    BY <2>1, <2>2 DEF PlacesRight
<1>14. PartsRight'
  <2>1. ASSUME NEW q \in DOMAIN range'
        PROVE  PartRightFor(q)'
    <3>1. q \in DOMAIN range /\ q \in DOMAIN stage /\ NodeAt(q)' = NodeAt(q) /\ Visible(NodeAt(q))' = Visible(NodeAt(q))
          /\ PartRightFor(q)
      BY <1>1, <1>11 DEF WalkInv, PlacesRight, PartsRight, Visible
    <3>2. CASE q = p
      <4>1. ASSUME NEW i \in r
            PROVE  /\ coll'[i].parent = p /\ coll'[i].name \in Visible(NodeAt(p))
                   /\ coll'[i].node = tree[NodeAt(p)].dir[coll'[i].name]
        <5>1. coll'[i] = coll[turn[i]] /\ turn[i] \in r
          BY <1>5, <1>6
        <5> QED
          BY <5>1, <1>2 DEF PartRightFor, r
      <4>2. ASSUME NEW x \in Visible(NodeAt(p))
            PROVE  \E i \in r : coll'[i].name = x
        <5>1. PICK k \in r : coll[k].name = x
          BY <1>2 DEF PartRightFor, r
        <5>2. PICK i \in r : turn[i] = k
          BY <1>5
        <5>3. coll'[i] = coll[k]
          BY <5>2, <1>5, <1>6
        <5> QED
          BY <5>1, <5>3
      <4>3. \E x, y \in Nat : range'[q] = x .. y /\ x > 0 /\ y <= Len(coll')
        BY <3>2, <1>1, <1>3, <1>8 DEF r, L
      <4> QED
        BY <3>1, <3>2, <4>1, <4>2, <4>3, <1>1 DEF PartRightFor, r
    <3>3. CASE q # p
      <4>1. \A i \in range[q] : i \in 1 .. L /\ coll'[i] = coll[i]
        <5> TAKE i \in range[q]
        <5>1. i \in 1 .. L /\ coll[i].parent = q
          BY <3>1, <1>2 DEF PartRightFor, L
        <5>2. i \notin r
          BY <5>1, <3>3, <1>7
        <5> QED
          BY <5>1, <5>2, <1>5
      <4>2. \E x, y \in Nat : range'[q] = x .. y /\ x > 0 /\ y <= Len(coll')
        BY <3>1, <1>1, <1>8 DEF PartRightFor, L
      <4> QED
        BY <3>1, <4>1, <4>2, <1>1 DEF PartRightFor
    <3> QED
      BY <3>2, <3>3
  <2>2. ASSUME NEW i \in 1 .. Len(coll')
        PROVE  /\ coll'[i].parent \in DOMAIN range' /\ i \in range'[coll'[i].parent]
               /\ i \in DOMAIN stage' <=> stage'[coll'[i].parent] # "sort"
    <3>1. i \in 1 .. L /\ i \in 1 .. Len(coll) /\ coll'[i].parent = coll[i].parent
      BY <1>8, <1>10 DEF L
    <3>2. coll[i].parent \in DOMAIN range /\ i \in range[coll[i].parent] /\ coll[i].parent \in DOMAIN stage
          /\ (i \in DOMAIN stage <=> stage[coll[i].parent] # "sort")
      BY <3>1 DEF WalkInv, PartsRight, PlacesRight
    <3>3. CASE coll[i].parent = p
      <4>1. i \in r
        BY <3>2, <3>3 DEF r
      <4> QED
        BY <3>1, <3>2, <3>3, <4>1, <1>1, <1>12
    <3>4. CASE coll[i].parent # p
      <4>1. i \notin r
        BY <3>4, <1>7
      <4> QED
        BY <3>1, <3>2, <3>4, <4>1, <1>1, <1>12
    <3> QED
      BY <3>3, <3>4
  <2> QED
    BY <2>1, <2>2 DEF PartsRight
<1>15. DirinfosRight'
  <2>1. DOMAIN dirinfo' = {q \in DOMAIN stage' : IsFolder(q)' /\ stage'[q] # "enter"}
    <3>1. DOMAIN dirinfo = {q \in DOMAIN stage : IsFolder(q) /\ stage[q] # "enter"}
      BY DEF WalkInv, DirinfosRight
    <3>2. ASSUME NEW q \in DOMAIN stage
          PROVE  IsFolder(q) /\ stage[q] # "enter" <=> IsFolder(q)' /\ stage'[q] # "enter"
      BY <1>1, <1>11, <1>12
    <3> QED
      BY <3>1, <3>2, <1>1, <1>12
  <2>2. ASSUME NEW q
        PROVE  Inserted(q)' = Inserted(q) /\ \A k \in Inserted(q) : coll'[k] = coll[k]
    <3>1. ASSUME NEW k \in 1 .. L
          PROVE  k \in DOMAIN stage /\ stage[k] = "done" <=> k \in DOMAIN stage' /\ stage'[k] = "done"
      BY <1>1, <1>2, <1>12
    <3>2. 1 .. Len(coll) = 1 .. L /\ 1 .. Len(coll') = 1 .. L
      BY <1>8 DEF L
    <3> QED
      BY <3>1, <3>2, <1>9, <1>10 DEF Inserted
  <2>3. ASSUME NEW q \in DOMAIN dirinfo'
        PROVE  DOMAIN dirinfo'[q] = {coll'[i].name : i \in Inserted(q)'}
    <3>1. DOMAIN dirinfo[q] = {coll[i].name : i \in Inserted(q)}
      BY <1>1 DEF WalkInv, DirinfosRight
    <3> QED
      BY <3>1, <2>2, <1>1
  <2> QED
    BY <2>1, <2>3 DEF DirinfosRight
<1> QED
  BY <1>13, <1>14, <1>15 DEF WalkInv

(* A step that leaves the collection. *)
LEMMA CollectionSame ==
    ASSUME WalkInv, UNCHANGED <<tree, coll, range>>, DOMAIN stage' = DOMAIN stage,
           \A q \in DOMAIN stage : stage[q] = "sort" <=> stage'[q] = "sort"
    PROVE  /\ PartsRight' /\ CollectedEntries' = CollectedEntries
           /\ \A q : NodeAt(q)' = NodeAt(q) /\ (IsFolder(q)' <=> IsFolder(q))
<1>1. CollectedEntries' = CollectedEntries /\ \A q : NodeAt(q)' = NodeAt(q) /\ (IsFolder(q)' <=> IsFolder(q))
  BY DEF CollectedEntries, NodeAt, IsFolder, IsDir
<1>2. ASSUME NEW q \in DOMAIN range
      PROVE  PartRightFor(q)'
  <2>1. PartRightFor(q)
    BY DEF WalkInv, PartsRight
  <2> QED
    BY <2>1, <1>1 DEF PartRightFor, Visible
<1>3. ASSUME NEW i \in 1 .. Len(coll)
      PROVE  i \in DOMAIN stage' <=> stage'[coll[i].parent] # "sort"
  <2>1. coll[i].parent \in DOMAIN stage
    BY DEF WalkInv, PartsRight, PlacesRight
  <2> QED
    BY <2>1 DEF WalkInv, PartsRight
<1>4. PartsRight'
  BY <1>2, <1>3 DEF WalkInv, PartsRight
<1> QED
  BY <1>1, <1>4

LEMMA EnterKeeps == ASSUME WalkInv, NEW p \in DOMAIN stage, Enter(p) PROVE WalkInv'
<1>1. /\ stage[p] = "enter" /\ p # 0 /\ IsFolder(p) /\ UNCHANGED <<tree, coll, range>>
      /\ stage' = [stage EXCEPT ![p] = "collect"] /\ dirinfo' = Put(dirinfo, p, <<>>)
  BY DEF Enter, IsFolder
<1>2. PartsRight' /\ CollectedEntries' = CollectedEntries /\ \A q : NodeAt(q)' = NodeAt(q) /\ (IsFolder(q)' <=> IsFolder(q))
  BY <1>1, CollectionSame
<1>3. PlacesRight'
  BY <1>1, <1>2 DEF WalkInv, PlacesRight
<1>4. DOMAIN dirinfo' = {q \in DOMAIN stage' : IsFolder(q)' /\ stage'[q] # "enter"}
  <2>1. DOMAIN dirinfo' = DOMAIN dirinfo \cup {p}
    BY <1>1 DEF Put
  <2> QED
    BY <2>1, <1>1, <1>2 DEF WalkInv, DirinfosRight
<1>5. \A q : Inserted(q)' = Inserted(q)
  BY <1>1 DEF Inserted
<1>6. Inserted(p) = {}
  <2> SUFFICES ASSUME NEW k \in Inserted(p) PROVE FALSE
    OBVIOUS
  <2>1. p \in DOMAIN range
    BY DEF Inserted, WalkInv, PartsRight
  <2> QED
    BY <2>1, <1>1 DEF WalkInv, PlacesRight
<1>7. ASSUME NEW q \in DOMAIN dirinfo'
      PROVE  DOMAIN dirinfo'[q] = {coll[i].name : i \in Inserted(q)}
  <2>1. CASE q = p
    BY <2>1, <1>1, <1>6 DEF Put
  <2>2. CASE q # p
    BY <2>2, <1>1 DEF Put, WalkInv, DirinfosRight
  <2> QED
    BY <2>1, <2>2
<1>8. DirinfosRight'
  BY <1>1, <1>4, <1>5, <1>7 DEF DirinfosRight
<1> QED
  BY <1>2, <1>3, <1>8 DEF WalkInv

LEMMA InsertKeeps == ASSUME WalkInv, NEW p \in DOMAIN stage, Insert(p) PROVE WalkInv'
<1>0. PICK d : d = coll[p].parent
  OBVIOUS
<1>1. /\ p # 0 /\ UNCHANGED <<tree, coll, range>>
      /\ stage[p] = "insert" \/ (stage[p] = "enter" /\ ~IsFolder(p))
      /\ stage' = [stage EXCEPT ![p] = "done"]
      /\ dirinfo' = [dirinfo EXCEPT ![d] = Put(@, coll[p].name, 0)]
  BY <1>0 DEF Insert, IsFolder
<1>2. PartsRight' /\ CollectedEntries' = CollectedEntries /\ \A q : NodeAt(q)' = NodeAt(q) /\ (IsFolder(q)' <=> IsFolder(q))
  BY <1>1, CollectionSame
<1>3. PlacesRight'
  BY <1>1, <1>2 DEF WalkInv, PlacesRight
<1>4. p \in 1 .. Len(coll)
  BY <1>1 DEF WalkInv, PlacesRight
<1>5. d \in DOMAIN dirinfo
  <2>1. d \in DOMAIN range /\ stage[d] # "sort" /\ d \in DOMAIN stage
    BY <1>0, <1>4 DEF WalkInv, PlacesRight, PartsRight
  <2>2. IsFolder(d) /\ stage[d] \in {"sort", "insert", "done"}
    BY <2>1 DEF WalkInv, PlacesRight
  <2> QED
    BY <2>1, <2>2 DEF WalkInv, DirinfosRight
<1>6. DOMAIN dirinfo' = {q \in DOMAIN stage' : IsFolder(q)' /\ stage'[q] # "enter"}
  BY <1>1, <1>2 DEF WalkInv, DirinfosRight
<1>7. Inserted(d)' = Inserted(d) \cup {p} /\ \A q : q # d => Inserted(q)' = Inserted(q)
  BY <1>0, <1>1, <1>4 DEF Inserted
<1>8. ASSUME NEW q \in DOMAIN dirinfo'
      PROVE  DOMAIN dirinfo'[q] = {coll[i].name : i \in Inserted(q)'}
  <2>1. q \in DOMAIN dirinfo /\ DOMAIN dirinfo[q] = {coll[i].name : i \in Inserted(q)}
    BY <1>1 DEF WalkInv, DirinfosRight
  <2>2. CASE q = d
    <3>1. DOMAIN dirinfo'[q] = DOMAIN dirinfo[q] \cup {coll[p].name}
      BY <2>1, <2>2, <1>1 DEF Put
    <3>2. {coll[i].name : i \in Inserted(q) \cup {p}} = {coll[i].name : i \in Inserted(q)} \cup {coll[p].name}
      OBVIOUS
    <3> QED
      BY <2>1, <2>2, <3>1, <3>2, <1>7
  <2>3. CASE q # d
    <3>1. dirinfo'[q] = dirinfo[q]
      BY <2>1, <2>3, <1>1
    <3> QED
      BY <2>1, <2>3, <3>1, <1>7
  <2> QED
    BY <2>2, <2>3
<1>9. DirinfosRight'
  BY <1>1, <1>6, <1>8 DEF DirinfosRight
<1> QED
  BY <1>2, <1>3, <1>9 DEF WalkInv

(* A step behind the walk changes at most the numbers in the directories. *)
LEMMA WalkSame ==
    ASSUME WalkInv, UNCHANGED <<tree, coll, stage, range>>, DOMAIN dirinfo' = DOMAIN dirinfo,
           \A q \in DOMAIN dirinfo : DOMAIN dirinfo'[q] = DOMAIN dirinfo[q]
    PROVE  WalkInv'
<1>1. PartsRight' /\ CollectedEntries' = CollectedEntries /\ \A q : NodeAt(q)' = NodeAt(q) /\ (IsFolder(q)' <=> IsFolder(q))
  BY CollectionSame
<1>2. PlacesRight'
  BY <1>1 DEF WalkInv, PlacesRight
<1>3. \A q : Inserted(q)' = Inserted(q)
  BY DEF Inserted
<1>4. DirinfosRight'
  BY <1>1, <1>3 DEF WalkInv, DirinfosRight
<1> QED
  BY <1>1, <1>2, <1>4 DEF WalkInv

(* When every task is over, the dirinfos have the whole tree. *)
LEMMA WholeTree ==
    ASSUME WalkInv, AllDone
    PROVE  /\ WalkComplete
           /\ DOMAIN stage = 0 .. Len(coll)
           /\ \A p \in DOMAIN dirinfo : DOMAIN dirinfo[p] = Visible(NodeAt(p))
           /\ \A p \in 1 .. Len(coll) : /\ coll[p].parent \in DOMAIN dirinfo
                                        /\ coll[p].name \in DOMAIN dirinfo[coll[p].parent]
                                        /\ coll[p].node = tree[NodeAt(coll[p].parent)].dir[coll[p].name]
                                        /\ coll[p].node \in DOMAIN tree
                                        /\ IsDir(coll[p].node) => p \in DOMAIN dirinfo
<1>1. \A p \in 1 .. Len(coll) : coll[p].parent \in DOMAIN range /\ p \in range[coll[p].parent] /\ p \in DOMAIN stage
      /\ coll[p].parent \in DOMAIN stage
  BY DEF WalkInv, PlacesRight, PartsRight, AllDone
<1>2. DOMAIN stage = 0 .. Len(coll)
  BY <1>1, SMTT(60) DEF WalkInv, PlacesRight
<1>3. DOMAIN dirinfo = DOMAIN range
  BY DEF WalkInv, PlacesRight, DirinfosRight, AllDone
<1>4. ASSUME NEW p \in DOMAIN dirinfo
      PROVE  /\ DOMAIN dirinfo[p] = Visible(NodeAt(p))
             /\ \A x \in DOMAIN dirinfo[p] :
                   \E q \in DOMAIN coll : coll[q].parent = p /\ coll[q].name = x /\ coll[q].node = tree[NodeAt(p)].dir[x]
  <2>1. PartRightFor(p) /\ range[p] \subseteq 1 .. Len(coll)
    BY <1>3, <1>4 DEF WalkInv, PartsRight, PartRightFor
  <2>2. Inserted(p) = range[p]
    BY <1>1, <2>1 DEF Inserted, PartRightFor, AllDone
  <2>3. DOMAIN dirinfo[p] = {coll[i].name : i \in range[p]}
    BY <1>4, <2>2 DEF WalkInv, DirinfosRight
  <2>4. DOMAIN dirinfo[p] = Visible(NodeAt(p))
    BY <2>1, <2>3 DEF PartRightFor
  <2>5. range[p] \subseteq DOMAIN coll
    BY <2>1 DEF WalkInv, PlacesRight
  <2> QED
    BY <2>1, <2>3, <2>4, <2>5 DEF PartRightFor
<1>5. WalkComplete
  BY <1>4 DEF WalkComplete, Visible
<1>6. ASSUME NEW p \in 1 .. Len(coll)
      PROVE  /\ coll[p].parent \in DOMAIN dirinfo
             /\ coll[p].name \in DOMAIN dirinfo[coll[p].parent]
             /\ coll[p].node = tree[NodeAt(coll[p].parent)].dir[coll[p].name]
             /\ coll[p].node \in DOMAIN tree
             /\ IsDir(coll[p].node) => p \in DOMAIN dirinfo
  <2>1. coll[p].parent \in DOMAIN dirinfo /\ PartRightFor(coll[p].parent)
    BY <1>1, <1>3 DEF WalkInv, PartsRight
  <2>2. coll[p] \in CollectedEntries
    BY DEF WalkInv, PlacesRight
  <2>3. IsDir(coll[p].node) => p \in DOMAIN dirinfo
    BY <1>1 DEF WalkInv, DirinfosRight, IsFolder, AllDone
  <2> QED
    BY <1>1, <1>4, <2>1, <2>2, <2>3 DEF PartRightFor, CollectedEntries
<1> QED
  BY <1>2, <1>4, <1>5, <1>6

-----------------------------------------------------------------------------
(* The numbers and the inodes: the inductive invariant.                      *)

Settings == [numsize : {0, 2, 3, 4}, packed : BOOLEAN, variable : BOOLEAN]

SettingsRight == BSIZE_FOR \in SizePatterns /\ opts \in Settings

\* Where an entry's inode is to stand.
Off(p) == GetInodeOffset(hardlink_map[coll[p].node])

\* The nodes met so far have numbers, and each has its room behind the others.
NumbersRight ==
    /\ at \in 1 .. Len(coll) + 1
    /\ \E k \in Nat : inotab_size = 4 * k
    /\ DOMAIN hardlink_map = {coll[q].node : q \in 1 .. at - 1}
    /\ \A q \in 1 .. at - 1 : Ino(q) = hardlink_map[coll[q].node]
    /\ \A p \in 1 .. at - 1 : Off(p) \in Nat
    /\ \A p \in 1 .. at - 1 : NeedsBlockify(p) =>
          /\ Off(p) + RoomFor(p) <= inotab_size
          /\ \A q \in 1 .. p - 1 : NeedsBlockify(q) => Off(q) + RoomFor(q) <= Off(p)

\* An inode that is no larger than the room for the entry.
FitsRoom(raw, p) ==
    /\ "blocks" \in DOMAIN raw
    /\ \E S : raw.blocks \in Seq(S)
    /\ INODE_SIZE_BYTES(opts, Len(raw.blocks)) <= RoomFor(p)

InodesRight ==
    \A o \in DOMAIN inotab :
       \E p \in 1 .. Len(coll) : NeedsBlockify(p) /\ o = Off(p) /\ FitsRoom(inotab[o], p)

LayoutInv ==
    /\ WalkInv
    /\ phase \in {"estimate", "walk", "number", "create", "flush", "inotab", "made"}
    /\ phase # "made" => SettingsRight
    /\ phase \in {"estimate", "walk"} => at = 1 /\ inotab_size = 0 /\ hardlink_map = <<>>
    /\ phase \in {"estimate", "walk", "number"} => inotab = <<>>
    /\ phase \in {"number", "create", "flush", "inotab"} => AllDone /\ NumbersRight
    /\ phase \in {"create", "flush", "inotab"} => at = Len(coll) + 1 /\ InodesRight

-----------------------------------------------------------------------------
(* The numbers and the inodes: the steps.                                    *)

LEMMA SameNamesSameSize ==
    ASSUME NEW d, NEW e, DOMAIN d = DOMAIN e
    PROVE  calc_encoded_directory_size(d) = calc_encoded_directory_size(e)
BY DEF calc_encoded_directory_size

LEMMA BytesizeRight ==
    ASSUME WalkInv, AllDone, NEW p \in 1 .. Len(coll)
    PROVE  Bytesize(p) \in Nat
<1>1. coll[p].node \in DOMAIN tree /\ (IsDir(coll[p].node) => p \in DOMAIN dirinfo)
      /\ WalkComplete /\ p \in DOMAIN stage
  BY WholeTree
<1>2. CASE IsDir(coll[p].node)
  <2>1. DOMAIN dirinfo[p] = Visible(NodeAt(p))
    BY <1>1, <1>2, WholeTree
  <2>2. IsFiniteSet(DOMAIN dirinfo[p]) /\ \A x \in DOMAIN dirinfo[p] : NameSize(x) \in Nat
    BY <1>1, <2>1, NodesRight
  <2>3. calc_encoded_directory_size(dirinfo[p]) \in Nat
    BY <2>2, DirectorySizeRight
  <2> QED
    BY <1>2, <2>3 DEF Bytesize
<1>3. CASE ~IsDir(coll[p].node)
  BY <1>1, <1>3, MakeFsAssumption DEF Bytesize, WalkInv, PlacesRight
<1> QED
  BY <1>2, <1>3

LEMMA RoomRight ==
    ASSUME WalkInv, AllDone, SettingsRight, NEW p \in 1 .. Len(coll)
    PROVE  /\ CalcSizeInBlocks(Bytesize(p), CalcBSIZEfor(coll[p].name)) \in Nat
           /\ RoomFor(p) \in Nat /\ RoomFor(p) >= INODE_SIZE_BYTES(opts, 0)
<1> DEFINE n == CalcSizeInBlocks(Bytesize(p), CalcBSIZEfor(coll[p].name))
<1>1. n \in Nat
  BY BytesizeRight, BlockSizeRight, BlocksAreNat DEF SettingsRight
<1>2. opts.numsize \in {0, 2, 3, 4} /\ opts.variable \in BOOLEAN
  BY DEF SettingsRight, Settings
<1> HIDE DEF n
<1>3. INODE_HEADER_SIZE(opts) \in Nat
  BY DEF INODE_HEADER_SIZE
<1>4. opts.numsize * n \in Nat /\ opts.numsize * n >= opts.numsize * 0
  BY <1>1, <1>2
<1>5. INODE_SIZE_BYTES(opts, n) \in Nat /\ INODE_SIZE_BYTES(opts, n) >= INODE_SIZE_BYTES(opts, 0)
  BY <1>2, <1>3, <1>4 DEF INODE_SIZE_BYTES
<1> QED
  BY <1>1, <1>5 DEF RoomFor, n

(* A step that changes at most the numbers in the directories. *)
LEMMA RoomSame ==
    ASSUME WalkInv, AllDone, UNCHANGED <<tree, coll, opts, BSIZE_FOR>>,
           \A q \in DOMAIN dirinfo : DOMAIN dirinfo'[q] = DOMAIN dirinfo[q],
           NEW p \in 1 .. Len(coll)
    PROVE  RoomFor(p)' = RoomFor(p) /\ (NeedsBlockify(p)' <=> NeedsBlockify(p))
<1>1. Bytesize(p)' = Bytesize(p)
  <2>1. CASE IsDir(coll[p].node)
    <3>1. calc_encoded_directory_size(dirinfo'[p]) = calc_encoded_directory_size(dirinfo[p])
      BY <2>1, WholeTree, SameNamesSameSize
    <3> QED
      BY <2>1, <3>1 DEF Bytesize, IsDir
  <2>2. CASE ~IsDir(coll[p].node)
    BY <2>2 DEF Bytesize, IsDir
  <2> QED
    BY <2>1, <2>2
<1>2. CalcBSIZEfor(coll[p].name)' = CalcBSIZEfor(coll[p].name)
  BY DEF CalcBSIZEfor
<1> QED
  BY <1>1, <1>2 DEF RoomFor, NeedsBlockify

(* A number is written over another one. *)
LEMMA GiveNumberRight ==
    ASSUME WalkInv, AllDone, NEW p \in 1 .. Len(coll), NEW ino, GiveNumber(p, ino), UNCHANGED coll
    PROVE  /\ DOMAIN dirinfo' = DOMAIN dirinfo
           /\ \A q \in DOMAIN dirinfo : DOMAIN dirinfo'[q] = DOMAIN dirinfo[q]
           /\ \A q \in 1 .. Len(coll) :
                 Ino(q)' = IF coll[q].parent = coll[p].parent /\ coll[q].name = coll[p].name THEN ino
                           ELSE Ino(q)
<1>1. PICK d, x : d = coll[p].parent /\ x = coll[p].name
  OBVIOUS
<1>2. d \in DOMAIN dirinfo /\ x \in DOMAIN dirinfo[d]
  BY <1>1, WholeTree
<1>3. dirinfo' = [dirinfo EXCEPT ![d][x] = ino]
  BY <1>1 DEF GiveNumber
<1>4. dirinfo' = [dirinfo EXCEPT ![d] = [dirinfo[d] EXCEPT ![x] = ino]]
  BY <1>2, <1>3
<1>5. /\ DOMAIN dirinfo' = DOMAIN dirinfo /\ \A q \in DOMAIN dirinfo : q # d => dirinfo'[q] = dirinfo[q]
      /\ dirinfo'[d] = [dirinfo[d] EXCEPT ![x] = ino]
  BY <1>2, <1>4
<1>6. /\ DOMAIN dirinfo'[d] = DOMAIN dirinfo[d] /\ dirinfo'[d][x] = ino
      /\ \A y \in DOMAIN dirinfo[d] : y # x => dirinfo'[d][y] = dirinfo[d][y]
  BY <1>2, <1>5
<1>7. ASSUME NEW q \in 1 .. Len(coll)
      PROVE  Ino(q)' = IF coll[q].parent = d /\ coll[q].name = x THEN ino ELSE Ino(q)
  <2>1. coll[q].parent \in DOMAIN dirinfo /\ coll[q].name \in DOMAIN dirinfo[coll[q].parent]
    BY WholeTree
  <2>2. Ino(q)' = dirinfo'[coll[q].parent][coll[q].name] /\ Ino(q) = dirinfo[coll[q].parent][coll[q].name]
    BY DEF Ino
  <2>3. CASE coll[q].parent = d /\ coll[q].name = x
    BY <2>2, <2>3, <1>6
  <2>4. CASE coll[q].parent = d /\ coll[q].name # x
    BY <2>1, <2>2, <2>4, <1>6
  <2>5. CASE coll[q].parent # d
    BY <2>1, <2>2, <2>5, <1>5
  <2> QED
    BY <2>3, <2>4, <2>5
<1> QED
  BY <1>1, <1>5, <1>6, <1>7

(* An entry is known by its directory and its name. *)
LEMMA SameNameSameNode ==
    ASSUME WalkInv, AllDone, NEW p \in 1 .. Len(coll), NEW q \in 1 .. Len(coll),
           coll[q].parent = coll[p].parent, coll[q].name = coll[p].name
    PROVE  coll[q].node = coll[p].node
BY WholeTree

LEMMA NumberHardlinkKeeps == ASSUME LayoutInv, NumberHardlink PROVE LayoutInv'
<1>1. /\ phase = "number" /\ at <= Len(coll) /\ IsHardlink(at) /\ at' = at + 1
      /\ GiveNumber(at, hardlink_map[coll[at].node])
      /\ UNCHANGED <<tree, BSIZE_FOR, phase, opts, coll, stage, range, inotab_size, hardlink_map, inotab>>
  BY DEF NumberHardlink, writeVars
<1>2. WalkInv /\ AllDone /\ NumbersRight /\ SettingsRight /\ inotab = <<>>
  BY <1>1 DEF LayoutInv
<1>3. at \in 1 .. Len(coll) /\ Len(coll) \in Nat
  BY <1>1, <1>2 DEF NumbersRight, WalkInv, PlacesRight
<1>4. /\ DOMAIN dirinfo' = DOMAIN dirinfo
      /\ \A q \in DOMAIN dirinfo : DOMAIN dirinfo'[q] = DOMAIN dirinfo[q]
      /\ \A q \in 1 .. Len(coll) :
            Ino(q)' = IF coll[q].parent = coll[at].parent /\ coll[q].name = coll[at].name
                      THEN hardlink_map[coll[at].node] ELSE Ino(q)
  BY <1>1, <1>2, <1>3, GiveNumberRight
<1>5. WalkInv' /\ AllDone' /\ SettingsRight'
  BY <1>1, <1>2, <1>4, WalkSame DEF AllDone, SettingsRight
<1>6. PICK i \in 1 .. at - 1 : coll[i].node = coll[at].node
  BY <1>1, <1>2 DEF IsHardlink, NumbersRight
<1>7. \A q \in 1 .. Len(coll) : RoomFor(q)' = RoomFor(q) /\ (NeedsBlockify(q)' <=> NeedsBlockify(q)) /\ Off(q)' = Off(q)
  BY <1>1, <1>2, <1>4, RoomSame DEF Off
<1>8. ~NeedsBlockify(at)
  BY <1>6 DEF NeedsBlockify
<1>9. 1 .. at' - 1 = 1 .. at - 1 \cup {at} /\ at' \in 1 .. Len(coll)' + 1 /\ 1 .. at - 1 \subseteq 1 .. Len(coll)
  BY <1>1, <1>3
<1>10. NumbersRight'
  <2>1. DOMAIN hardlink_map' = {coll'[q].node : q \in 1 .. at' - 1}
    <3>1. DOMAIN hardlink_map = {coll[q].node : q \in 1 .. at - 1}
      BY <1>2 DEF NumbersRight
    <3>2. {coll[q].node : q \in 1 .. at - 1} = {coll[q].node : q \in 1 .. at - 1 \cup {at}}
      BY <1>6
    <3> QED
      BY <3>1, <3>2, <1>1, <1>9
  <2>2. ASSUME NEW q \in 1 .. at' - 1
        PROVE  Ino(q)' = hardlink_map'[coll'[q].node]
    <3>1. q \in 1 .. Len(coll)
      BY <1>3, <1>9
    <3>2. CASE q = at
      BY <3>1, <3>2, <1>1, <1>4
    <3>3. CASE q # at
      <4>1. Ino(q) = hardlink_map[coll[q].node]
        BY <3>3, <1>2, <1>9 DEF NumbersRight
      <4>2. coll[q].parent = coll[at].parent /\ coll[q].name = coll[at].name => coll[q].node = coll[at].node
        BY <3>1, <1>2, <1>3, SameNameSameNode
      <4> QED
        BY <3>1, <4>1, <4>2, <1>1, <1>4
    <3> QED
      BY <3>2, <3>3
  <2>3. \A p \in 1 .. at' - 1 : Off(p)' \in Nat
    <3>1. Off(at) = Off(i)
      BY <1>6 DEF Off
    <3>2. \A p \in 1 .. at - 1 : Off(p) \in Nat
      BY <1>2 DEF NumbersRight
    <3> QED
      BY <3>1, <3>2, <1>3, <1>6, <1>7, <1>9
  <2>4. ASSUME NEW p \in 1 .. at' - 1, NeedsBlockify(p)'
        PROVE  /\ Off(p)' + RoomFor(p)' <= inotab_size'
               /\ \A q \in 1 .. p - 1 : NeedsBlockify(q)' => Off(q)' + RoomFor(q)' <= Off(p)'
    <3>1. p \in 1 .. at - 1 /\ NeedsBlockify(p) /\ p \in 1 .. Len(coll)
      BY <2>4, <1>3, <1>7, <1>8, <1>9
    <3>2. /\ Off(p) + RoomFor(p) <= inotab_size
          /\ \A q \in 1 .. p - 1 : NeedsBlockify(q) => Off(q) + RoomFor(q) <= Off(p)
      BY <3>1, <1>2 DEF NumbersRight
    <3>3. \A q \in 1 .. p - 1 : q \in 1 .. Len(coll)
      BY <3>1
    <3> QED
      BY <3>1, <3>2, <3>3, <1>1, <1>7
  <2> QED
    BY <2>1, <2>2, <2>3, <2>4, <1>1, <1>2, <1>9 DEF NumbersRight
<1> QED
  BY <1>1, <1>2, <1>5, <1>10 DEF LayoutInv

LEMMA FirstFreeIsEnd ==
    ASSUME NEW k \in Nat, NEW n \in Nat
    PROVE  /\ get_first_free_inode_number(4 * k) \in Nat
           /\ GetInodeOffset(get_first_free_inode_number(4 * k)) = 4 * k
           /\ \E m \in Nat : RoundUp4(4 * k + n) = 4 * m
           /\ RoundUp4(4 * k + n) >= 4 * k + n
<1>1. (4 * k + 3) \div 4 = k
  OBVIOUS
<1>2. (4 * k + n + 3) \div 4 \in Nat /\ ((4 * k + n + 3) \div 4) * 4 >= 4 * k + n
  OBVIOUS
<1> QED
  BY <1>1, <1>2 DEF get_first_free_inode_number, GetInodeOffset, RoundUp4

LEMMA NumberNewKeeps == ASSUME LayoutInv, NumberNew PROVE LayoutInv'
<1>1. PICK ino, node :
         /\ ino = get_first_free_inode_number(inotab_size) /\ node = coll[at].node
         /\ GiveNumber(at, ino) /\ hardlink_map' = Put(hardlink_map, node, ino)
  BY DEF NumberNew
<1>2. /\ phase = "number" /\ at <= Len(coll) /\ node \notin DOMAIN hardlink_map /\ at' = at + 1
      /\ inotab_size' = RoundUp4(inotab_size + RoomFor(at))
      /\ UNCHANGED <<tree, BSIZE_FOR, phase, opts, coll, stage, range, inotab>>
  BY <1>1 DEF NumberNew, IsHardlink, writeVars
<1>3. WalkInv /\ AllDone /\ NumbersRight /\ SettingsRight /\ inotab = <<>>
  BY <1>2 DEF LayoutInv
<1>4. at \in 1 .. Len(coll) /\ Len(coll) \in Nat
  BY <1>2, <1>3 DEF NumbersRight, WalkInv, PlacesRight
<1>5. /\ DOMAIN dirinfo' = DOMAIN dirinfo
      /\ \A q \in DOMAIN dirinfo : DOMAIN dirinfo'[q] = DOMAIN dirinfo[q]
      /\ \A q \in 1 .. Len(coll) :
            Ino(q)' = IF coll[q].parent = coll[at].parent /\ coll[q].name = coll[at].name
                      THEN ino ELSE Ino(q)
  BY <1>1, <1>2, <1>3, <1>4, GiveNumberRight
<1>6. WalkInv' /\ AllDone' /\ SettingsRight'
  BY <1>2, <1>3, <1>5, WalkSame DEF AllDone, SettingsRight
<1>7. /\ DOMAIN hardlink_map' = DOMAIN hardlink_map \cup {node} /\ hardlink_map'[node] = ino
      /\ \A n \in DOMAIN hardlink_map : hardlink_map'[n] = hardlink_map[n]
  BY <1>1, <1>2 DEF Put
<1>8. DOMAIN hardlink_map = {coll[q].node : q \in 1 .. at - 1}
  BY <1>3 DEF NumbersRight
<1>9. /\ 1 .. at' - 1 = 1 .. at - 1 \cup {at} /\ at' \in 1 .. Len(coll)' + 1 /\ 1 .. at - 1 \subseteq 1 .. Len(coll)
      /\ at \notin 1 .. at - 1
  BY <1>2, <1>4
<1>10. \A q \in 1 .. Len(coll) : RoomFor(q)' = RoomFor(q) /\ (NeedsBlockify(q)' <=> NeedsBlockify(q)) /\ RoomFor(q) \in Nat
  BY <1>2, <1>3, <1>5, RoomSame, RoomRight
<1>11. PICK k \in Nat, room \in Nat : inotab_size = 4 * k /\ room = RoomFor(at)
  BY <1>3, <1>4, <1>10 DEF NumbersRight
<1>12. /\ GetInodeOffset(ino) = inotab_size /\ inotab_size' >= inotab_size + RoomFor(at)
       /\ inotab_size \in Nat /\ inotab_size' \in Nat
       /\ \E m \in Nat : inotab_size' = 4 * m
  <2>1. /\ GetInodeOffset(ino) = 4 * k /\ \E m \in Nat : RoundUp4(4 * k + room) = 4 * m
        /\ RoundUp4(4 * k + room) >= 4 * k + room
    BY <1>1, <1>11, FirstFreeIsEnd
  <2>2. inotab_size' = RoundUp4(4 * k + room)
    BY <1>2, <1>11
  <2>3. PICK m \in Nat : inotab_size' = 4 * m
    BY <2>1, <2>2
  <2> QED
    BY <2>1, <2>2, <2>3, <1>11
<1>13. \A q \in 1 .. at - 1 : Off(q)' = Off(q)
  BY <1>1, <1>2, <1>7, <1>8 DEF Off
<1>14. \A q : q = at => Off(q)' = inotab_size
  BY <1>1, <1>2, <1>7, <1>12 DEF Off
<1>15. NumbersRight'
  <2>1. DOMAIN hardlink_map' = {coll'[q].node : q \in 1 .. at' - 1}
    <3>1. {coll[q].node : q \in 1 .. at - 1 \cup {at}} = {coll[q].node : q \in 1 .. at - 1} \cup {node}
      BY <1>1
    <3>2. {coll'[q].node : q \in 1 .. at' - 1} = {coll[q].node : q \in 1 .. at - 1 \cup {at}}
      BY <1>2, <1>9
    <3> QED
      BY <3>1, <3>2, <1>7, <1>8
  <2>2. ASSUME NEW q \in 1 .. at' - 1
        PROVE  Ino(q)' = hardlink_map'[coll'[q].node]
    <3>1. q \in 1 .. Len(coll)
      BY <1>4, <1>9
    <3>2. CASE q = at
      BY <3>1, <3>2, <1>1, <1>2, <1>5, <1>7
    <3>3. CASE q # at
      <4>1. Ino(q) = hardlink_map[coll[q].node] /\ coll[q].node \in DOMAIN hardlink_map
        BY <3>3, <1>3, <1>8, <1>9 DEF NumbersRight
      <4>2. ~(coll[q].parent = coll[at].parent /\ coll[q].name = coll[at].name)
        BY <3>1, <4>1, <1>1, <1>2, <1>3, <1>4, SameNameSameNode
      <4> QED
        BY <3>1, <4>1, <4>2, <1>2, <1>5, <1>7
    <3> QED
      BY <3>2, <3>3
  <2>3. \A p \in 1 .. at' - 1 : Off(p)' \in Nat
    <3>1. \A p \in 1 .. at - 1 : Off(p) \in Nat
      BY <1>3 DEF NumbersRight
    <3> QED
      BY <3>1, <1>9, <1>12, <1>13, <1>14
  <2>4. ASSUME NEW p \in 1 .. at' - 1, NeedsBlockify(p)'
        PROVE  /\ Off(p)' + RoomFor(p)' <= inotab_size'
               /\ \A q \in 1 .. p - 1 : NeedsBlockify(q)' => Off(q)' + RoomFor(q)' <= Off(p)'
    <3>1. CASE p = at
      <4>1. ASSUME NEW q \in 1 .. p - 1, NeedsBlockify(q)'
            PROVE  Off(q)' + RoomFor(q)' <= Off(p)'
        <5>1. q \in 1 .. at - 1 /\ q \in 1 .. Len(coll) /\ NeedsBlockify(q)
          BY <3>1, <4>1, <1>9, <1>10
        <5>2. Off(q) + RoomFor(q) <= inotab_size
          BY <5>1, <1>3 DEF NumbersRight
        <5> QED
          BY <5>1, <5>2, <3>1, <1>10, <1>13, <1>14
      <4>2. Off(p)' + RoomFor(p)' <= inotab_size'
        BY <3>1, <1>4, <1>10, <1>12, <1>14
      <4> QED
        BY <4>1, <4>2
    <3>2. CASE p # at
      <4>1. p \in 1 .. at - 1 /\ NeedsBlockify(p) /\ p \in 1 .. Len(coll)
        BY <2>4, <3>2, <1>9, <1>10
      <4>2. /\ Off(p) + RoomFor(p) <= inotab_size
            /\ \A q \in 1 .. p - 1 : NeedsBlockify(q) => Off(q) + RoomFor(q) <= Off(p)
        BY <4>1, <1>3 DEF NumbersRight
      <4>3. \A q \in 1 .. p - 1 : q \in 1 .. Len(coll) /\ q \in 1 .. at - 1
        BY <4>1, <1>4
      <4>4. inotab_size <= inotab_size' /\ Off(p) \in Nat /\ RoomFor(p) \in Nat
        BY <4>1, <1>3, <1>4, <1>10, <1>12 DEF NumbersRight
      <4> QED
        BY <4>1, <4>2, <4>3, <4>4, <1>10, <1>12, <1>13
    <3> QED
      BY <3>1, <3>2
  <2> QED
    BY <2>1, <2>2, <2>3, <2>4, <1>2, <1>9, <1>12 DEF NumbersRight
<1> QED
  BY <1>2, <1>3, <1>6, <1>15 DEF LayoutInv

(* The inodes take the numbers, and no more than their room. *)
LEMMA OffIs ==
    ASSUME NumbersRight, NEW p \in 1 .. at - 1
    PROVE  GetInodeOffset(Ino(p)) = Off(p)
BY DEF NumbersRight, Off

LEMMA NewInodeFits ==
    ASSUME WalkInv, AllDone, SettingsRight, NEW p \in 1 .. Len(coll)
    PROVE  FitsRoom(put_inode(NewInode(p), opts), p)
<1> DEFINE n   == CalcSizeInBlocks(Bytesize(p), CalcBSIZEfor(coll[p].name))
           raw == put_inode(NewInode(p), opts)
           len == IF HasData(coll[p].node) THEN n ELSE 0
<1>1. /\ n \in Nat /\ RoomFor(p) = INODE_SIZE_BYTES(opts, n) /\ RoomFor(p) \in Nat
      /\ RoomFor(p) >= INODE_SIZE_BYTES(opts, 0)
  BY RoomRight DEF RoomFor
<1>2. NewInode(p).blocklist = IF HasData(coll[p].node) THEN [k \in 1 .. n |-> 0] ELSE <<>>
  BY DEF NewInode
<1>3. raw.blocks = [i \in DOMAIN NewInode(p).blocklist |-> put_n(NewInode(p).blocklist[i], opts.numsize)]
      /\ "blocks" \in DOMAIN raw
  BY DEF put_inode
<1> HIDE DEF n, raw
<1>4. DOMAIN NewInode(p).blocklist = 1 .. len /\ len \in Nat
  BY <1>1, <1>2
<1> DEFINE f(i) == put_n(NewInode(p).blocklist[i], opts.numsize)
           S    == {f(i) : i \in 1 .. len}
<1>5. raw.blocks = [i \in 1 .. len |-> f(i)]
  BY <1>3, <1>4
<1> HIDE DEF f, len
<1>6. raw.blocks \in Seq(S) /\ Len(raw.blocks) = len
  BY <1>4, <1>5
<1>7. INODE_SIZE_BYTES(opts, len) <= RoomFor(p)
  <2>1. CASE HasData(coll[p].node)
    BY <2>1, <1>1 DEF len
  <2>2. CASE ~HasData(coll[p].node)
    BY <2>2, <1>1 DEF len
  <2> QED
    BY <2>1, <2>2
<1> HIDE DEF S
<1> QED
  BY <1>3, <1>6, <1>7 DEF FitsRoom, raw

layoutVars == <<tree, BSIZE_FOR, opts, coll, stage, range, dirinfo, at, inotab_size, hardlink_map>>

(* A step that touches none of what the layout is made of. *)
LEMMA LayoutSame ==
    ASSUME WalkInv, UNCHANGED layoutVars
    PROVE  /\ WalkInv' /\ (AllDone' <=> AllDone) /\ (SettingsRight' <=> SettingsRight)
           /\ NumbersRight' <=> NumbersRight
           /\ \A p : (NeedsBlockify(p)' <=> NeedsBlockify(p)) /\ Off(p)' = Off(p) /\ RoomFor(p)' = RoomFor(p)
           /\ \A raw, p : FitsRoom(raw, p)' <=> FitsRoom(raw, p)
<1> USE DEF layoutVars
<1>1. WalkInv'
  BY WalkSame
<1>2. (AllDone' <=> AllDone) /\ (SettingsRight' <=> SettingsRight)
  BY DEF AllDone, SettingsRight
<1>3. \A p : /\ (NeedsBlockify(p)' <=> NeedsBlockify(p)) /\ Off(p)' = Off(p) /\ RoomFor(p)' = RoomFor(p)
             /\ Ino(p)' = Ino(p)
  <2> TAKE p
  <2>1. (NeedsBlockify(p)' <=> NeedsBlockify(p)) /\ Off(p)' = Off(p) /\ Ino(p)' = Ino(p)
    BY DEF NeedsBlockify, Off, Ino
  <2>2. RoomFor(p)' = RoomFor(p)
    BY DEF RoomFor, Bytesize, CalcBSIZEfor, IsDir
  <2> QED
    BY <2>1, <2>2
<1>4. NumbersRight' <=> NumbersRight
  BY <1>3 DEF NumbersRight
<1>5. \A raw, p : FitsRoom(raw, p)' <=> FitsRoom(raw, p)
  BY <1>3 DEF FitsRoom
<1> QED
  BY <1>1, <1>2, <1>3, <1>4, <1>5

LEMMA CreateInodeKeeps == ASSUME LayoutInv, NEW p \in DOMAIN coll, CreateInode(p) PROVE LayoutInv'
<1>1. /\ phase = "create" /\ phase' = phase /\ NeedsBlockify(p) /\ UNCHANGED layoutVars
      /\ inotab' = Put(inotab, GetInodeOffset(Ino(p)), put_inode(NewInode(p), opts))
  BY DEF CreateInode, layoutVars, walkVars, numberVars
<1>2. WalkInv /\ AllDone /\ SettingsRight /\ NumbersRight /\ at = Len(coll) + 1 /\ InodesRight
  BY <1>1 DEF LayoutInv
<1>3. p \in 1 .. Len(coll) /\ Len(coll) \in Nat
  BY <1>2 DEF WalkInv, PlacesRight
<1>4. GetInodeOffset(Ino(p)) = Off(p)
  BY <1>2, <1>3, OffIs
<1>5. FitsRoom(put_inode(NewInode(p), opts), p)
  BY <1>2, <1>3, NewInodeFits
<1>6. /\ DOMAIN inotab' = DOMAIN inotab \cup {Off(p)} /\ inotab'[Off(p)] = put_inode(NewInode(p), opts)
      /\ \A o \in DOMAIN inotab : o # Off(p) => inotab'[o] = inotab[o]
  BY <1>1, <1>4 DEF Put
<1>7. /\ WalkInv' /\ AllDone' /\ SettingsRight' /\ NumbersRight'
      /\ \A q : (NeedsBlockify(q)' <=> NeedsBlockify(q)) /\ Off(q)' = Off(q)
      /\ \A raw, q : FitsRoom(raw, q)' <=> FitsRoom(raw, q)
  BY <1>1, <1>2, LayoutSame
<1>8. ASSUME NEW o \in DOMAIN inotab'
      PROVE  \E q \in 1 .. Len(coll) : NeedsBlockify(q) /\ o = Off(q) /\ FitsRoom(inotab'[o], q)
  BY <1>1, <1>2, <1>3, <1>5, <1>6 DEF InodesRight
<1>9. InodesRight'
  <2>1. coll' = coll
    BY <1>1 DEF layoutVars
  <2> QED
    BY <2>1, <1>7, <1>8 DEF InodesRight
<1> QED
  BY <1>1, <1>2, <1>7, <1>9 DEF LayoutInv, layoutVars

(* The links and the block numbers are written over what was there. *)
LEMMA LinkedFits ==
    ASSUME NEW raw, NEW p, NEW times, FitsRoom(raw, p)
    PROVE  FitsRoom(increment_inode_linkcount(raw, times), p)
<1> DEFINE new == [raw EXCEPT !.rdev_links = @ + times]
<1>1. "blocks" \in DOMAIN new /\ new.blocks = raw.blocks
  BY DEF FitsRoom
<1>2. FitsRoom(new, p)
  BY <1>1 DEF FitsRoom
<1> QED
  BY <1>2 DEF increment_inode_linkcount

LEMMA NumberedFits ==
    ASSUME NEW raw, NEW p, NEW data, NEW known, FitsRoom(raw, p)
    PROVE  FitsRoom(WithNumbers(raw, data, known, opts), p)
<1> DEFINE f(k) == put_n(NumberOf(known, <<data[1], data[2], k>>), opts.numsize)
           list == [k \in DOMAIN raw.blocks |-> f(k)]
           new  == [raw EXCEPT !.blocks = list]
           n    == Len(raw.blocks)
           S    == {f(k) : k \in 1 .. n}
<1>1. n \in Nat /\ DOMAIN raw.blocks = 1 .. n
  BY DEF FitsRoom
<1> HIDE DEF f, n
<1>2. list \in Seq(S) /\ Len(list) = n
  BY <1>1
<1>3. "blocks" \in DOMAIN new /\ new.blocks = list
  BY DEF FitsRoom
<1> HIDE DEF S, list, new
<1>4. FitsRoom(new, p)
  BY <1>2, <1>3 DEF FitsRoom, n
<1>5. new = WithNumbers(raw, data, known, opts)
  BY DEF new, list, f, WithNumbers
<1> QED
  BY <1>4, <1>5

LEMMA PatchLinksKeeps == ASSUME LayoutInv, PatchLinks PROVE LayoutInv'
<1> DEFINE times(o) == Cardinality({p \in DOMAIN coll : AddsLink(p) /\ GetInodeOffset(Ino(p)) = o})
<1>1. /\ phase = "create" /\ phase' = "flush" /\ UNCHANGED layoutVars
      /\ inotab' = [o \in DOMAIN inotab |-> increment_inode_linkcount(inotab[o], times(o))]
  BY DEF PatchLinks, layoutVars, walkVars, numberVars
<1> HIDE DEF times
<1>2. WalkInv /\ AllDone /\ SettingsRight /\ NumbersRight /\ at = Len(coll) + 1 /\ InodesRight
  BY <1>1 DEF LayoutInv
<1>3. /\ WalkInv' /\ AllDone' /\ SettingsRight' /\ NumbersRight'
      /\ \A q : (NeedsBlockify(q)' <=> NeedsBlockify(q)) /\ Off(q)' = Off(q)
      /\ \A raw, q : FitsRoom(raw, q)' <=> FitsRoom(raw, q)
  BY <1>1, <1>2, LayoutSame
<1>4. ASSUME NEW o \in DOMAIN inotab'
      PROVE  \E q \in 1 .. Len(coll) : NeedsBlockify(q) /\ o = Off(q) /\ FitsRoom(inotab'[o], q)
  <2>1. o \in DOMAIN inotab /\ inotab'[o] = increment_inode_linkcount(inotab[o], times(o))
    BY <1>1
  <2>2. PICK q \in 1 .. Len(coll) : NeedsBlockify(q) /\ o = Off(q) /\ FitsRoom(inotab[o], q)
    BY <2>1, <1>2 DEF InodesRight
  <2> QED
    BY <2>1, <2>2, LinkedFits
<1>5. InodesRight'
  <2>1. coll' = coll
    BY <1>1 DEF layoutVars
  <2> QED
    BY <2>1, <1>3, <1>4 DEF InodesRight
<1> QED
  BY <1>1, <1>2, <1>3, <1>5 DEF LayoutInv, layoutVars

LEMMA FlushFilesKeeps == ASSUME LayoutInv, FlushFiles PROVE LayoutInv'
<1> DEFINE ps(o) == {p \in sched : GetInodeOffset(Ino(p)) = o}
           data(o) == DataOf(Min(ps(o)))
<1>1. /\ phase = "flush" /\ phase' = "inotab" /\ UNCHANGED layoutVars
      /\ inotab' = [o \in DOMAIN inotab |-> IF ps(o) = {} THEN inotab[o]
                                            ELSE WithNumbers(inotab[o], data(o), blocks', opts)]
  BY DEF FlushFiles, layoutVars, walkVars, numberVars
<1> HIDE DEF ps, data
<1>2. WalkInv /\ AllDone /\ SettingsRight /\ NumbersRight /\ at = Len(coll) + 1 /\ InodesRight
  BY <1>1 DEF LayoutInv
<1>3. /\ WalkInv' /\ AllDone' /\ SettingsRight' /\ NumbersRight'
      /\ \A q : (NeedsBlockify(q)' <=> NeedsBlockify(q)) /\ Off(q)' = Off(q)
      /\ \A raw, q : FitsRoom(raw, q)' <=> FitsRoom(raw, q)
  BY <1>1, <1>2, LayoutSame
<1>4. ASSUME NEW o \in DOMAIN inotab'
      PROVE  \E q \in 1 .. Len(coll) : NeedsBlockify(q) /\ o = Off(q) /\ FitsRoom(inotab'[o], q)
  <2>1. o \in DOMAIN inotab /\ inotab'[o] = IF ps(o) = {} THEN inotab[o]
                                            ELSE WithNumbers(inotab[o], data(o), blocks', opts)
    BY <1>1
  <2>2. PICK q \in 1 .. Len(coll) : NeedsBlockify(q) /\ o = Off(q) /\ FitsRoom(inotab[o], q)
    BY <2>1, <1>2 DEF InodesRight
  <2>3. FitsRoom(WithNumbers(inotab[o], data(o), blocks', opts), q)
    BY <2>2, NumberedFits
  <2> QED
    BY <2>1, <2>2, <2>3
<1>5. InodesRight'
  <2>1. coll' = coll
    BY <1>1 DEF layoutVars
  <2> QED
    BY <2>1, <1>3, <1>4 DEF InodesRight
<1> QED
  BY <1>1, <1>2, <1>3, <1>5 DEF LayoutInv, layoutVars
-----------------------------------------------------------------------------
(* The phases.                                                               *)

LEMMA LayoutStart == MakeInit => LayoutInv
<1> SUFFICES ASSUME MakeInit PROVE LayoutInv
  OBVIOUS
<1>1. phase = "estimate" /\ at = 1 /\ inotab_size = 0 /\ hardlink_map = <<>> /\ inotab = <<>>
  BY DEF MakeInit
<1>2. WalkInv
  BY WalkStart
<1>3. SettingsRight
  <2>1. PICK c \in UserChoices :
           /\ BSIZE_FOR = c.bsize_for
           /\ opts = [numsize |-> c.numsize, packed |-> FALSE, variable |-> c.bsize_for # <<>>]
    BY DEF MakeInit
  <2>2. c.numsize \in {0, 2, 3, 4} /\ c.bsize_for \in SizePatterns
    BY MakeFsAssumption DEF SizePatterns
  <2> QED
    BY <2>1, <2>2 DEF SettingsRight, Settings
<1> QED
  BY <1>1, <1>2, <1>3 DEF LayoutInv

LEMMA ChoiceKeeps == ASSUME LayoutInv, CheckSomeDefaultOptions PROVE LayoutInv'
<1>1. /\ phase = "estimate" /\ phase' = "walk"
      /\ opts' = [opts EXCEPT !.numsize = IF @ = 0 THEN ChooseWidth(estimate) ELSE @]
      /\ UNCHANGED <<tree, BSIZE_FOR, coll, stage, range, dirinfo, at, inotab_size, hardlink_map, inotab>>
  BY DEF CheckSomeDefaultOptions, walkVars, numberVars, writeVars
<1>2. WalkInv /\ SettingsRight /\ at = 1 /\ inotab_size = 0 /\ hardlink_map = <<>> /\ inotab = <<>>
  BY <1>1 DEF LayoutInv
<1>3. WalkInv'
  BY <1>1, <1>2, WalkSame
<1>4. SettingsRight'
  <2>1. ChooseWidth(estimate) \in {2, 3, 4}
    BY DEF ChooseWidth
  <2> QED
    BY <2>1, <1>1, <1>2 DEF SettingsRight, Settings
<1> QED
  BY <1>1, <1>2, <1>3, <1>4 DEF LayoutInv

LEMMA EndWalkKeeps == ASSUME LayoutInv, EndWalk PROVE LayoutInv'
<1>1. /\ phase = "walk" /\ phase' = "number" /\ AllDone /\ UNCHANGED layoutVars /\ UNCHANGED inotab
  BY DEF EndWalk, AllDone, layoutVars, walkVars, numberVars, writeVars
<1>2. WalkInv /\ SettingsRight /\ at = 1 /\ inotab_size = 0 /\ hardlink_map = <<>> /\ inotab = <<>>
  BY <1>1 DEF LayoutInv
<1>3. NumbersRight
  <2>1. at \in 1 .. Len(coll) + 1
    BY <1>2 DEF WalkInv, PlacesRight
  <2>2. 0 \in Nat /\ inotab_size = 4 * 0 /\ 1 .. at - 1 = {}
    BY <1>2
  <2>3. DOMAIN hardlink_map = {coll[q].node : q \in 1 .. at - 1}
    BY <2>2, <1>2
  <2> QED
    BY <2>1, <2>2, <2>3 DEF NumbersRight
<1>4. WalkInv' /\ AllDone' /\ SettingsRight' /\ NumbersRight'
  BY <1>1, <1>2, <1>3, LayoutSame
<1> QED
  BY <1>1, <1>2, <1>4 DEF LayoutInv

LEMMA EndNumberKeeps == ASSUME LayoutInv, EndNumber PROVE LayoutInv'
<1>1. /\ phase = "number" /\ phase' = "create" /\ at > Len(coll) /\ UNCHANGED layoutVars /\ UNCHANGED inotab
  BY DEF EndNumber, layoutVars, walkVars, numberVars, writeVars
<1>2. WalkInv /\ AllDone /\ SettingsRight /\ NumbersRight /\ inotab = <<>>
  BY <1>1 DEF LayoutInv
<1>3. at = Len(coll) + 1
  BY <1>1, <1>2 DEF NumbersRight, WalkInv, PlacesRight
<1>4. WalkInv' /\ AllDone' /\ SettingsRight' /\ NumbersRight'
  BY <1>1, <1>2, LayoutSame
<1>5. InodesRight'
  BY <1>1, <1>2 DEF InodesRight
<1> QED
  BY <1>1, <1>2, <1>3, <1>4, <1>5 DEF LayoutInv, layoutVars

(* The estimate, the image and all that comes after it. *)
LEMMA OthersKeep ==
    ASSUME LayoutInv, UNCHANGED layoutVars, UNCHANGED <<phase, inotab>>
    PROVE  LayoutInv'
<1>1. /\ WalkInv /\ WalkInv' /\ (AllDone' <=> AllDone) /\ (SettingsRight' <=> SettingsRight)
      /\ NumbersRight' <=> NumbersRight
      /\ \A q : (NeedsBlockify(q)' <=> NeedsBlockify(q)) /\ Off(q)' = Off(q)
      /\ \A raw, q : FitsRoom(raw, q)' <=> FitsRoom(raw, q)
  BY LayoutSame DEF LayoutInv
<1>2. InodesRight' <=> InodesRight
  BY <1>1 DEF InodesRight, layoutVars
<1> QED
  BY <1>1, <1>2 DEF LayoutInv, layoutVars

LEMMA WriteImageKeeps == ASSUME LayoutInv, WriteImage PROVE LayoutInv'
<1>1. phase' = "made" /\ UNCHANGED <<tree, coll, stage, range, dirinfo>>
  BY DEF WriteImage, walkVars
<1>2. WalkInv'
  BY <1>1, WalkSame DEF LayoutInv
<1> QED
  BY <1>1, <1>2 DEF LayoutInv

LEMMA WalkKeeps ==
    ASSUME LayoutInv, NEW p \in DOMAIN stage, Collect(p) \/ Sort(p) \/ Enter(p) \/ Insert(p)
    PROVE  LayoutInv'
<1>1. /\ phase = "walk"
      /\ UNCHANGED <<tree, BSIZE_FOR, phase, opts, at, inotab_size, hardlink_map, inotab>>
  BY DEF Collect, Sort, Enter, Insert, numberVars, writeVars
<1>2. WalkInv'
  BY CollectKeeps, SortKeeps, EnterKeeps, InsertKeeps DEF LayoutInv
<1> QED
  BY <1>1, <1>2 DEF LayoutInv, SettingsRight

LEMMA MakeKeeps == ASSUME LayoutInv, MakeNext PROVE LayoutInv'
<1>1. ASSUME NEW d \in todo, EstimateDir(d)
      PROVE  LayoutInv'
  <2>1. UNCHANGED layoutVars /\ UNCHANGED <<phase, inotab>>
    BY <1>1 DEF EstimateDir, layoutVars, walkVars, numberVars, writeVars
  <2> QED
    BY <2>1, OthersKeep
<1>2. CASE CheckSomeDefaultOptions
  BY <1>2, ChoiceKeeps
<1>3. ASSUME NEW p \in DOMAIN stage, Collect(p) \/ Sort(p) \/ Enter(p) \/ Insert(p)
      PROVE  LayoutInv'
  BY <1>3, WalkKeeps
<1>4. CASE EndWalk
  BY <1>4, EndWalkKeeps
<1>5. CASE NumberHardlink
  BY <1>5, NumberHardlinkKeeps
<1>6. CASE NumberNew
  BY <1>6, NumberNewKeeps
<1>7. CASE EndNumber
  BY <1>7, EndNumberKeeps
<1>8. ASSUME NEW p \in DOMAIN coll, CreateInode(p)
      PROVE  LayoutInv'
  BY <1>8, CreateInodeKeeps
<1>9. CASE PatchLinks
  BY <1>9, PatchLinksKeeps
<1>10. CASE FlushFiles
  BY <1>10, FlushFilesKeeps
<1>11. CASE WriteImage
  BY <1>11, WriteImageKeeps
<1> QED
  BY <1>1, <1>2, <1>3, <1>4, <1>5, <1>6, <1>7, <1>8, <1>9, <1>10, <1>11 DEF MakeNext

LEMMA LayoutKept == ASSUME LayoutInv, [Next]_vars PROVE LayoutInv'
<1>1. CASE Make
  BY <1>1, MakeKeeps DEF Make
<1>2. CASE UNCHANGED makeVars
  BY <1>2, OthersKeep DEF makeVars, layoutVars
<1>3. ASSUME NEW c \in Conversions, Cvcromfs(c)
      PROVE  LayoutInv'
  <2>1. UNCHANGED layoutVars /\ UNCHANGED <<phase, inotab>>
    BY <1>3 DEF Cvcromfs, layoutVars, walkVars, numberVars
  <2> QED
    BY <2>1, OthersKeep
<1>4. CASE GivenUp \/ UNCHANGED vars
  BY <1>2, <1>4 DEF GivenUp, vars
<1>5. CASE Initialize \/ SectionRootdir \/ SectionBlktab \/ SectionFblktab \/ EndSections
  <2>1. UNCHANGED makeVars
    BY <1>5 DEF Initialize, SectionRootdir, SectionBlktab, SectionFblktab, EndSections
  <2> QED
    BY <2>1, <1>2
<1>6. ASSUME NEW ino \in Inodes,
             \/ \E x \in AllNames : cromfs_lookup(ino, x)
             \/ cromfs_getattr(ino) \/ cromfs_read(ino)
             \/ \E w \in BOOLEAN : cromfs_open(ino, w)
             \/ \E h \in Handles : cromfs_opendir(h, ino)
      PROVE  LayoutInv'
  <2>1. UNCHANGED makeVars
    BY <1>6 DEF cromfs_lookup, cromfs_getattr, cromfs_read, cromfs_open, cromfs_opendir, Answer
  <2> QED
    BY <2>1, <1>2
<1>7. ASSUME NEW h \in Handles, (\E size \in ReaddirSizes : cromfs_readdir(h, size)) \/ releasedir(h)
      PROVE  LayoutInv'
  <2>1. UNCHANGED makeVars
    BY <1>7 DEF cromfs_readdir, releasedir, Answer
  <2> QED
    BY <2>1, <1>2
<1> QED
  BY <1>1, <1>3, <1>4, <1>5, <1>6, <1>7 DEF Next

-----------------------------------------------------------------------------
(* The theorem.                                                              *)

LEMMA RoomsApart ==
    ASSUME LayoutInv, phase \in {"create", "flush", "inotab"}
    PROVE  InodesDisjoint
<1> DEFINE Bytes(o) == o .. o + INODE_SIZE_BYTES(opts, Len(inotab[o].blocks)) - 1
<1>1. WalkInv /\ AllDone /\ SettingsRight /\ NumbersRight /\ at = Len(coll) + 1 /\ InodesRight
  BY DEF LayoutInv
<1>2. Len(coll) \in Nat /\ 1 .. at - 1 = 1 .. Len(coll) /\ inotab_size \in Nat
  BY <1>1 DEF WalkInv, PlacesRight, NumbersRight
<1>3. ASSUME NEW o \in DOMAIN inotab, NEW p \in 1 .. Len(coll), o = Off(p), FitsRoom(inotab[o], p)
      PROVE  Bytes(o) \subseteq Off(p) .. Off(p) + RoomFor(p) - 1
  <2>1. INODE_SIZE_BYTES(opts, Len(inotab[o].blocks)) <= RoomFor(p) /\ Len(inotab[o].blocks) \in Nat
    BY <1>3 DEF FitsRoom
  <2>2. opts.numsize \in Nat
    BY <1>1 DEF SettingsRight, Settings
  <2>3. opts.numsize * Len(inotab[o].blocks) \in Nat
    BY <2>1, <2>2
  <2>4. INODE_SIZE_BYTES(opts, Len(inotab[o].blocks)) \in Nat
    BY <2>3 DEF INODE_SIZE_BYTES, INODE_HEADER_SIZE
  <2>5. Off(p) \in Nat /\ RoomFor(p) \in Nat
    BY <1>1, <1>2, RoomRight DEF NumbersRight
  <2> QED
    BY <1>3, <2>1, <2>4, <2>5
<1> HIDE DEF Bytes
<1>4. ASSUME NEW o \in DOMAIN inotab
      PROVE  /\ Bytes(o) \subseteq 0 .. inotab_size - 1
             /\ \A q \in DOMAIN inotab \ {o} : Bytes(o) \cap Bytes(q) = {}
  <2>1. PICK p \in 1 .. Len(coll) : NeedsBlockify(p) /\ o = Off(p) /\ FitsRoom(inotab[o], p)
    BY <1>1 DEF InodesRight
  <2>2. Off(p) \in Nat /\ RoomFor(p) \in Nat /\ Off(p) + RoomFor(p) <= inotab_size
    BY <2>1, <1>1, <1>2, RoomRight DEF NumbersRight
  <2>3. Bytes(o) \subseteq Off(p) .. Off(p) + RoomFor(p) - 1
    BY <2>1, <1>3
  <2>4. ASSUME NEW q \in DOMAIN inotab \ {o}
        PROVE  Bytes(o) \cap Bytes(q) = {}
    <3>1. PICK r \in 1 .. Len(coll) : NeedsBlockify(r) /\ q = Off(r) /\ FitsRoom(inotab[q], r)
      BY <1>1 DEF InodesRight
    <3>2. Off(r) \in Nat /\ RoomFor(r) \in Nat
      BY <1>1, <1>2, RoomRight DEF NumbersRight
    <3>3. Bytes(q) \subseteq Off(r) .. Off(r) + RoomFor(r) - 1
      BY <3>1, <1>3
    <3>4. p # r
      BY <2>1, <3>1
    <3>5. CASE p < r
      <4>1. Off(p) + RoomFor(p) <= Off(r)
        BY <2>1, <3>1, <3>5, <1>1, <1>2 DEF NumbersRight
      <4> QED
        BY <4>1, <2>2, <2>3, <3>2, <3>3
    <3>6. CASE r < p
      <4>1. Off(r) + RoomFor(r) <= Off(p)
        BY <2>1, <3>1, <3>6, <1>1, <1>2 DEF NumbersRight
      <4> QED
        BY <4>1, <2>2, <2>3, <3>2, <3>3
    <3> QED
      BY <3>4, <3>5, <3>6
  <2> QED
    BY <2>2, <2>3, <2>4, <1>2
<1> QED
  BY <1>4 DEF InodesDisjoint, Bytes

LEMMA LayoutInvSound == ASSUME LayoutInv PROVE LayoutSound
<1>1. WalkComplete
  BY WholeTree DEF LayoutInv, WalkComplete
<1>2. InodesDisjoint
  BY RoomsApart DEF InodesDisjoint
<1> QED
  BY <1>1, <1>2 DEF LayoutSound

(* Whatever the order of the walk's tasks, each directory gets exactly the   *)
(* names that the host showed and no pattern excludes; and whatever the      *)
(* sizes, the links, the patterns and the width of the block numbers, the    *)
(* room that the numbering keeps for an inode is the room it is written in,  *)
(* apart from every other inode and within the table (mkcromfs.cc).          *)
THEOREM LayoutSafe == Spec => []LayoutSound
<1>1. Init => LayoutInv
  BY LayoutStart DEF Init
<1>2. LayoutInv /\ [Next]_vars => LayoutInv'
  BY LayoutKept
<1>3. LayoutInv => LayoutSound
  BY LayoutInvSound
<1> QED
  BY <1>1, <1>2, <1>3, PTL DEF Spec
=============================================================================
