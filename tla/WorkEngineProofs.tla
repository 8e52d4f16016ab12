-------------------------- MODULE WorkEngineProofs --------------------------
(***************************************************************************)
(* WorkEngine, for every number of threads, work units and calls: each unit *)
(* is done once, nobody works on after RunTasks has returned, and RunUntil  *)
(* finds the entry that holds the block.                                    *)
(***************************************************************************)
EXTENDS WorkEngine, FiniteSetTheorems, TLAPS

\* How many workers are at one of the places S.
Count(at, S) == Cardinality({w \in Worker : at[w] \in S})

\* One for a place that is counted.
In(x, S) == IF x \in S THEN 1 ELSE 0

Places == {"none", "init", "task", "busy", "relock", "done", "ended"}
Quiet == {"idle", "linear", "create", "until"}
Claimed == {"task", "busy"}
Looping == {"task", "busy", "relock"}

NumInit(at) == Count(at, {"init"})
NumDone(at) == Count(at, {"done"})
NumLooping(at) == Count(at, Looping)
NumStarted(at) == Count(at, Looping \cup {"done"})

(* Where the workers may be in each phase of RunTasks, and what the three   *)
(* counters of workerparam count in it.                                     *)
QuietPhase ==
    main \in Quiet =>
        /\ ~ params.init_ok /\ pending = {}
        /\ \A w \in Worker : place[w] = IF w <= threads THEN "init" ELSE "none"

RunPhase ==
    main \in {"inits", "done"} =>
        /\ ~ params.done_ok /\ pending = {}
        /\ params.init_ok = (main = "inits")
        /\ \A w \in Worker : place[w] \in Looping \cup {"init", "done"}
        /\ params.num_doneconfirm = 0
        /\ params.num_done = NumDone(place)
        /\ main = "inits" => params.num_inits = NumStarted(place)
        /\ main = "done" => \A w \in Worker : place[w] # "init"

ConfirmPhase ==
    main = "confirm" =>
        /\ ~ params.init_ok /\ params.done_ok /\ ~ params.cancelled
        /\ pending = {}
        /\ \A w \in Worker : place[w] \in {"init", "done"}
        /\ params.num_doneconfirm = NumInit(place)
        /\ params.work_index = params.num_totalworks

ClearPhase ==
    main \in {"clear", "join"} =>
        /\ ~ params.init_ok /\ params.done_ok /\ params.cancelled
        /\ ends >= 1 /\ (main = "join" => ends <= NumThreads)
        /\ pending \subseteq {ends} /\ (main = "clear" => pending = {})
        /\ \A w \in Worker :
            /\ place[w] # "none"
            /\ w < ends => place[w] = "ended"
            /\ place[w] = "ended" => /\ w < ends \/ (main = "join" /\ w = ends)
                                     /\ w \notin pending
        /\ params.num_done + NumLooping(place) <= NumThreads
        /\ params.num_doneconfirm + NumStarted(place) <= NumThreads

\* Who sleeps, and whose work asked to cancel.
Aside ==
    /\ main \notin Quiet => threads = NumThreads
    /\ \A w \in Worker : w \in asleep => place[w] \in {"init", "done"}
    /\ \A w \in Worker : cancelflag[w] => place[w] = "relock" /\ wanted

Phases == QuietPhase /\ RunPhase /\ ConfirmPhase /\ ClearPhase /\ Aside

(* The units of a call: which are handed out, and to whom.                  *)
UnitsType ==
    /\ \E n \in 0 .. MaxUnits : runs \in [0 .. n - 1 -> {0, 1}]
    /\ wanted \in BOOLEAN
    /\ main = "create" => \A i \in DOMAIN runs : runs[i] = 0
    /\ main = "until" => DOMAIN runs = {}
    /\ main = "idle" /\ ~ wanted => \A i \in DOMAIN runs : runs[i] = 1
    /\ main \notin Quiet => /\ DOMAIN runs = 0 .. params.num_totalworks - 1
                            /\ params.work_index <= params.num_totalworks
                            /\ params.cancelled => wanted

UnitsHanded ==
    main \notin Quiet =>
        /\ \A i \in DOMAIN runs : i >= params.work_index => runs[i] = 0
        /\ \A w \in Worker : place[w] \in Claimed =>
            /\ cur[w] < params.work_index /\ runs[cur[w]] = 0
            /\ \A v \in Worker \ {w} : place[v] \in Claimed => cur[v] # cur[w]

UnitsAccounted ==
    main \in {"inits", "done", "confirm"} =>
        \A i \in DOMAIN runs : i < params.work_index =>
            \/ runs[i] = 1
            \/ \E w \in Worker : place[w] \in Claimed /\ cur[w] = i

DoneForReason ==
    main \in {"inits", "done"} =>
        \A w \in Worker : place[w] = "done" =>
            params.work_index = params.num_totalworks \/ params.cancelled

Units == UnitsType /\ UnitsHanded /\ UnitsAccounted /\ DoneForReason

EngineInv == TypeOK /\ Phases /\ Units

(* The team of a RunUntil: who compares which entry, and who holds the lock. *)
TeamType ==
    /\ until \in [size : 0 .. NumThreads, entries : Seq(BOOLEAN), next : Nat \ {0},
                  found : BOOLEAN, which : Nat, holder : 0 .. NumThreads,
                  cancel : BOOLEAN,
                  at : [Worker -> {"out", "next", "test", "store", "return"}],
                  match : [Worker -> Nat]]
    /\ until.size = 0 => until.entries = <<>>

\* Members leave only at the end, with a match found or all entries taken.
MembersLeave ==
    /\ main # "until" => \A w \in Worker : until.at[w] = "out"
    /\ \A w \in Worker : w <= until.size /\ until.at[w] = "out" =>
            until.cancel \/ until.next > Len(until.entries)
    /\ until.cancel => until.found

MatchHolds ==
    /\ until.found => /\ until.which \in DOMAIN until.entries
                      /\ until.entries[until.which]
    /\ \A w \in Worker : until.at[w] \in {"test", "store"} =>
            until.match[w] \in DOMAIN until.entries
    /\ \A w \in Worker : until.at[w] = "store" =>
            until.holder = w /\ until.entries[until.match[w]]

\* An entry that holds the block and was handed out is not forgotten: the
\* match is stored, or about to be, or the entry is still to be compared.
MatchKept ==
    /\ until.holder # 0 => until.at[until.holder] = "store"
    /\ \A i \in DOMAIN until.entries : until.entries[i] /\ i < until.next =>
            \/ until.found \/ until.holder # 0
            \/ \E w \in Worker : until.at[w] = "test" /\ until.match[w] = i

TeamInv == TeamType /\ MembersLeave /\ MatchHolds /\ MatchKept

-----------------------------------------------------------------------------
(* Counting workers: the count is at most the number of threads, which it    *)
(* reaches exactly when all are counted.                                     *)
LEMMA CountAll ==
    ASSUME NEW at, NEW S
    PROVE  /\ Count(at, S) \in 0 .. NumThreads
           /\ Count(at, S) = NumThreads <=> \A w \in Worker : at[w] \in S
           /\ Count(at, S) = 0 <=> \A w \in Worker : at[w] \notin S
<1> DEFINE C == {w \in Worker : at[w] \in S}
<1>1. IsFiniteSet(Worker) /\ Cardinality(Worker) = NumThreads
  BY FS_Interval, EngineAssumption DEF Worker
<1>2. C \in SUBSET Worker
  OBVIOUS
<1>3. /\ IsFiniteSet(C) /\ Cardinality(C) <= NumThreads
      /\ Cardinality(C) = NumThreads => C = Worker
  BY <1>1, <1>2, FS_Subset
<1>4. Cardinality(C) \in Nat /\ (Cardinality(C) = 0 <=> C = {})
  BY <1>3, FS_CardinalityType, FS_EmptySet
<1>5. Count(at, S) = Cardinality(C)
  BY DEF Count
<1>6. C = Worker <=> \A w \in Worker : at[w] \in S
  OBVIOUS
<1>7. C = {} <=> \A w \in Worker : at[w] \notin S
  OBVIOUS
<1> HIDE DEF C
<1> QED BY <1>1, <1>3, <1>4, <1>5, <1>6, <1>7, EngineAssumption

(* One worker moves.                                                        *)
LEMMA CountMove ==
    ASSUME NEW at, NEW bt, NEW w \in Worker, NEW S,
           \A v \in Worker \ {w} : bt[v] = at[v]
    PROVE  Count(bt, S) = Count(at, S) + In(bt[w], S) - In(at[w], S)
<1> DEFINE C == {v \in Worker : at[v] \in S}
           D == {v \in Worker : bt[v] \in S}
<1>1. IsFiniteSet(C) /\ Cardinality(C) \in Nat
  <2>1. IsFiniteSet(Worker)
    BY FS_Interval, EngineAssumption DEF Worker
  <2>2. C \in SUBSET Worker
    OBVIOUS
  <2> QED BY <2>1, <2>2, FS_Subset, FS_CardinalityType
<1>2. Count(at, S) = Cardinality(C) /\ Count(bt, S) = Cardinality(D)
  BY DEF Count
<1>3. D = IF bt[w] \in S THEN C \cup {w} ELSE C \ {w}
  OBVIOUS
<1>4. w \in C <=> at[w] \in S
  OBVIOUS
<1> HIDE DEF C, D
<1>5. Cardinality(C \cup {w}) = IF w \in C THEN Cardinality(C) ELSE Cardinality(C) + 1
  BY <1>1, FS_AddElement
<1>6. Cardinality(C \ {w}) = IF w \in C THEN Cardinality(C) - 1 ELSE Cardinality(C)
  BY <1>1, FS_RemoveElement
<1> QED BY <1>1, <1>2, <1>3, <1>4, <1>5, <1>6 DEF In

(* Workers at different places are counted once.                            *)
LEMMA CountDisjoint ==
    ASSUME NEW at, NEW S, NEW T, S \cap T = {}
    PROVE  Count(at, S) + Count(at, T) <= NumThreads
<1> DEFINE C == {w \in Worker : at[w] \in S}
           D == {w \in Worker : at[w] \in T}
<1>1. IsFiniteSet(Worker) /\ Cardinality(Worker) = NumThreads
  BY FS_Interval, EngineAssumption DEF Worker
<1>2. C \in SUBSET Worker /\ D \in SUBSET Worker /\ C \cup D \in SUBSET Worker
  OBVIOUS
<1>3. C \cap D = {}
  OBVIOUS
<1>4. Count(at, S) = Cardinality(C) /\ Count(at, T) = Cardinality(D)
  BY DEF Count
<1> HIDE DEF C, D
<1>5. IsFiniteSet(C) /\ IsFiniteSet(D) /\ Cardinality(C \cup D) <= NumThreads
  BY <1>1, <1>2, FS_Subset
<1>6. Cardinality(C \cup D) = Cardinality(C) + Cardinality(D) - Cardinality(C \cap D)
  BY <1>5, FS_Union
<1>7. Cardinality(C) \in Nat /\ Cardinality(D) \in Nat /\ Cardinality(C \cap D) = 0
  BY <1>3, <1>5, FS_CardinalityType, FS_EmptySet
<1> QED BY <1>4, <1>5, <1>6, <1>7, EngineAssumption

(* The four counts of the phases, as one worker moves.                      *)
LEMMA CountsMove ==
    ASSUME NEW w \in Worker, \A v \in Worker \ {w} : place'[v] = place[v]
    PROVE  /\ NumInit(place') = NumInit(place) + (IF place'[w] = "init" THEN 1 ELSE 0)
                        - (IF place[w] = "init" THEN 1 ELSE 0)
           /\ NumDone(place') = NumDone(place) + (IF place'[w] = "done" THEN 1 ELSE 0)
                        - (IF place[w] = "done" THEN 1 ELSE 0)
           /\ NumLooping(place') = NumLooping(place) + (IF place'[w] \in Looping THEN 1 ELSE 0)
                        - (IF place[w] \in Looping THEN 1 ELSE 0)
           /\ NumStarted(place') = NumStarted(place) + (IF place'[w] \in Looping \/ place'[w] = "done" THEN 1 ELSE 0)
                        - (IF place[w] \in Looping \/ place[w] = "done" THEN 1 ELSE 0)
<1>1. NumInit(place') = NumInit(place) + (IF place'[w] = "init" THEN 1 ELSE 0)
                        - (IF place[w] = "init" THEN 1 ELSE 0)
  <2> DEFINE S == {"init"}
  <2>1. Count(place', S) = Count(place, S) + In(place'[w], S) - In(place[w], S)
    <3> HIDE DEF S
    <3> QED BY CountMove, ZenonT(40)
  <2> QED BY <2>1 DEF In, NumInit
<1>2. NumDone(place') = NumDone(place) + (IF place'[w] = "done" THEN 1 ELSE 0)
                        - (IF place[w] = "done" THEN 1 ELSE 0)
  <2> DEFINE S == {"done"}
  <2>1. Count(place', S) = Count(place, S) + In(place'[w], S) - In(place[w], S)
    <3> HIDE DEF S
    <3> QED BY CountMove, ZenonT(40)
  <2> QED BY <2>1 DEF In, NumDone
<1>3. NumLooping(place') = NumLooping(place) + (IF place'[w] \in Looping THEN 1 ELSE 0)
                           - (IF place[w] \in Looping THEN 1 ELSE 0)
  <2> DEFINE S == Looping
  <2>1. Count(place', S) = Count(place, S) + In(place'[w], S) - In(place[w], S)
    <3> HIDE DEF S
    <3> QED BY CountMove, ZenonT(40)
  <2> QED BY <2>1 DEF In, NumLooping
<1>4. NumStarted(place') = NumStarted(place) + (IF place'[w] \in Looping \/ place'[w] = "done" THEN 1 ELSE 0)
                           - (IF place[w] \in Looping \/ place[w] = "done" THEN 1 ELSE 0)
  <2> DEFINE S == Looping \cup {"done"}
  <2>1. Count(place', S) = Count(place, S) + In(place'[w], S) - In(place[w], S)
    <3> HIDE DEF S
    <3> QED BY CountMove, ZenonT(40)
  <2> QED BY <2>1 DEF In, NumStarted
<1> QED BY <1>1, <1>2, <1>3, <1>4

(* The counts are numbers of threads, and say when all or none are counted. *)
LEMMA CountsAll ==
    ASSUME NEW at
    PROVE  /\ NumInit(at) \in 0 .. NumThreads /\ NumDone(at) \in 0 .. NumThreads
           /\ NumLooping(at) \in 0 .. NumThreads /\ NumStarted(at) \in 0 .. NumThreads
           /\ NumInit(at) = NumThreads <=> \A w \in Worker : at[w] = "init"
           /\ NumDone(at) = NumThreads <=> \A w \in Worker : at[w] = "done"
           /\ NumStarted(at) = NumThreads <=>
                    \A w \in Worker : at[w] \in Looping \cup {"done"}
           /\ NumInit(at) = 0 <=> \A w \in Worker : at[w] # "init"
           /\ NumDone(at) = 0 <=> \A w \in Worker : at[w] # "done"
           /\ NumStarted(at) = 0 <=>
                    \A w \in Worker : at[w] \notin Looping \cup {"done"}
           /\ NumDone(at) + NumLooping(at) <= NumThreads
<1>1. /\ NumInit(at) \in 0 .. NumThreads
      /\ NumInit(at) = NumThreads <=> \A w \in Worker : at[w] \in {"init"}
      /\ NumInit(at) = 0 <=> \A w \in Worker : at[w] \notin {"init"}
  <2> DEFINE S == {"init"}
  <2>1. /\ Count(at, S) \in 0 .. NumThreads
        /\ Count(at, S) = NumThreads <=> \A w \in Worker : at[w] \in S
        /\ Count(at, S) = 0 <=> \A w \in Worker : at[w] \notin S
    <3> HIDE DEF S
    <3> QED BY CountAll
  <2> QED BY <2>1 DEF NumInit
<1>2. /\ NumDone(at) \in 0 .. NumThreads
      /\ NumDone(at) = NumThreads <=> \A w \in Worker : at[w] \in {"done"}
      /\ NumDone(at) = 0 <=> \A w \in Worker : at[w] \notin {"done"}
  <2> DEFINE S == {"done"}
  <2>1. /\ Count(at, S) \in 0 .. NumThreads
        /\ Count(at, S) = NumThreads <=> \A w \in Worker : at[w] \in S
        /\ Count(at, S) = 0 <=> \A w \in Worker : at[w] \notin S
    <3> HIDE DEF S
    <3> QED BY CountAll
  <2> QED BY <2>1 DEF NumDone
<1>3. /\ NumLooping(at) \in 0 .. NumThreads
      /\ NumLooping(at) = NumThreads <=> \A w \in Worker : at[w] \in Looping
      /\ NumLooping(at) = 0 <=> \A w \in Worker : at[w] \notin Looping
  <2> DEFINE S == Looping
  <2>1. /\ Count(at, S) \in 0 .. NumThreads
        /\ Count(at, S) = NumThreads <=> \A w \in Worker : at[w] \in S
        /\ Count(at, S) = 0 <=> \A w \in Worker : at[w] \notin S
    <3> HIDE DEF S
    <3> QED BY CountAll
  <2> QED BY <2>1 DEF NumLooping
<1>4. /\ NumStarted(at) \in 0 .. NumThreads
      /\ NumStarted(at) = NumThreads <=> \A w \in Worker : at[w] \in Looping \cup {"done"}
      /\ NumStarted(at) = 0 <=> \A w \in Worker : at[w] \notin Looping \cup {"done"}
  <2> DEFINE S == Looping \cup {"done"}
  <2>1. /\ Count(at, S) \in 0 .. NumThreads
        /\ Count(at, S) = NumThreads <=> \A w \in Worker : at[w] \in S
        /\ Count(at, S) = 0 <=> \A w \in Worker : at[w] \notin S
    <3> HIDE DEF S
    <3> QED BY CountAll
  <2> QED BY <2>1 DEF NumStarted
<1>5. NumDone(at) + NumLooping(at) <= NumThreads
  <2> DEFINE S == {"done"}
             T == Looping
  <2>1. S \cap T = {}
    BY DEF Looping
  <2>2. Count(at, S) + Count(at, T) <= NumThreads
    <3> HIDE DEF S, T
    <3> QED BY <2>1, CountDisjoint
  <2> QED BY <2>2 DEF NumDone, NumLooping
<1> QED BY <1>1, <1>2, <1>3, <1>4, <1>5

-----------------------------------------------------------------------------
(* The first call finds no threads.                                         *)
LEMMA EngineInitially == EngineInit => EngineInv
<1> SUFFICES ASSUME EngineInit PROVE EngineInv
  OBVIOUS
<1> USE EngineAssumption
<1>1. TypeOK
  BY DEF EngineInit, TypeOK, Worker
<1>2. Phases
  BY DEF EngineInit, Phases, QuietPhase, RunPhase, ConfirmPhase, ClearPhase, Aside, Quiet, Worker
<1>3. runs \in [0 .. 0 - 1 -> {0, 1}] /\ DOMAIN runs = {}
  BY DEF EngineInit
<1>4. 0 \in 0 .. MaxUnits /\ \E n \in 0 .. MaxUnits : runs \in [0 .. n - 1 -> {0, 1}]
  BY <1>3
<1>5. Units
  BY <1>3, <1>4 DEF EngineInit, Units, UnitsType, UnitsHanded, UnitsAccounted, DoneForReason, Quiet
<1> QED BY <1>1, <1>2, <1>5 DEF EngineInv

(* Falling asleep and waking up change nothing else.                        *)
LEMMA EngineSleeps ==
    ASSUME EngineInv,
           UNCHANGED <<main, calls, params, threads, workerVars, pending, ends, historyVars>>,
           asleep' \subseteq Worker \cup {Main},
           \A w \in Worker : w \in asleep' => w \in asleep \/ place[w] \in {"init", "done"}
    PROVE  EngineInv'
<1> USE DEF workerVars, historyVars
<1>1. TypeOK'
  BY DEF EngineInv, TypeOK
<1>2. QuietPhase' /\ RunPhase' /\ ConfirmPhase' /\ ClearPhase'
  BY DEF EngineInv, Phases, QuietPhase, RunPhase, ConfirmPhase, ClearPhase
<1>3. Aside'
  BY DEF EngineInv, Phases, Aside
<1>4. Units'
  BY DEF EngineInv, Units, UnitsType, UnitsHanded, UnitsAccounted, DoneForReason
<1> QED BY <1>1, <1>2, <1>3, <1>4 DEF EngineInv, Phases

(* A worker takes the next unit, as it begins or after another unit.        *)
LEMMA EngineTakes ==
    ASSUME EngineInv, NEW w \in Worker, main \in {"inits", "done"},
           place[w] \in {"init", "relock"},
           params.work_index < params.num_totalworks, ~ params.cancelled,
           params' = [params EXCEPT !.work_index = @ + 1,
                                    !.num_inits = IF place[w] = "init" THEN @ + 1 ELSE @],
           cur' = [cur EXCEPT ![w] = params.work_index],
           place' = [place EXCEPT ![w] = "task"],
           asleep' \subseteq asleep, w \notin asleep',
           cancelflag' = [cancelflag EXCEPT ![w] = FALSE],
           UNCHANGED <<main, calls, threads, pending, ends, historyVars>>
    PROVE  EngineInv'
<1> USE DEF historyVars
<1>m. place[w] = "init" => main = "inits"
  BY DEF EngineInv, Phases, RunPhase
<1>c. /\ NumDone(place') = NumDone(place)
      /\ NumStarted(place') = NumStarted(place) + (IF place[w] = "init" THEN 1 ELSE 0)
  <2>1. place'[w] = "task" /\ \A v \in Worker \ {w} : place'[v] = place[v]
    BY DEF EngineInv, TypeOK
  <2>2. /\ NumDone(place') = NumDone(place) + (IF place'[w] = "done" THEN 1 ELSE 0)
                                       - (IF place[w] = "done" THEN 1 ELSE 0)
        /\ NumStarted(place') = NumStarted(place)
             + (IF place'[w] \in Looping \/ place'[w] = "done" THEN 1 ELSE 0)
             - (IF place[w] \in Looping \/ place[w] = "done" THEN 1 ELSE 0)
    BY <2>1, CountsMove
  <2>3. NumDone(place) \in 0 .. NumThreads /\ NumStarted(place) \in 0 .. NumThreads
    BY CountsAll
  <2> QED BY <2>1, <2>2, <2>3 DEF Looping
<1>p. /\ params'.init_ok = params.init_ok /\ params'.done_ok = params.done_ok
      /\ params'.num_done = params.num_done
      /\ params'.num_doneconfirm = params.num_doneconfirm
      /\ params'.num_totalworks = params.num_totalworks
      /\ params'.cancelled = params.cancelled
      /\ params'.work_index = params.work_index + 1
      /\ params'.num_inits = params.num_inits + (IF place[w] = "init" THEN 1 ELSE 0)
  BY DEF EngineInv, TypeOK
<1>1. RunPhase'
  BY <1>c, <1>p, <1>m DEF EngineInv, TypeOK, Phases, RunPhase, Looping
<1>2. TypeOK'
  <2>1. params'.num_inits \in 0 .. NumThreads
    BY <1>1, <1>p, <1>m, CountsAll DEF EngineInv, TypeOK, RunPhase
  <2>2. params'.work_index \in 0 .. MaxUnits /\ params.work_index \in 0 .. MaxUnits
    BY <1>p, EngineAssumption DEF EngineInv, TypeOK
  <2>3. params' \in [init_ok : BOOLEAN, done_ok : BOOLEAN,
                   num_inits : 0 .. NumThreads, num_done : 0 .. NumThreads,
                   num_doneconfirm : 0 .. NumThreads, work_index : 0 .. MaxUnits,
                   num_totalworks : 0 .. MaxUnits, cancelled : BOOLEAN]
    BY <1>p, <2>1, <2>2 DEF EngineInv, TypeOK
  <2> QED BY <2>2, <2>3, EngineAssumption DEF EngineInv, TypeOK
<1>3. QuietPhase' /\ ConfirmPhase' /\ ClearPhase'
  BY DEF QuietPhase, ConfirmPhase, ClearPhase, Quiet
<1>4. Aside'
  BY DEF EngineInv, TypeOK, Phases, Aside
<1>5. UnitsType'
  BY <1>p DEF EngineInv, TypeOK, Units, UnitsType, Quiet
<1>6. UnitsHanded'
  BY <1>p DEF EngineInv, TypeOK, Units, UnitsType, UnitsHanded, Quiet, Claimed
<1>7. UnitsAccounted'
  <2>1. DOMAIN runs \subseteq Int /\ params.work_index \in Int
    BY DEF EngineInv, TypeOK, Units, UnitsType, Quiet
  <2> QED BY <1>p, <2>1 DEF EngineInv, TypeOK, Units, UnitsAccounted, Claimed
<1>8. DoneForReason'
  BY <1>p DEF EngineInv, TypeOK, Units, DoneForReason, Quiet, Claimed
<1> QED BY <1>1, <1>2, <1>3, <1>4, <1>5, <1>6, <1>7, <1>8 DEF EngineInv, Phases, Units
(* A worker finds no more work and waits for done_ok.                       *)
LEMMA EngineEnds ==
    ASSUME EngineInv, NEW w \in Worker, main \in {"inits", "done"},
           place[w] \in {"init", "relock"}, NEW c \in BOOLEAN, c => wanted,
           params.cancelled => c,
           params.work_index = params.num_totalworks \/ c,
           params' = [params EXCEPT !.num_done = @ + 1, !.cancelled = c,
                                    !.num_inits = IF place[w] = "init" THEN @ + 1 ELSE @],
           place' = [place EXCEPT ![w] = "done"],
           asleep' \subseteq asleep \cup {w},
           cancelflag' = [cancelflag EXCEPT ![w] = FALSE],
           UNCHANGED <<main, calls, threads, cur, pending, ends, historyVars>>
    PROVE  EngineInv'
<1> USE DEF historyVars
<1>m. place[w] = "init" => main = "inits"
  BY DEF EngineInv, Phases, RunPhase
<1>c. /\ NumDone(place') = NumDone(place) + 1
      /\ NumStarted(place') = NumStarted(place) + (IF place[w] = "init" THEN 1 ELSE 0)
  <2>1. place'[w] = "done" /\ \A v \in Worker \ {w} : place'[v] = place[v]
    BY DEF EngineInv, TypeOK
  <2>2. /\ NumDone(place') = NumDone(place)
             + (IF place'[w] = "done" THEN 1 ELSE 0)
             - (IF place[w] = "done" THEN 1 ELSE 0)
        /\ NumStarted(place') = NumStarted(place)
             + (IF place'[w] \in Looping \/ place'[w] = "done" THEN 1 ELSE 0)
             - (IF place[w] \in Looping \/ place[w] = "done" THEN 1 ELSE 0)
    BY <2>1, CountsMove
  <2>3. NumDone(place) \in 0 .. NumThreads /\ NumStarted(place) \in 0 .. NumThreads
    BY CountsAll
  <2> QED BY <2>1, <2>2, <2>3 DEF Looping
<1>p. /\ params'.init_ok = params.init_ok
      /\ params'.done_ok = params.done_ok
      /\ params'.num_inits = params.num_inits + (IF place[w] = "init" THEN 1 ELSE 0)
      /\ params'.num_done = params.num_done + 1
      /\ params'.num_doneconfirm = params.num_doneconfirm
      /\ params'.work_index = params.work_index
      /\ params'.num_totalworks = params.num_totalworks
      /\ params'.cancelled = c
  BY DEF EngineInv, TypeOK
<1>1. RunPhase'
  BY <1>c, <1>p, <1>m DEF EngineInv, TypeOK, Phases, RunPhase, Looping
<1>2. TypeOK'
  <2>1. params'.num_inits \in 0 .. NumThreads /\ params'.num_done \in 0 .. NumThreads
    BY <1>1, <1>p, <1>m, CountsAll DEF EngineInv, TypeOK, RunPhase
  <2>2. params' \in [init_ok : BOOLEAN, done_ok : BOOLEAN,
                   num_inits : 0 .. NumThreads, num_done : 0 .. NumThreads,
                   num_doneconfirm : 0 .. NumThreads, work_index : 0 .. MaxUnits,
                   num_totalworks : 0 .. MaxUnits, cancelled : BOOLEAN]
    BY <1>p, <2>1 DEF EngineInv, TypeOK
  <2> QED BY <2>2, EngineAssumption DEF EngineInv, TypeOK
<1>3. QuietPhase' /\ ConfirmPhase' /\ ClearPhase'
  BY DEF QuietPhase, ConfirmPhase, ClearPhase, Quiet
<1>4. Aside'
  BY DEF EngineInv, TypeOK, Phases, Aside
<1>5. UnitsType'
  BY <1>p DEF EngineInv, TypeOK, Units, UnitsType, Quiet
<1>6. UnitsHanded'
  BY <1>p DEF EngineInv, TypeOK, Units, UnitsType, UnitsHanded, Quiet, Claimed
<1>7. UnitsAccounted'
  <2>1. DOMAIN runs \subseteq Int /\ params.work_index \in Int
    BY DEF EngineInv, TypeOK, Units, UnitsType, Quiet
  <2> QED BY <1>p, <2>1 DEF EngineInv, TypeOK, Units, UnitsAccounted, Claimed
<1>8. DoneForReason'
  BY <1>p DEF EngineInv, TypeOK, Units, DoneForReason, Quiet, Claimed
<1> QED BY <1>1, <1>2, <1>3, <1>4, <1>5, <1>6, <1>7, <1>8 DEF EngineInv, Phases, Units

(* A worker that waited for done_ok confirms it.                            *)
LEMMA EngineConfirms ==
    ASSUME EngineInv, NEW w \in Worker, main \in {"confirm", "clear", "join"},
           place[w] = "done",
           params' = [params EXCEPT !.num_doneconfirm = @ + 1],
           place' = [place EXCEPT ![w] = "init"],
           asleep' \subseteq asleep \cup {w},
           UNCHANGED <<main, calls, threads, cur, cancelflag, pending, ends, historyVars>>
    PROVE  EngineInv'
<1> USE DEF historyVars
<1>c. /\ NumInit(place') = NumInit(place) + 1
      /\ NumLooping(place') = NumLooping(place) /\ NumStarted(place') = NumStarted(place) - 1
  <2>1. place'[w] = "init" /\ \A v \in Worker \ {w} : place'[v] = place[v]
    BY DEF EngineInv, TypeOK
  <2>2. /\ NumInit(place') = NumInit(place)
             + (IF place'[w] = "init" THEN 1 ELSE 0)
             - (IF place[w] = "init" THEN 1 ELSE 0)
        /\ NumLooping(place') = NumLooping(place)
             + (IF place'[w] \in Looping THEN 1 ELSE 0)
             - (IF place[w] \in Looping THEN 1 ELSE 0)
        /\ NumStarted(place') = NumStarted(place)
             + (IF place'[w] \in Looping \/ place'[w] = "done" THEN 1 ELSE 0)
             - (IF place[w] \in Looping \/ place[w] = "done" THEN 1 ELSE 0)
    BY <2>1, CountsMove
  <2>3. NumInit(place) \in 0 .. NumThreads /\ NumLooping(place) \in 0 .. NumThreads /\ NumStarted(place) \in 0 .. NumThreads
    BY CountsAll
  <2> QED BY <2>1, <2>2, <2>3 DEF Looping
<1>p. /\ params'.init_ok = params.init_ok
      /\ params'.done_ok = params.done_ok
      /\ params'.num_inits = params.num_inits
      /\ params'.num_done = params.num_done
      /\ params'.num_doneconfirm = params.num_doneconfirm + 1
      /\ params'.work_index = params.work_index
      /\ params'.num_totalworks = params.num_totalworks
      /\ params'.cancelled = params.cancelled
  BY DEF EngineInv, TypeOK
<1>t. /\ NumInit(place') \in 0 .. NumThreads /\ NumInit(place) \in 0 .. NumThreads
      /\ NumStarted(place') \in 0 .. NumThreads /\ NumStarted(place) \in 0 .. NumThreads
      /\ NumLooping(place) \in 0 .. NumThreads
  BY CountsAll
<1>1. QuietPhase' /\ RunPhase'
  BY DEF QuietPhase, RunPhase, Quiet
<1>2. ConfirmPhase'
  BY <1>c, <1>p DEF EngineInv, TypeOK, Phases, ConfirmPhase
<1>3. ClearPhase'
  <2> SUFFICES ASSUME main \in {"clear", "join"} PROVE ClearPhase'
    BY DEF ClearPhase
  <2>1. params.num_doneconfirm + NumStarted(place) <= NumThreads
    BY DEF EngineInv, Phases, ClearPhase
  <2>2. params'.num_doneconfirm + NumStarted(place') <= NumThreads
    BY <1>c, <1>p, <1>t, <2>1, EngineAssumption DEF EngineInv, TypeOK
  <2> QED BY <1>c, <1>p, <2>2 DEF EngineInv, TypeOK, Phases, ClearPhase
<1>4. TypeOK'
  <2>1. params'.num_doneconfirm \in 0 .. NumThreads
    BY <1>t, <1>2, <1>3, <1>p, EngineAssumption DEF EngineInv, TypeOK, ConfirmPhase, ClearPhase
  <2>2. params' \in [init_ok : BOOLEAN, done_ok : BOOLEAN,
                   num_inits : 0 .. NumThreads, num_done : 0 .. NumThreads,
                   num_doneconfirm : 0 .. NumThreads, work_index : 0 .. MaxUnits,
                   num_totalworks : 0 .. MaxUnits, cancelled : BOOLEAN]
    BY <1>p, <2>1 DEF EngineInv, TypeOK
  <2> QED BY <2>2, EngineAssumption DEF EngineInv, TypeOK
<1>5. Aside'
  BY DEF EngineInv, TypeOK, Phases, Aside
<1>6. UnitsType' /\ DoneForReason'
  BY <1>p DEF EngineInv, TypeOK, Units, UnitsType, DoneForReason, Quiet
<1>7. UnitsHanded'
  BY <1>p DEF EngineInv, TypeOK, Units, UnitsType, UnitsHanded, Quiet, Claimed
<1>8. UnitsAccounted'
  BY <1>p DEF EngineInv, TypeOK, Units, UnitsAccounted, Claimed
<1> QED BY <1>1, <1>2, <1>3, <1>4, <1>5, <1>6, <1>7, <1>8 DEF EngineInv, Phases, Units

(* A worker that comes out of DoWork after done_ok was given does both.     *)
LEMMA EngineEndsLate ==
    ASSUME EngineInv, NEW w \in Worker, main \in {"clear", "join"}, place[w] = "relock",
           params' = [params EXCEPT !.num_done = @ + 1, !.num_doneconfirm = @ + 1],
           place' = [place EXCEPT ![w] = "init"],
           asleep' \subseteq asleep \cup {w},
           cancelflag' = [cancelflag EXCEPT ![w] = FALSE],
           UNCHANGED <<main, calls, threads, cur, pending, ends, historyVars>>
    PROVE  EngineInv'
<1> USE DEF historyVars
<1>c. NumLooping(place') = NumLooping(place) - 1 /\ NumStarted(place') = NumStarted(place) - 1
  <2>1. place'[w] = "init" /\ \A v \in Worker \ {w} : place'[v] = place[v]
    BY DEF EngineInv, TypeOK
  <2>2. /\ NumLooping(place') = NumLooping(place)
             + (IF place'[w] \in Looping THEN 1 ELSE 0)
             - (IF place[w] \in Looping THEN 1 ELSE 0)
        /\ NumStarted(place') = NumStarted(place)
             + (IF place'[w] \in Looping \/ place'[w] = "done" THEN 1 ELSE 0)
             - (IF place[w] \in Looping \/ place[w] = "done" THEN 1 ELSE 0)
    BY <2>1, CountsMove
  <2>3. NumLooping(place) \in 0 .. NumThreads /\ NumStarted(place) \in 0 .. NumThreads
    BY CountsAll
  <2> QED BY <2>1, <2>2, <2>3 DEF Looping
<1>p. /\ params'.init_ok = params.init_ok
      /\ params'.done_ok = params.done_ok
      /\ params'.num_inits = params.num_inits
      /\ params'.num_done = params.num_done + 1
      /\ params'.num_doneconfirm = params.num_doneconfirm + 1
      /\ params'.work_index = params.work_index
      /\ params'.num_totalworks = params.num_totalworks
      /\ params'.cancelled = params.cancelled
  BY DEF EngineInv, TypeOK
<1>t. /\ NumStarted(place') \in 0 .. NumThreads /\ NumStarted(place) \in 0 .. NumThreads
      /\ NumLooping(place') \in 0 .. NumThreads /\ NumLooping(place) \in 0 .. NumThreads
  BY CountsAll
<1>1. QuietPhase' /\ RunPhase' /\ ConfirmPhase'
  BY DEF QuietPhase, RunPhase, ConfirmPhase, Quiet
<1>3. ClearPhase'
  <2>1. /\ params.num_doneconfirm + NumStarted(place) <= NumThreads
        /\ params.num_done + NumLooping(place) <= NumThreads
    BY DEF EngineInv, Phases, ClearPhase
  <2>2. /\ params'.num_doneconfirm + NumStarted(place') <= NumThreads
        /\ params'.num_done + NumLooping(place') <= NumThreads
    BY <1>c, <1>p, <1>t, <2>1, EngineAssumption DEF EngineInv, TypeOK
  <2> QED BY <1>c, <1>p, <2>2 DEF EngineInv, TypeOK, Phases, ClearPhase
<1>4. TypeOK'
  <2>1. params'.num_doneconfirm \in 0 .. NumThreads /\ params'.num_done \in 0 .. NumThreads
    BY <1>t, <1>3, <1>p, EngineAssumption DEF EngineInv, TypeOK, ClearPhase
  <2>2. params' \in [init_ok : BOOLEAN, done_ok : BOOLEAN,
                   num_inits : 0 .. NumThreads, num_done : 0 .. NumThreads,
                   num_doneconfirm : 0 .. NumThreads, work_index : 0 .. MaxUnits,
                   num_totalworks : 0 .. MaxUnits, cancelled : BOOLEAN]
    BY <1>p, <2>1 DEF EngineInv, TypeOK
  <2> QED BY <2>2, EngineAssumption DEF EngineInv, TypeOK
<1>5. Aside'
  BY DEF EngineInv, TypeOK, Phases, Aside
<1>6. UnitsType' /\ DoneForReason' /\ UnitsAccounted'
  BY <1>p DEF EngineInv, TypeOK, Units, UnitsType, DoneForReason, UnitsAccounted, Quiet
<1>7. UnitsHanded'
  BY <1>p DEF EngineInv, TypeOK, Units, UnitsType, UnitsHanded, Quiet, Claimed
<1> QED BY <1>1, <1>3, <1>4, <1>5, <1>6, <1>7 DEF EngineInv, Phases, Units

(* What a worker does in the critical section that begins its share        *)
(* of a call.                                                               *)
LEMMA WorkerBegins ==
    ASSUME EngineInv, NEW w \in Worker, AwaitInit(w)
    PROVE  EngineInv'
<1> USE DEF workerVars
<1>1. CASE ~ params.init_ok
  BY <1>1, EngineSleeps DEF AwaitInit, EngineInv, TypeOK
<1>2. CASE params.init_ok
  <2>1. main = "inits" /\ ~ params.done_ok
    BY <1>2 DEF EngineInv, TypeOK, Phases, QuietPhase, RunPhase, ConfirmPhase, ClearPhase, Quiet
  <2>2. ~ cancelflag[w] /\ cancelflag' = [cancelflag EXCEPT ![w] = FALSE]
    BY DEF AwaitInit, EngineInv, TypeOK, Phases, Aside
  <2> DEFINE p == [params EXCEPT !.num_inits = @ + 1]
  <2>3. /\ p.work_index = params.work_index /\ p.num_totalworks = params.num_totalworks
        /\ p.cancelled = params.cancelled /\ p.done_ok = params.done_ok
        /\ p.num_inits = params.num_inits + 1 /\ p.num_done = params.num_done
        /\ TakeWork(w, p, asleep \ {Main})
        /\ place[w] = "init" /\ w \notin asleep
        /\ params.cancelled \in BOOLEAN
    BY <1>2 DEF EngineInv, TypeOK, AwaitInit
  <2>4. CASE params.work_index < params.num_totalworks /\ ~ params.cancelled
    <3>1. params' = [params EXCEPT !.work_index = @ + 1,
                                   !.num_inits = IF place[w] = "init" THEN @ + 1 ELSE @]
      BY <2>3, <2>4 DEF TakeWork, Advance, EngineInv, TypeOK
    <3>2. /\ cur' = [cur EXCEPT ![w] = params.work_index]
          /\ place' = [place EXCEPT ![w] = "task"]
          /\ asleep' = asleep \ {Main}
      BY <2>3, <2>4 DEF TakeWork
    <3> QED BY <2>1, <2>2, <2>3, <2>4, <3>1, <3>2, EngineTakes DEF AwaitInit
  <2>5. CASE ~ (params.work_index < params.num_totalworks /\ ~ params.cancelled)
    <3>1. UNCHANGED cur /\ EndWork(w, p, asleep \ {Main})
      BY <2>3, <2>5 DEF TakeWork
    <3>2. /\ params' = [p EXCEPT !.num_done = @ + 1]
          /\ place' = [place EXCEPT ![w] = "done"]
          /\ asleep' = ((asleep \ {Main}) \ {Main}) \cup {w}
      BY <2>1, <2>3, <3>1 DEF EndWork, MayConfirm, EngineInv, TypeOK
    <3>3. params' = [params EXCEPT !.num_done = @ + 1, !.cancelled = params.cancelled,
                                   !.num_inits = IF place[w] = "init" THEN @ + 1 ELSE @]
      BY <2>3, <3>2 DEF EngineInv, TypeOK
    <3>4. /\ params.work_index = params.num_totalworks \/ params.cancelled
          /\ params.cancelled => wanted
      BY <2>1, <2>5 DEF EngineInv, TypeOK, Units, UnitsType, Quiet
    <3> QED BY <2>1, <2>2, <2>3, <3>1, <3>2, <3>3, <3>4, EngineEnds DEF AwaitInit
  <2> QED BY <2>4, <2>5
<1> QED BY <1>1, <1>2

(* Leaving DoWork: another unit, or the end of this worker's share.         *)
LEMMA WorkerLocksAgain ==
    ASSUME EngineInv, NEW w \in Worker, LockAgain(w)
    PROVE  EngineInv'
<1> USE DEF workerVars
<1>1. /\ main \in {"inits", "done", "clear", "join"}
      /\ main \in {"inits", "done"} => ~ params.done_ok
      /\ main \in {"clear", "join"} => params.done_ok /\ params.cancelled
  BY DEF LockAgain, EngineInv, TypeOK, Phases, QuietPhase, RunPhase, ConfirmPhase, ClearPhase,
         Quiet, Looping
<1>2. /\ place[w] = "relock" /\ w \notin asleep /\ params.cancelled \in BOOLEAN
      /\ cancelflag[w] \in BOOLEAN
      /\ params.num_inits = IF place[w] = "init" THEN params.num_inits + 1 ELSE params.num_inits
      /\ cancelflag[w] => wanted /\ (params.cancelled => wanted)
  BY <1>1 DEF LockAgain, EngineInv, TypeOK, Phases, Aside, Units, UnitsType, Quiet
<1> DEFINE c == params.cancelled \/ cancelflag[w]
           p == [params EXCEPT !.cancelled = c]
<1>3. CASE ~ c /\ params.work_index < params.num_totalworks
  <2>1. TakeWork(w, params, asleep)
    BY <1>3 DEF LockAgain
  <2>2. params' = [params EXCEPT !.work_index = @ + 1,
                                 !.num_inits = IF place[w] = "init" THEN @ + 1 ELSE @]
    BY <1>2, <1>3, <2>1 DEF TakeWork, Advance, EngineInv, TypeOK
  <2>3. /\ cur' = [cur EXCEPT ![w] = params.work_index]
        /\ place' = [place EXCEPT ![w] = "task"]
        /\ asleep' = asleep
    BY <1>3, <2>1 DEF TakeWork
  <2> QED BY <1>1, <1>2, <1>3, <2>2, <2>3, EngineTakes DEF LockAgain
<1>4. CASE ~ (~ c /\ params.work_index < params.num_totalworks)
  <2>1. EndWork(w, p, asleep) /\ UNCHANGED cur
    <3>1. CASE cancelflag[w]
      <4>1. p = [params EXCEPT !.cancelled = TRUE]
        BY <3>1 DEF EngineInv, TypeOK
      <4> QED BY <3>1, <4>1 DEF LockAgain
    <3>2. CASE ~ cancelflag[w]
      <4>1. p = params
        BY <3>2 DEF EngineInv, TypeOK
      <4>2. TakeWork(w, params, asleep)
        BY <3>2 DEF LockAgain
      <4> QED BY <1>4, <3>2, <4>1, <4>2 DEF TakeWork
    <3> QED BY <3>1, <3>2
  <2>2. CASE main \in {"inits", "done"}
    <3>1. params' = [p EXCEPT !.num_done = @ + 1] /\ place' = [place EXCEPT ![w] = "done"]
          /\ asleep' = (asleep \ {Main}) \cup {w}
      BY <1>1, <2>1, <2>2 DEF EndWork, MayConfirm, EngineInv, TypeOK
    <3>2. params' = [params EXCEPT !.num_done = @ + 1, !.cancelled = c,
                                   !.num_inits = IF place[w] = "init" THEN @ + 1 ELSE @]
      BY <1>2, <3>1 DEF EngineInv, TypeOK
    <3>3. /\ params.work_index = params.num_totalworks \/ c
          /\ c \in BOOLEAN /\ (c => wanted) /\ (params.cancelled => c)
      BY <1>2, <1>4, <2>2 DEF EngineInv, TypeOK, Units, UnitsType, Quiet
    <3> HIDE DEF c
    <3> QED BY <1>2, <2>1, <2>2, <3>1, <3>2, <3>3, EngineEnds DEF LockAgain
  <2>3. CASE main \in {"clear", "join"}
    <3>1. p = params
      BY <1>1, <2>3 DEF EngineInv, TypeOK
    <3>2. params' = [params EXCEPT !.num_done = @ + 1, !.num_doneconfirm = @ + 1]
          /\ place' = [place EXCEPT ![w] = "init"]
          /\ asleep' \subseteq asleep \cup {w}
      BY <1>1, <2>1, <2>3, <3>1 DEF EndWork, MayConfirm, Confirm, EngineInv, TypeOK
    <3> QED BY <1>2, <2>1, <2>3, <3>2, EngineEndsLate DEF LockAgain
  <2> QED BY <1>1, <2>2, <2>3
<1> QED BY <1>3, <1>4

(* Waking up in the wait for done_ok.                                       *)
LEMMA WorkerConfirms ==
    ASSUME EngineInv, NEW w \in Worker, WokenForDoneOk(w)
    PROVE  EngineInv'
<1> USE DEF workerVars
<1>1. CASE ~ MayConfirm(params)
  BY <1>1, EngineSleeps DEF WokenForDoneOk, EngineInv, TypeOK
<1>2. CASE MayConfirm(params)
  <2>1. main \in {"confirm", "clear", "join"}
    BY <1>2 DEF MayConfirm, WokenForDoneOk, EngineInv, TypeOK, Phases, QuietPhase, RunPhase, Quiet
  <2>2. /\ params' = [params EXCEPT !.num_doneconfirm = @ + 1]
        /\ place' = [place EXCEPT ![w] = "init"] /\ asleep' \subseteq asleep \cup {w}
    BY <1>2 DEF WokenForDoneOk, Confirm
  <2> QED BY <2>1, <2>2, EngineConfirms DEF WokenForDoneOk
<1> QED BY <1>1, <1>2

(* Between taking a unit and leaving DoWork a worker is  in the loop.         *)
LEMMA WorkerEntersWork ==
    ASSUME EngineInv, NEW w \in Worker, EnterWork(w)
    PROVE  EngineInv'
<1> USE DEF workerVars, historyVars
<1>c. /\ NumInit(place') = NumInit(place) /\ NumDone(place') = NumDone(place)
      /\ NumLooping(place') = NumLooping(place) /\ NumStarted(place') = NumStarted(place)
  <2>0. place[w] = "task"
    BY DEF EnterWork
  <2>1. place'[w] = "busy" /\ \A v \in Worker \ {w} : place'[v] = place[v]
    BY DEF EnterWork, EngineInv, TypeOK
  <2>2. /\ NumInit(place') = NumInit(place)
             + (IF place'[w] = "init" THEN 1 ELSE 0)
             - (IF place[w] = "init" THEN 1 ELSE 0)
        /\ NumDone(place') = NumDone(place)
             + (IF place'[w] = "done" THEN 1 ELSE 0)
             - (IF place[w] = "done" THEN 1 ELSE 0)
        /\ NumLooping(place') = NumLooping(place)
             + (IF place'[w] \in Looping THEN 1 ELSE 0)
             - (IF place[w] \in Looping THEN 1 ELSE 0)
        /\ NumStarted(place') = NumStarted(place)
             + (IF place'[w] \in Looping \/ place'[w] = "done" THEN 1 ELSE 0)
             - (IF place[w] \in Looping \/ place[w] = "done" THEN 1 ELSE 0)
    BY <2>1, CountsMove
  <2>3. NumInit(place) \in 0 .. NumThreads /\ NumDone(place) \in 0 .. NumThreads /\ NumLooping(place) \in 0 .. NumThreads /\ NumStarted(place) \in 0 .. NumThreads
    BY CountsAll
  <2> QED BY <2>0, <2>1, <2>2, <2>3 DEF Looping
<1>0. place[w] = "task" /\ place' = [place EXCEPT ![w] = "busy"] /\ asleep' \subseteq asleep
      /\ UNCHANGED <<main, calls, params, threads, cur, cancelflag, pending, ends, historyVars>>
  BY DEF EnterWork
<1>1. TypeOK'
  BY <1>0 DEF EngineInv, TypeOK
<1>2. QuietPhase'
  BY <1>0 DEF EngineInv, TypeOK, Phases, QuietPhase
<1>3. RunPhase'
  BY <1>0, <1>c DEF EngineInv, TypeOK, Phases, RunPhase, Looping
<1>4. ConfirmPhase'
  BY <1>0, <1>c DEF EngineInv, TypeOK, Phases, ConfirmPhase
<1>5. ClearPhase'
  BY <1>0, <1>c DEF EngineInv, TypeOK, Phases, ClearPhase
<1>6. Aside'
  BY <1>0 DEF EngineInv, TypeOK, Phases, Aside
<1>7. UnitsType' /\ DoneForReason'
  BY <1>0 DEF EngineInv, TypeOK, Units, UnitsType, DoneForReason
<1>8. UnitsHanded'
  BY <1>0 DEF EngineInv, TypeOK, Units, UnitsHanded, Claimed
<1>9. UnitsAccounted'
  BY <1>0 DEF EngineInv, TypeOK, Units, UnitsAccounted, Claimed
<1> QED BY <1>1, <1>2, <1>3, <1>4, <1>5, <1>6, <1>7, <1>8, <1>9
        DEF EngineInv, Phases, Units

(* DoWork does a unit that nobody did before.                               *)
LEMMA WorkerWorks ==
    ASSUME EngineInv, NEW w \in Worker, DoWork(w)
    PROVE  EngineInv'
<1> USE DEF workerVars
<1>0. PICK c \in BOOLEAN : /\ cancelflag' = [cancelflag EXCEPT ![w] = c]
                           /\ wanted' = (wanted \/ c)
  BY DEF DoWork
<1>a. place[w] = "busy" /\ place' = [place EXCEPT ![w] = "relock"]
      /\ UNCHANGED <<main, calls, params, threads, cur, asleep, pending, ends>>
  BY DEF DoWork
<1>c. /\ NumInit(place') = NumInit(place) /\ NumDone(place') = NumDone(place)
      /\ NumLooping(place') = NumLooping(place) /\ NumStarted(place') = NumStarted(place)
  <2>1. place'[w] = "relock" /\ \A v \in Worker \ {w} : place'[v] = place[v]
    BY <1>a DEF EngineInv, TypeOK
  <2>2. /\ NumInit(place') = NumInit(place)
             + (IF place'[w] = "init" THEN 1 ELSE 0)
             - (IF place[w] = "init" THEN 1 ELSE 0)
        /\ NumDone(place') = NumDone(place)
             + (IF place'[w] = "done" THEN 1 ELSE 0)
             - (IF place[w] = "done" THEN 1 ELSE 0)
        /\ NumLooping(place') = NumLooping(place)
             + (IF place'[w] \in Looping THEN 1 ELSE 0)
             - (IF place[w] \in Looping THEN 1 ELSE 0)
        /\ NumStarted(place') = NumStarted(place)
             + (IF place'[w] \in Looping \/ place'[w] = "done" THEN 1 ELSE 0)
             - (IF place[w] \in Looping \/ place[w] = "done" THEN 1 ELSE 0)
    BY <2>1, CountsMove
  <2>3. NumInit(place) \in 0 .. NumThreads /\ NumDone(place) \in 0 .. NumThreads /\ NumLooping(place) \in 0 .. NumThreads /\ NumStarted(place) \in 0 .. NumThreads
    BY CountsAll
  <2> QED BY <1>a, <2>1, <2>2, <2>3 DEF Looping
<1>m. main \in {"inits", "done", "clear", "join"}
  BY <1>a DEF EngineInv, TypeOK, Phases, QuietPhase, ConfirmPhase, Quiet
<1>r. /\ cur[w] \in DOMAIN runs /\ runs[cur[w]] = 0
      /\ runs' = [runs EXCEPT ![cur[w]] = 1]
      /\ DOMAIN runs' = DOMAIN runs
      /\ \A i \in DOMAIN runs : runs'[i] = IF i = cur[w] THEN 1 ELSE runs[i]
  <2>1. cur[w] \in DOMAIN runs /\ runs[cur[w]] = 0
    BY <1>a, <1>m DEF EngineInv, TypeOK, Units, UnitsType, UnitsHanded, Quiet, Claimed
  <2>2. runs' = [runs EXCEPT ![cur[w]] = 1]
    BY <2>1 DEF DoWork
  <2> QED BY <2>1, <2>2 DEF EngineInv, Units, UnitsType
<1>1. TypeOK'
  BY <1>0, <1>a DEF EngineInv, TypeOK
<1>2. QuietPhase' /\ ConfirmPhase'
  BY <1>a, <1>m DEF QuietPhase, ConfirmPhase, Quiet
<1>3. RunPhase'
  BY <1>a, <1>c DEF EngineInv, TypeOK, Phases, RunPhase, Looping
<1>5. ClearPhase'
  BY <1>a, <1>c DEF EngineInv, TypeOK, Phases, ClearPhase
<1>6. Aside'
  BY <1>0, <1>a DEF EngineInv, TypeOK, Phases, Aside, Units, UnitsType
<1>7. UnitsType'
  <2>1. PICK n \in 0 .. MaxUnits : runs \in [0 .. n - 1 -> {0, 1}]
    BY DEF EngineInv, Units, UnitsType
  <2>2. runs' \in [0 .. n - 1 -> {0, 1}]
    BY <1>r, <2>1
  <2> QED BY <1>0, <1>a, <1>m, <1>r, <2>2 DEF EngineInv, Units, UnitsType, Quiet
<1>8. UnitsHanded'
  BY <1>a, <1>m, <1>r DEF EngineInv, TypeOK, Units, UnitsHanded, Claimed, Quiet
<1>9. UnitsAccounted'
  BY <1>a, <1>r DEF EngineInv, TypeOK, Units, UnitsAccounted, Claimed
<1>10. DoneForReason'
  BY <1>a DEF EngineInv, TypeOK, Units, DoneForReason
<1> QED BY <1>1, <1>2, <1>3, <1>5, <1>6, <1>7, <1>8, <1>9, <1>10
        DEF EngineInv, Phases, Units

(* A cancelled worker ends where it waits or works.                         *)
LEMMA WorkerEnds ==
    ASSUME EngineInv, NEW w \in Worker, ActOnCancel(w)
    PROVE  EngineInv'
<1> USE DEF workerVars, historyVars
<1>m. main = "join" /\ w = ends /\ pending = {w}
  BY DEF ActOnCancel, EngineInv, TypeOK, Phases, QuietPhase, RunPhase, ConfirmPhase,
         ClearPhase, Quiet
<1>a. place' = [place EXCEPT ![w] = "ended"] /\ asleep' = asleep \ {w} /\ pending' = {}
      /\ place[w] # "relock"
      /\ UNCHANGED <<main, calls, params, threads, cur, cancelflag, ends, historyVars>>
  BY <1>m DEF ActOnCancel, EngineInv, Phases, Aside
<1>c. /\ NumLooping(place') <= NumLooping(place) /\ NumStarted(place') <= NumStarted(place)
      /\ NumLooping(place') \in Nat /\ NumStarted(place') \in Nat
      /\ NumLooping(place) \in Nat /\ NumStarted(place) \in Nat
  <2>1. place'[w] = "ended" /\ \A v \in Worker \ {w} : place'[v] = place[v]
    BY <1>a DEF EngineInv, TypeOK
  <2>2. /\ NumLooping(place') = NumLooping(place)
             + (IF place'[w] \in Looping THEN 1 ELSE 0)
             - (IF place[w] \in Looping THEN 1 ELSE 0)
        /\ NumStarted(place') = NumStarted(place)
             + (IF place'[w] \in Looping \/ place'[w] = "done" THEN 1 ELSE 0)
             - (IF place[w] \in Looping \/ place[w] = "done" THEN 1 ELSE 0)
    BY <2>1, CountsMove
  <2>3. NumLooping(place) \in 0 .. NumThreads /\ NumStarted(place) \in 0 .. NumThreads
    BY CountsAll
  <2> QED BY CountsAll, <2>1, <2>2, <2>3 DEF Looping
<1>1. TypeOK'
  BY <1>a DEF EngineInv, TypeOK
<1>2. QuietPhase' /\ RunPhase' /\ ConfirmPhase'
  BY <1>a, <1>m DEF QuietPhase, RunPhase, ConfirmPhase, Quiet
<1>5. ClearPhase'
  <2>1. /\ params.num_doneconfirm + NumStarted(place) <= NumThreads
        /\ params.num_done + NumLooping(place) <= NumThreads
    BY <1>m DEF EngineInv, Phases, ClearPhase
  <2>2. /\ params.num_doneconfirm + NumStarted(place') <= NumThreads
        /\ params.num_done + NumLooping(place') <= NumThreads
    BY <1>c, <2>1, EngineAssumption DEF EngineInv, TypeOK
  <2> QED BY <1>a, <1>m, <2>2 DEF EngineInv, TypeOK, Phases, ClearPhase
<1>6. Aside'
  BY <1>a DEF EngineInv, TypeOK, Phases, Aside
<1>7. UnitsType' /\ UnitsAccounted' /\ DoneForReason'
  BY <1>a, <1>m DEF EngineInv, TypeOK, Units, UnitsType, UnitsAccounted, DoneForReason
<1>8. UnitsHanded'
  BY <1>a DEF EngineInv, TypeOK, Units, UnitsHanded, Claimed
<1> QED BY <1>1, <1>2, <1>5, <1>6, <1>7, <1>8 DEF EngineInv, Phases, Units

(* The caller has heard of all threads: it waits for the work to be done,   *)
(* or gives done_ok.                                                        *)
LEMMA MainAwaitsDone ==
    ASSUME EngineInv, main \in {"inits", "done"}, NumStarted(place) = NumThreads,
           AwaitDone([params EXCEPT !.init_ok = FALSE]),
           UNCHANGED <<calls, threads, workerVars, pending, historyVars>>
    PROVE  EngineInv'
<1> USE DEF workerVars, historyVars
<1> DEFINE p == [params EXCEPT !.init_ok = FALSE]
<1>p. /\ ~ p.init_ok /\ p.done_ok = params.done_ok /\ p.num_inits = params.num_inits
      /\ p.num_done = params.num_done /\ p.num_doneconfirm = params.num_doneconfirm
      /\ p.work_index = params.work_index /\ p.num_totalworks = params.num_totalworks
      /\ p.cancelled = params.cancelled
      /\ p \in [init_ok : BOOLEAN, done_ok : BOOLEAN,
                   num_inits : 0 .. NumThreads, num_done : 0 .. NumThreads,
                   num_doneconfirm : 0 .. NumThreads, work_index : 0 .. MaxUnits,
                   num_totalworks : 0 .. MaxUnits, cancelled : BOOLEAN]
  BY DEF EngineInv, TypeOK
<1>w. \A w \in Worker : place[w] \in Looping \cup {"done"}
  BY CountsAll
<1>t. /\ threads = NumThreads /\ ~ params.done_ok /\ params.num_doneconfirm = 0
      /\ params.num_done = NumDone(place) /\ pending = {}
      /\ NumDone(place) \in 0 .. NumThreads
  BY CountsAll DEF EngineInv, Phases, RunPhase, Aside, Quiet
<1>h. AwaitDone(p)
  OBVIOUS
<1> HIDE DEF p
<1>1. CASE p.num_done < threads /\ ~ p.cancelled
  <2>0. params' = p /\ main' = "done" /\ asleep' = asleep \cup {Main} /\ ends' = ends
    BY <1>1, <1>h DEF AwaitDone
  <2>1. TypeOK'
    BY <1>p, <2>0 DEF EngineInv, TypeOK
  <2>2. QuietPhase' /\ ConfirmPhase' /\ ClearPhase'
    BY <2>0 DEF QuietPhase, ConfirmPhase, ClearPhase, Quiet
  <2>3. RunPhase'
    BY <1>p, <1>t, <1>w, <2>0 DEF RunPhase, Looping
  <2>4. Aside'
    BY <1>t, <2>0 DEF EngineInv, Phases, Aside, Main, Worker
  <2>5. UnitsType'
    BY <1>p, <2>0 DEF EngineInv, Units, UnitsType, Quiet
  <2>6. UnitsHanded' /\ UnitsAccounted' /\ DoneForReason'
    BY <1>p, <2>0 DEF EngineInv, Units, UnitsHanded, UnitsAccounted, DoneForReason, Quiet
  <2> QED BY <2>1, <2>2, <2>3, <2>4, <2>5, <2>6 DEF EngineInv, Phases, Units
<1>2. CASE p.cancelled
  <2>0. /\ params' = [p EXCEPT !.done_ok = TRUE]
        /\ main' = "clear" /\ asleep' = {} /\ ends' = 1
    BY <1>2, <1>h DEF AwaitDone, DoneOk
  <2>p. /\ params' \in [init_ok : BOOLEAN, done_ok : BOOLEAN,
                   num_inits : 0 .. NumThreads, num_done : 0 .. NumThreads,
                   num_doneconfirm : 0 .. NumThreads, work_index : 0 .. MaxUnits,
                   num_totalworks : 0 .. MaxUnits, cancelled : BOOLEAN]
        /\ ~ params'.init_ok /\ params'.done_ok /\ params'.cancelled
        /\ params'.num_done = params.num_done /\ params'.num_doneconfirm = 0
        /\ params'.work_index = params.work_index
        /\ params'.num_totalworks = params.num_totalworks
    BY <1>2, <1>p, <1>t, <2>0
  <2>1. TypeOK'
    BY <2>p, <2>0, EngineAssumption DEF EngineInv, TypeOK
  <2>2. QuietPhase' /\ ConfirmPhase' /\ RunPhase'
    BY <2>0 DEF QuietPhase, ConfirmPhase, RunPhase, Quiet
  <2>3. ClearPhase'
    <3>1. /\ NumDone(place') + NumLooping(place') <= NumThreads
          /\ NumStarted(place') = NumThreads /\ 0 + NumThreads = NumThreads
      BY CountsAll, EngineAssumption
    <3>2. \A w \in Worker : place[w] \notin {"none", "ended"} /\ ~ (w < 1)
      BY <1>w, EngineAssumption DEF Looping, Worker
    <3> QED BY <1>t, <2>0, <2>p, <3>1, <3>2, EngineAssumption DEF ClearPhase
  <2>4. Aside'
    BY <1>t, <2>0 DEF EngineInv, Phases, Aside
  <2>5. UnitsType'
    BY <1>2, <1>p, <2>0, <2>p DEF EngineInv, Units, UnitsType, Quiet
  <2>6. UnitsHanded' /\ UnitsAccounted' /\ DoneForReason'
    BY <2>0, <2>p DEF EngineInv, Units, UnitsHanded, UnitsAccounted, DoneForReason, Quiet
  <2> QED BY <2>1, <2>2, <2>3, <2>4, <2>5, <2>6 DEF EngineInv, Phases, Units
<1>3. CASE ~ (p.num_done < threads) /\ ~ p.cancelled
  <2>0. /\ params' = [p EXCEPT !.done_ok = TRUE]
        /\ main' = "confirm" /\ asleep' = {Main} /\ ends' = ends
    BY <1>3, <1>h DEF AwaitDone, DoneOk
  <2>p. /\ params' \in [init_ok : BOOLEAN, done_ok : BOOLEAN,
                   num_inits : 0 .. NumThreads, num_done : 0 .. NumThreads,
                   num_doneconfirm : 0 .. NumThreads, work_index : 0 .. MaxUnits,
                   num_totalworks : 0 .. MaxUnits, cancelled : BOOLEAN]
        /\ ~ params'.init_ok /\ params'.done_ok /\ ~ params'.cancelled
        /\ params'.num_doneconfirm = 0
        /\ params'.work_index = params.work_index
        /\ params'.num_totalworks = params.num_totalworks
    BY <1>3, <1>p, <1>t, <2>0
  <2>d. \A w \in Worker : place[w] = "done"
    BY <1>3, <1>p, <1>t, CountsAll, EngineAssumption
  <2>i. params.work_index = params.num_totalworks
    BY <1>3, <1>p, <2>d, EngineAssumption DEF EngineInv, Units, DoneForReason, Worker
  <2>1. TypeOK'
    BY <2>p, <2>0, EngineAssumption DEF EngineInv, TypeOK
  <2>2. QuietPhase' /\ ClearPhase' /\ RunPhase'
    BY <2>0 DEF QuietPhase, ClearPhase, RunPhase, Quiet
  <2>3. ConfirmPhase'
    <3>1. NumInit(place') = 0
      BY <2>d, CountsAll
    <3> QED BY <1>t, <2>0, <2>p, <2>d, <2>i, <3>1 DEF ConfirmPhase
  <2>4. Aside'
    BY <1>t, <2>0 DEF EngineInv, Phases, Aside, Main, Worker
  <2>5. UnitsType'
    BY <2>0, <2>p DEF EngineInv, Units, UnitsType, Quiet
  <2>6. UnitsHanded' /\ UnitsAccounted' /\ DoneForReason'
    BY <2>0, <2>p DEF EngineInv, Units, UnitsHanded, UnitsAccounted, DoneForReason, Quiet
  <2> QED BY <2>1, <2>2, <2>3, <2>4, <2>5, <2>6 DEF EngineInv, Phases, Units
<1> QED BY <1>1, <1>2, <1>3

(* A call begins, with units nobody has done.                            *)
LEMMA MainCalls ==
    ASSUME EngineInv, NEW n \in 0 .. MaxUnits, RunTasks(n)
    PROVE  EngineInv'
<1> USE DEF workerVars
<1>0. main = "idle" /\ main' \in {"linear", "create"}
  BY DEF RunTasks
<1>1. TypeOK'
  BY <1>0, EngineAssumption DEF RunTasks, EngineInv, TypeOK
<1>2. QuietPhase' /\ RunPhase' /\ ConfirmPhase' /\ ClearPhase'
  BY <1>0 DEF RunTasks, EngineInv, Phases, QuietPhase, RunPhase, ConfirmPhase, ClearPhase, Quiet
<1>3. Aside'
  <2>1. \A w \in Worker : ~ cancelflag[w]
    BY <1>0 DEF EngineInv, TypeOK, Phases, Aside, QuietPhase, Quiet
  <2> QED BY <1>0, <2>1 DEF RunTasks, EngineInv, Phases, Aside, Quiet
<1>4. runs' \in [0 .. n - 1 -> {0, 1}] /\ \A i \in DOMAIN runs' : runs'[i] = 0
  BY DEF RunTasks
<1>5. Units'
  BY <1>0, <1>4 DEF RunTasks, Units, UnitsType, UnitsHanded, UnitsAccounted, DoneForReason, Quiet
<1> QED BY <1>1, <1>2, <1>3, <1>5 DEF EngineInv, Phases

(* RunUntil has no units.                                                   *)
LEMMA MainCallsUntil ==
    ASSUME EngineInv, NEW n, NEW e, RunUntil(n, e)
    PROVE  EngineInv'
<1> USE DEF workerVars
<1>0. main = "idle" /\ main' = "until"
  BY DEF RunUntil
<1>1. TypeOK'
  BY <1>0, EngineAssumption, SMTT(60) DEF RunUntil, EngineInv, TypeOK
<1>2. QuietPhase' /\ RunPhase' /\ ConfirmPhase' /\ ClearPhase'
  BY <1>0 DEF RunUntil, EngineInv, Phases, QuietPhase, RunPhase, ConfirmPhase, ClearPhase, Quiet
<1>3. Aside'
  <2>1. \A w \in Worker : ~ cancelflag[w]
    BY <1>0 DEF EngineInv, TypeOK, Phases, Aside, QuietPhase, Quiet
  <2> QED BY <1>0, <2>1 DEF RunUntil, EngineInv, Phases, Aside, Quiet
<1>4. 0 \in 0 .. MaxUnits /\ runs' \in [0 .. 0 - 1 -> {0, 1}] /\ DOMAIN runs' = {}
  BY EngineAssumption DEF RunUntil
<1>5. Units'
  <2>1. \E k \in 0 .. MaxUnits : runs' \in [0 .. k - 1 -> {0, 1}]
    BY <1>4
  <2> QED BY <1>0, <1>4, <2>1
          DEF RunUntil, Units, UnitsType, UnitsHanded, UnitsAccounted, DoneForReason, Quiet
<1> QED BY <1>1, <1>2, <1>3, <1>5 DEF EngineInv, Phases

(* The caller does the units itself, in their order.                        *)
LEMMA MainWorks ==
    ASSUME EngineInv, Linear
    PROVE  EngineInv'
<1> USE DEF workerVars, historyVars
<1>0. main = "linear" /\ main' \in {"linear", "idle"}
      /\ UNCHANGED <<calls, params, threads, workerVars, asleep, pending, ends>>
  BY DEF Linear
<1>1. TypeOK'
  BY <1>0 DEF EngineInv, TypeOK
<1>2. QuietPhase' /\ RunPhase' /\ ConfirmPhase' /\ ClearPhase'
  BY <1>0 DEF EngineInv, Phases, QuietPhase, RunPhase, ConfirmPhase, ClearPhase, Quiet
<1>3. Aside'
  <2>1. \A w \in Worker : ~ cancelflag[w]
    BY <1>0 DEF EngineInv, TypeOK, Phases, Aside, QuietPhase, Quiet
  <2> QED BY <1>0, <2>1 DEF EngineInv, Phases, Aside, Quiet
<1>n. PICK n \in 0 .. MaxUnits : runs \in [0 .. n - 1 -> {0, 1}]
  BY DEF EngineInv, Units, UnitsType
<1>4. CASE Remaining = {} \/ wanted
  <2>1. main' = "idle" /\ runs' = runs /\ wanted' = wanted
    BY <1>4 DEF Linear
  <2>2. ~ wanted => \A i \in DOMAIN runs : runs[i] = 1
    BY <1>4, <1>n DEF Remaining
  <2> QED BY <1>0, <1>1, <1>2, <1>3, <2>1, <2>2
          DEF EngineInv, Phases, Units, UnitsType, UnitsHanded, UnitsAccounted,
              DoneForReason, Quiet
<1>5. CASE ~ (Remaining = {} \/ wanted)
  <2>1. PICK i \in Remaining, c \in BOOLEAN :
            runs' = [runs EXCEPT ![i] = @ + 1] /\ wanted' = c /\ main' = main
    BY <1>5 DEF Linear
  <2>2. runs' \in [0 .. n - 1 -> {0, 1}]
    BY <1>n, <2>1 DEF Remaining
  <2>3. \E k \in 0 .. MaxUnits : runs' \in [0 .. k - 1 -> {0, 1}]
    BY <2>2
  <2> QED BY <1>0, <1>1, <1>2, <1>3, <2>1, <2>3
          DEF EngineInv, Phases, Units, UnitsType, UnitsHanded, UnitsAccounted,
              DoneForReason, Quiet
<1> QED BY <1>4, <1>5

(* A thread more.                                                           *)
LEMMA MainCreates ==
    ASSUME EngineInv, CreateThread
    PROVE  EngineInv'
<1> USE DEF historyVars
<1>0. /\ main = "create" /\ main' = main /\ threads < NumThreads /\ threads' = threads + 1
      /\ place' = [place EXCEPT ![threads + 1] = "init"]
      /\ threads \in 0 .. NumThreads /\ threads + 1 \in Worker
      /\ UNCHANGED <<calls, params, cur, cancelflag, asleep, pending, ends, historyVars>>
  BY EngineAssumption DEF CreateThread, EngineInv, TypeOK, Worker
<1>1. TypeOK'
  BY <1>0, EngineAssumption DEF EngineInv, TypeOK, Worker
<1>2. QuietPhase'
  BY <1>0, EngineAssumption DEF EngineInv, TypeOK, Phases, QuietPhase, Quiet, Worker
<1>3. RunPhase' /\ ConfirmPhase' /\ ClearPhase'
  BY <1>0 DEF RunPhase, ConfirmPhase, ClearPhase
<1>4. Aside'
  <2>1. \A w \in Worker : ~ cancelflag[w]
    BY <1>0 DEF EngineInv, TypeOK, Phases, Aside, QuietPhase, Quiet
  <2> QED BY <1>0, <2>1 DEF EngineInv, TypeOK, Phases, Aside, Quiet
<1>5. Units'
  BY <1>0 DEF EngineInv, Units, UnitsType, UnitsHanded, UnitsAccounted, DoneForReason, Quiet
<1> QED BY <1>1, <1>2, <1>3, <1>4, <1>5 DEF EngineInv, Phases

(* The go-ahead: every worker is at its wait, nothing is handed out.        *)
LEMMA MainGoesAhead ==
    ASSUME EngineInv, GoAhead
    PROVE  EngineInv'
<1> USE DEF workerVars, historyVars
<1>0. /\ main = "create" /\ main' = "inits" /\ threads = NumThreads /\ asleep' = {Main}
      /\ UNCHANGED <<calls, threads, workerVars, pending, ends, historyVars>>
  BY DEF GoAhead
<1>n. PICK n \in 0 .. MaxUnits : runs \in [0 .. n - 1 -> {0, 1}]
  BY DEF EngineInv, Units, UnitsType
<1>d. Cardinality(DOMAIN runs) = n
  <2>1. DOMAIN runs = 0 .. n - 1 /\ n \in Nat
    BY <1>n
  <2>2. Cardinality(0 .. n - 1) = IF 0 > n - 1 THEN 0 ELSE n - 1 - 0 + 1
    BY <2>1, FS_Interval
  <2> QED BY <2>1, <2>2
<1>p. params' = [init_ok |-> TRUE, done_ok |-> FALSE, num_inits |-> 0,
                 num_done |-> 0, num_doneconfirm |-> 0, work_index |-> 0,
                 num_totalworks |-> n, cancelled |-> FALSE]
  BY <1>d DEF GoAhead
<1>w. \A w \in Worker : place[w] = "init"
  BY <1>0 DEF EngineInv, Phases, QuietPhase, Quiet, Worker
<1>1. TypeOK'
  <2>1. params' \in [init_ok : BOOLEAN, done_ok : BOOLEAN,
                   num_inits : 0 .. NumThreads, num_done : 0 .. NumThreads,
                   num_doneconfirm : 0 .. NumThreads, work_index : 0 .. MaxUnits,
                   num_totalworks : 0 .. MaxUnits, cancelled : BOOLEAN]
    BY <1>p, EngineAssumption
  <2> QED BY <1>0, <2>1 DEF EngineInv, TypeOK
<1>2. RunPhase'
  <2>1. NumDone(place') = 0 /\ NumStarted(place') = 0
    BY <1>0, <1>w, CountsAll DEF Looping
  <2> QED BY <1>0, <1>p, <1>w, <2>1 DEF EngineInv, Phases, QuietPhase, RunPhase, Quiet
<1>3. QuietPhase' /\ ConfirmPhase' /\ ClearPhase'
  BY <1>0 DEF QuietPhase, ConfirmPhase, ClearPhase, Quiet
<1>4. Aside'
  BY <1>0, <1>w DEF EngineInv, Phases, Aside
<1>5. UnitsType'
  BY <1>0, <1>n, <1>p DEF EngineInv, Units, UnitsType, Quiet
<1>6. UnitsHanded'
  BY <1>0, <1>p, <1>w DEF EngineInv, Units, UnitsType, UnitsHanded, Claimed
<1>7. UnitsAccounted'
  BY <1>0, <1>n, <1>p DEF UnitsAccounted
<1>8. DoneForReason'
  BY <1>0, <1>w DEF DoneForReason
<1> QED BY <1>1, <1>2, <1>3, <1>4, <1>5, <1>6, <1>7, <1>8 DEF EngineInv, Phases, Units

(* The waits of the caller for the threads, for the work, for the           *)
(* confirmations.                                                           *)
LEMMA MainWaits ==
    ASSUME EngineInv, AwaitInits \/ WokenForDone \/ AwaitConfirm
    PROVE  EngineInv'
<1> USE DEF workerVars, historyVars
<1>1. CASE AwaitInits
  <2>1. CASE params.num_inits < threads
    <3>1. /\ asleep' = asleep \cup {Main}
          /\ UNCHANGED <<main, calls, params, threads, workerVars, pending, ends, historyVars>>
      BY <1>1, <2>1 DEF AwaitInits
    <3>2. /\ asleep' \subseteq Worker \cup {Main}
          /\ \A w \in Worker : w \in asleep' => w \in asleep
      BY <3>1, EngineAssumption DEF EngineInv, TypeOK, Main, Worker
    <3> QED BY <3>1, <3>2, EngineSleeps
  <2>2. CASE ~ (params.num_inits < threads)
    <3>1. /\ main = "inits" /\ threads = NumThreads /\ params.num_inits = NumStarted(place)
          /\ params.num_inits \in 0 .. NumThreads
      BY <1>1 DEF AwaitInits, EngineInv, TypeOK, Phases, RunPhase, Aside, Quiet
    <3>2. NumStarted(place) = NumThreads
      BY <2>2, <3>1, EngineAssumption
    <3> QED BY <1>1, <2>2, <3>1, <3>2, MainAwaitsDone DEF AwaitInits
  <2> QED BY <2>1, <2>2
<1>2. CASE WokenForDone
  <2>1. main = "done" /\ AwaitDone(params)
    BY <1>2 DEF WokenForDone
  <2>2. params = [params EXCEPT !.init_ok = FALSE]
    BY <2>1 DEF EngineInv, TypeOK, Phases, RunPhase
  <2>3. NumStarted(place) = NumThreads
    BY <2>1, CountsAll DEF EngineInv, Phases, RunPhase, Looping
  <2> QED BY <1>2, <2>1, <2>2, <2>3, MainAwaitsDone DEF WokenForDone
<1>3. CASE AwaitConfirm
  <2>1. CASE ~ Confirmed
    <3>1. /\ asleep' = asleep \cup {Main}
          /\ UNCHANGED <<main, calls, params, threads, workerVars, pending, ends, historyVars>>
      BY <1>3, <2>1 DEF AwaitConfirm
    <3>2. /\ asleep' \subseteq Worker \cup {Main}
          /\ \A w \in Worker : w \in asleep' => w \in asleep
      BY <3>1, EngineAssumption DEF EngineInv, TypeOK, Main, Worker
    <3> QED BY <3>1, <3>2, EngineSleeps
  <2>2. CASE Confirmed
    <3>0. /\ main = "confirm" /\ main' = "idle"
          /\ UNCHANGED <<calls, params, threads, workerVars, pending, ends, historyVars, asleep>>
      BY <1>3, <2>2 DEF AwaitConfirm
    <3>1. threads = NumThreads /\ params.num_doneconfirm = NumInit(place)
      BY <3>0 DEF EngineInv, Phases, Aside, ConfirmPhase, Quiet
    <3>2. \A w \in Worker : place[w] = "init"
      BY <2>2, <3>1, CountsAll, EngineAssumption DEF Confirmed
    <3>3. \A i \in DOMAIN runs : runs[i] = 1
      <4> SUFFICES ASSUME NEW i \in DOMAIN runs PROVE runs[i] = 1
        OBVIOUS
      <4>1. i < params.work_index
        BY <3>0 DEF EngineInv, TypeOK, Phases, ConfirmPhase, Units, UnitsType, Quiet
      <4> QED BY <3>0, <3>2, <4>1 DEF EngineInv, Units, UnitsAccounted, Claimed
    <3>4. TypeOK'
      BY <3>0 DEF EngineInv, TypeOK
    <3>5. QuietPhase'
      BY <3>0, <3>1, <3>2 DEF EngineInv, Phases, ConfirmPhase, QuietPhase, Worker
    <3>6. RunPhase' /\ ConfirmPhase' /\ ClearPhase'
      BY <3>0 DEF RunPhase, ConfirmPhase, ClearPhase
    <3>7. Aside'
      BY <3>0 DEF EngineInv, Phases, Aside, Quiet
    <3>8. Units'
      BY <3>0, <3>3 DEF EngineInv, Units, UnitsType, UnitsHanded, UnitsAccounted,
                        DoneForReason, Quiet
    <3> QED BY <3>4, <3>5, <3>6, <3>7, <3>8 DEF EngineInv, Phases
  <2> QED BY <2>1, <2>2
<1> QED BY <1>1, <1>2, <1>3

(* Disposing of the threads of a cancelled call, and the return.            *)
LEMMA MainClears ==
    ASSUME EngineInv, CancelWorker \/ JoinWorker \/ Cleared \/ EndUntil
    PROVE  EngineInv'
<1> USE DEF workerVars, historyVars
<1>1. CASE CancelWorker
  <2>0. /\ main = "clear" /\ main' = "join" /\ ends <= threads /\ pending' = pending \cup {ends}
        /\ UNCHANGED <<calls, params, threads, workerVars, asleep, ends, historyVars>>
    BY <1>1 DEF CancelWorker
  <2>1. threads = NumThreads /\ ends \in Worker /\ pending = {}
    BY <2>0, EngineAssumption DEF EngineInv, TypeOK, Phases, Aside, ClearPhase, Quiet, Worker
  <2>2. TypeOK'
    BY <2>0, <2>1 DEF EngineInv, TypeOK
  <2>3. ClearPhase'
    BY <2>0, <2>1, EngineAssumption DEF EngineInv, TypeOK, Phases, ClearPhase, Worker
  <2>4. QuietPhase' /\ RunPhase' /\ ConfirmPhase' /\ Aside'
    BY <2>0, <2>1 DEF EngineInv, Phases, QuietPhase, RunPhase, ConfirmPhase, Aside, Quiet
  <2>5. Units'
    BY <2>0 DEF EngineInv, Units, UnitsType, UnitsHanded, UnitsAccounted, DoneForReason, Quiet
  <2> QED BY <2>2, <2>3, <2>4, <2>5 DEF EngineInv, Phases
<1>2. CASE JoinWorker
  <2>0. /\ main = "join" /\ main' = "clear" /\ place[ends] = "ended" /\ ends' = ends + 1
        /\ UNCHANGED <<calls, params, threads, workerVars, asleep, pending, historyVars>>
    BY <1>2 DEF JoinWorker, JoinThread
  <2>1. ends \in Worker /\ pending = {}
    BY <2>0, EngineAssumption DEF EngineInv, TypeOK, Phases, ClearPhase, Worker
  <2>2. TypeOK'
    BY <2>0, <2>1, EngineAssumption DEF EngineInv, TypeOK, Worker
  <2>3. ClearPhase'
    BY <2>0, <2>1, EngineAssumption DEF EngineInv, TypeOK, Phases, ClearPhase, Worker
  <2>4. QuietPhase' /\ RunPhase' /\ ConfirmPhase' /\ Aside'
    BY <2>0 DEF EngineInv, Phases, QuietPhase, RunPhase, ConfirmPhase, Aside, Quiet
  <2>5. Units'
    BY <2>0 DEF EngineInv, Units, UnitsType, UnitsHanded, UnitsAccounted, DoneForReason, Quiet
  <2> QED BY <2>2, <2>3, <2>4, <2>5 DEF EngineInv, Phases
<1>3. CASE Cleared
  <2>0. /\ main = "clear" /\ main' = "idle" /\ ends > threads /\ threads' = 0 /\ ends' = 0
        /\ place' = [w \in Worker |-> IF place[w] = "ended" THEN "none" ELSE place[w]]
        /\ UNCHANGED <<calls, params, cur, cancelflag, asleep, pending, historyVars>>
    BY <1>3 DEF Cleared
  <2>1. \A w \in Worker : place[w] = "ended"
    BY <2>0, EngineAssumption DEF EngineInv, TypeOK, Phases, Aside, ClearPhase, Quiet, Worker
  <2>2. /\ \A w \in Worker : place'[w] = "none" /\ ~ cancelflag[w] /\ w \notin asleep
        /\ pending = {} /\ wanted
    BY <2>0, <2>1 DEF EngineInv, Phases, Aside, ClearPhase, Units, UnitsType, Quiet
  <2>3. TypeOK'
    BY <2>0, EngineAssumption DEF EngineInv, TypeOK
  <2>4. QuietPhase'
    BY <2>0, <2>2, EngineAssumption DEF EngineInv, Phases, ClearPhase, QuietPhase, Worker
  <2>5. RunPhase' /\ ConfirmPhase' /\ ClearPhase' /\ Aside'
    BY <2>0, <2>2 DEF RunPhase, ConfirmPhase, ClearPhase, Aside, Quiet
  <2>6. Units'
    <3>1. UnitsType'
      BY <2>0, <2>2 DEF EngineInv, Units, UnitsType, Quiet
    <3>2. UnitsHanded' /\ UnitsAccounted' /\ DoneForReason'
      BY <2>0 DEF UnitsHanded, UnitsAccounted, DoneForReason, Quiet
    <3> QED BY <3>1, <3>2 DEF Units
  <2> QED BY <2>3, <2>4, <2>5, <2>6 DEF EngineInv, Phases
<1>4. CASE EndUntil
  <2>0. /\ main = "until" /\ main' = "idle"
        /\ UNCHANGED <<calls, params, threads, workerVars, asleep, pending, ends, historyVars>>
    BY <1>4 DEF EndUntil
  <2>1. TypeOK'
    BY <2>0 DEF EngineInv, TypeOK
  <2>2. Phases'
    BY <2>0 DEF EngineInv, Phases, QuietPhase, RunPhase, ConfirmPhase, ClearPhase, Aside, Quiet
  <2>3. Units'
    <3>1. UnitsType'
      BY <2>0 DEF EngineInv, Units, UnitsType, Quiet
    <3>2. UnitsHanded' /\ UnitsAccounted' /\ DoneForReason'
      BY <2>0 DEF UnitsHanded, UnitsAccounted, DoneForReason, Quiet
    <3> QED BY <3>1, <3>2 DEF Units
  <2> QED BY <2>1, <2>2, <2>3 DEF EngineInv
<1> QED BY <1>1, <1>2, <1>3, <1>4

(* The invariant of RunTasks is inductive.                                  *)
LEMMA EngineInductive == EngineInv /\ [EngineNext]_engineVars => EngineInv'
<1> SUFFICES ASSUME EngineInv, [EngineNext]_engineVars PROVE EngineInv'
  OBVIOUS
<1>1. CASE \E n \in 0 .. MaxUnits : RunTasks(n)
  BY <1>1, MainCalls
<1>2. CASE \E n \in Worker, e \in UNION {[1 .. k -> BOOLEAN] : k \in 0 .. MaxEntries} :
                RunUntil(n, e)
  BY <1>2, MainCallsUntil
<1>3. CASE MainStep
  BY <1>3, MainWorks, MainCreates, MainGoesAhead, MainWaits, MainClears DEF MainStep
<1>4. CASE \E w \in Worker : WorkerStep(w)
  BY <1>4, WorkerBegins, WorkerEntersWork, WorkerWorks, WorkerLocksAgain, WorkerConfirms,
     WorkerEnds DEF WorkerStep
<1>5. CASE \E w \in Worker : TeamStep(w)
  <2>1. UNCHANGED <<main, calls, params, threads, workerVars, asleep, pending, ends, historyVars>>
    BY <1>5 DEF TeamStep, NextTask, TestMatch, StoreMatch, ReturnFound, TeamOnly
  <2> QED BY <2>1, EngineSleeps DEF EngineInv, TypeOK
<1>6. CASE \E t \in Worker \cup {Main} : WakeSpuriously(t)
  <2>1. PICK t \in Worker \cup {Main} : WakeSpuriously(t)
    BY <1>6
  <2> QED BY <2>1, EngineSleeps DEF WakeSpuriously, EngineInv, TypeOK
<1>7. CASE UNCHANGED engineVars
  BY <1>7, EngineSleeps DEF engineVars, workerVars, historyVars, EngineInv, TypeOK
<1> QED BY <1>1, <1>2, <1>3, <1>4, <1>5, <1>6, <1>7 DEF EngineNext

(* RunTasks: with any number of threads each unit is handed out once, a     *)
(* call that nobody cancelled has done them all when it returns, and the    *)
(* counters of workerparam stay within the number of threads.               *)
THEOREM UnitsDoneOnce == EngineSpec => []WorkDoneOnce
<1>1. EngineSpec => []EngineInv
  BY EngineInitially, EngineInductive, PTL DEF EngineSpec
<1>2. EngineInv => WorkDoneOnce
  <2> SUFFICES ASSUME EngineInv PROVE WorkDoneOnce
    OBVIOUS
  <2>1. PICK n \in 0 .. MaxUnits : runs \in [0 .. n - 1 -> {0, 1}]
    BY DEF EngineInv, Units, UnitsType
  <2>2. \A i \in DOMAIN runs : runs[i] <= 1
    BY <2>1
  <2> QED BY <2>2 DEF EngineInv, Units, UnitsType, WorkDoneOnce, EachUnitOnce
<1> QED BY <1>1, <1>2, PTL

(* RunTasks leaves nobody in DoWork: when it has returned, finished or      *)
(* cancelled, the workers there are all wait for the next go-ahead.         *)
THEOREM NobodyLeft == EngineSpec => []NobodyLeftWorking
<1>1. EngineSpec => []EngineInv
  BY EngineInitially, EngineInductive, PTL DEF EngineSpec
<1>2. EngineInv => NobodyLeftWorking
  BY DEF EngineInv, Phases, QuietPhase, Quiet, NobodyLeftWorking
<1> QED BY <1>1, <1>2, PTL

-----------------------------------------------------------------------------
(* The invariant of the team holds before the first call.                   *)
LEMMA TeamInitially == EngineInit => TeamInv
<1> SUFFICES ASSUME EngineInit PROVE TeamInv
  OBVIOUS
<1>1. TeamType
  BY EngineAssumption DEF EngineInit, NoTeam, TeamType, Worker
<1> QED BY <1>1 DEF EngineInit, NoTeam, TeamInv, MembersLeave, MatchHolds, MatchKept, Worker

(* RunUntil begins with a team that has found nothing.                      *)
LEMMA TeamBegins ==
    ASSUME TeamInv, NEW n \in Worker, NEW k \in 0 .. MaxEntries,
           NEW e \in [1 .. k -> BOOLEAN], RunUntil(n, e)
    PROVE  TeamInv'
<1>1. e \in Seq(BOOLEAN) /\ Len(e) = k /\ DOMAIN e = 1 .. k
  BY EngineAssumption
<1> DEFINE a == [w \in Worker |-> IF w <= n THEN "next" ELSE "out"]
           m == [w \in Worker |-> 0]
<1>2. until' = [size |-> n, entries |-> e, next |-> 1, found |-> FALSE, which |-> 0,
                holder |-> 0, cancel |-> FALSE, at |-> a, match |-> m]
  BY DEF RunUntil, NoTeam
<1>3. /\ a \in [Worker -> {"out", "next", "test", "store", "return"}]
      /\ m \in [Worker -> Nat]
      /\ \A w \in Worker : a[w] = IF w <= n THEN "next" ELSE "out"
  BY EngineAssumption DEF Worker
<1> HIDE DEF a, m
<1>4. n \in 1 .. NumThreads
  BY DEF Worker
<1>5. TeamType'
  BY <1>1, <1>2, <1>3, <1>4, EngineAssumption DEF TeamType
<1>6. main' = "until"
  BY DEF RunUntil
<1> QED BY <1>1, <1>2, <1>3, <1>5, <1>6, EngineAssumption
       DEF TeamInv, MembersLeave, MatchHolds, MatchKept, Worker

\* What a step of the member w leaves alone, and where it takes w.
Moves(w, to, m) ==
    /\ until'.size = until.size /\ until'.entries = until.entries
    /\ \A v \in Worker : /\ until'.at[v] = IF v = w THEN to ELSE until.at[v]
                         /\ until'.match[v] = IF v = w THEN m ELSE until.match[v]

(* The steps of the members of a team keep the invariant.                   *)
LEMMA TeamGoesOn ==
    ASSUME TeamInv, NEW w \in Worker, TeamStep(w)
    PROVE  TeamInv'
<1> USE DEF TeamOnly
<1>0. main' = main
  BY DEF TeamStep, NextTask, TestMatch, StoreMatch, ReturnFound
<1>e. /\ until.entries \in Seq(BOOLEAN) /\ Len(until.entries) \in Nat
      /\ DOMAIN until.entries = 1 .. Len(until.entries)
      /\ \A i \in DOMAIN until.entries : until.entries[i] \in BOOLEAN
  BY DEF TeamInv, TeamType
<1>t. /\ until.at \in [Worker -> {"out", "next", "test", "store", "return"}]
      /\ until.match \in [Worker -> Nat] /\ until.next \in Nat \ {0}
      /\ until.holder \in 0 .. NumThreads /\ until.which \in Nat
      /\ until.found \in BOOLEAN /\ until.cancel \in BOOLEAN
      /\ until.size \in 0 .. NumThreads /\ (until.size = 0 => until.entries = <<>>)
      /\ w \in 1 .. NumThreads
  BY DEF TeamInv, TeamType, Worker
<1>n. /\ until.match[w] \in Nat /\ w \in 0 .. NumThreads /\ 0 \in 0 .. NumThreads
      /\ until.next + 1 \in Nat \ {0} /\ until.next + 1 > until.next
  BY <1>t, EngineAssumption
<1>1. CASE NextTask(w)
  <2>1. CASE until.cancel
    <3>1. TeamType'
      BY <1>t, <1>n, <1>1, <2>1 DEF NextTask, TeamInv, TeamType
    <3>2. /\ Moves(w, "out", until.match[w])
          /\ until'.next = until.next /\ until'.found = until.found /\ until'.which = until.which
          /\ until'.holder = until.holder /\ until'.cancel = until.cancel
      BY <1>t, <1>1, <2>1 DEF NextTask, TeamInv, TeamType, Moves
    <3>3. MembersLeave'
      BY <1>0, <1>e, <1>t, <1>1, <2>1, <3>2 DEF TeamInv, MembersLeave, NextTask, Moves
    <3>4. MatchHolds'
      BY <1>e, <1>t, <1>n, <1>1, <2>1, <3>2 DEF TeamInv, MatchHolds, MatchKept, NextTask, Moves
    <3>5. MatchKept'
      <4>1. until'.holder # 0 => until'.at[until'.holder] = "store"
        BY <1>t, <1>1, <2>1, <3>2 DEF TeamInv, MatchHolds, MatchKept, NextTask, Moves, Worker
      <4>2. ASSUME NEW i \in DOMAIN until.entries, until.entries[i], i < until'.next
            PROVE  \/ until'.found \/ until'.holder # 0
                   \/ \E v \in Worker : until'.at[v] = "test" /\ until'.match[v] = i
        BY <1>e, <1>t, <1>1, <2>1, <3>2, <4>2 DEF TeamInv, MatchKept, NextTask, Moves
      <4> QED BY <3>2, <4>1, <4>2 DEF MatchKept, Moves
    <3> QED BY <3>1, <3>3, <3>4, <3>5 DEF TeamInv
  <2>2. CASE ~ until.cancel /\ until.next > Len(until.entries)
    <3>1. TeamType'
      BY <1>t, <1>n, <1>1, <2>2 DEF NextTask, TeamInv, TeamType
    <3>2. /\ Moves(w, "out", until.match[w])
          /\ until'.next = until.next + 1 /\ until'.found = until.found /\ until'.which = until.which
          /\ until'.holder = until.holder /\ until'.cancel = until.cancel
      BY <1>t, <1>1, <2>2 DEF NextTask, TeamInv, TeamType, Moves
    <3>3. MembersLeave'
      BY <1>0, <1>e, <1>t, <1>1, <2>2, <3>2 DEF TeamInv, MembersLeave, NextTask, Moves
    <3>4. MatchHolds'
      BY <1>e, <1>t, <1>n, <1>1, <2>2, <3>2 DEF TeamInv, MatchHolds, MatchKept, NextTask, Moves
    <3>5. MatchKept'
      <4>1. until'.holder # 0 => until'.at[until'.holder] = "store"
        BY <1>t, <1>1, <2>2, <3>2 DEF TeamInv, MatchHolds, MatchKept, NextTask, Moves, Worker
      <4>2. ASSUME NEW i \in DOMAIN until.entries, until.entries[i], i < until'.next
            PROVE  \/ until'.found \/ until'.holder # 0
                   \/ \E v \in Worker : until'.at[v] = "test" /\ until'.match[v] = i
        BY <1>e, <1>t, <1>1, <2>2, <3>2, <4>2 DEF TeamInv, MatchKept, NextTask, Moves
      <4> QED BY <3>2, <4>1, <4>2 DEF MatchKept, Moves
    <3> QED BY <3>1, <3>3, <3>4, <3>5 DEF TeamInv
  <2>3. CASE ~ until.cancel /\ ~ (until.next > Len(until.entries))
    <3>1. TeamType'
      BY <1>t, <1>n, <1>1, <2>3 DEF NextTask, TeamInv, TeamType
    <3>2. /\ Moves(w, "test", until.next)
          /\ until'.next = until.next + 1 /\ until'.found = until.found /\ until'.which = until.which
          /\ until'.holder = until.holder /\ until'.cancel = until.cancel
      BY <1>t, <1>1, <2>3 DEF NextTask, TeamInv, TeamType, Moves
    <3>3. MembersLeave'
      BY <1>0, <1>e, <1>t, <1>1, <2>3, <3>2 DEF TeamInv, MembersLeave, NextTask, Moves
    <3>4. MatchHolds'
      BY <1>e, <1>t, <1>n, <1>1, <2>3, <3>2 DEF TeamInv, MatchHolds, MatchKept, NextTask, Moves
    <3>5. MatchKept'
      <4>1. until'.holder # 0 => until'.at[until'.holder] = "store"
        BY <1>t, <1>1, <2>3, <3>2 DEF TeamInv, MatchHolds, MatchKept, NextTask, Moves, Worker
      <4>2. ASSUME NEW i \in DOMAIN until.entries, until.entries[i], i < until'.next
            PROVE  \/ until'.found \/ until'.holder # 0
                   \/ \E v \in Worker : until'.at[v] = "test" /\ until'.match[v] = i
        BY <1>e, <1>t, <1>1, <2>3, <3>2, <4>2 DEF TeamInv, MatchKept, NextTask, Moves
      <4> QED BY <3>2, <4>1, <4>2 DEF MatchKept, Moves
    <3> QED BY <3>1, <3>3, <3>4, <3>5 DEF TeamInv
  <2> QED BY <2>1, <2>2, <2>3
<1>2. CASE TestMatch(w)
  <2>1. CASE until.entries[until.match[w]] /\ until.holder = 0
    <3>1. TeamType'
      BY <1>t, <1>n, <1>2, <2>1 DEF TestMatch, TeamInv, TeamType
    <3>2. /\ Moves(w, "store", until.match[w])
          /\ until'.holder = w /\ until'.next = until.next /\ until'.found = until.found
          /\ until'.which = until.which /\ until'.cancel = until.cancel
      BY <1>t, <1>2, <2>1 DEF TestMatch, TeamInv, TeamType, Moves
    <3>3. MembersLeave'
      BY <1>0, <1>e, <1>t, <1>2, <2>1, <3>2 DEF TeamInv, MembersLeave, TestMatch, Moves
    <3>4. MatchHolds'
      <4>1. \A v \in Worker : until.at[v] # "store"
        BY <2>1 DEF TeamInv, MatchHolds, Worker
      <4> QED BY <1>e, <1>t, <1>n, <1>2, <2>1, <3>2, <4>1
              DEF TeamInv, MatchHolds, TestMatch, Moves
    <3>5. MatchKept'
      <4>1. until'.holder # 0 => until'.at[until'.holder] = "store"
        BY <1>t, <1>2, <2>1, <3>2 DEF TeamInv, MatchHolds, MatchKept, TestMatch, Moves, Worker
      <4>2. ASSUME NEW i \in DOMAIN until.entries, until.entries[i], i < until'.next
            PROVE  \/ until'.found \/ until'.holder # 0
                   \/ \E v \in Worker : until'.at[v] = "test" /\ until'.match[v] = i
        BY <1>e, <1>t, <1>2, <2>1, <3>2, <4>2 DEF TeamInv, MatchKept, TestMatch, Moves
      <4> QED BY <3>2, <4>1, <4>2 DEF MatchKept, Moves
    <3> QED BY <3>1, <3>3, <3>4, <3>5 DEF TeamInv
  <2>2. CASE ~ (until.entries[until.match[w]] /\ until.holder = 0)
    <3>1. TeamType'
      BY <1>t, <1>n, <1>2, <2>2 DEF TestMatch, TeamInv, TeamType
    <3>2. /\ Moves(w, "return", until.match[w])
          /\ until'.next = until.next /\ until'.found = until.found /\ until'.which = until.which
          /\ until'.holder = until.holder /\ until'.cancel = until.cancel
      BY <1>t, <1>2, <2>2 DEF TestMatch, TeamInv, TeamType, Moves
    <3>3. MembersLeave'
      BY <1>0, <1>e, <1>t, <1>2, <2>2, <3>2 DEF TeamInv, MembersLeave, TestMatch, Moves
    <3>4. MatchHolds'
      BY <1>e, <1>t, <1>n, <1>2, <2>2, <3>2 DEF TeamInv, MatchHolds, MatchKept, TestMatch, Moves
    <3>5. MatchKept'
      <4>1. until'.holder # 0 => until'.at[until'.holder] = "store"
        BY <1>t, <1>2, <2>2, <3>2 DEF TeamInv, MatchHolds, MatchKept, TestMatch, Moves, Worker
      <4>2. ASSUME NEW i \in DOMAIN until.entries, until.entries[i], i < until'.next
            PROVE  \/ until'.found \/ until'.holder # 0
                   \/ \E v \in Worker : until'.at[v] = "test" /\ until'.match[v] = i
        BY <1>e, <1>t, <1>2, <2>2, <3>2, <4>2 DEF TeamInv, MatchKept, TestMatch, Moves
      <4> QED BY <3>2, <4>1, <4>2 DEF MatchKept, Moves
    <3> QED BY <3>1, <3>3, <3>4, <3>5 DEF TeamInv
  <2> QED BY <2>1, <2>2
<1>3. CASE StoreMatch(w)
  <2>1. TeamType'
    BY <1>t, <1>n, <1>3 DEF StoreMatch, AutoMatch, TeamInv, TeamType
  <2>2. /\ Moves(w, "return", until.match[w])
        /\ until'.found = TRUE /\ until'.which = until.match[w] /\ until'.holder = 0
        /\ until'.next = until.next /\ until'.cancel = until.cancel
    BY <1>t, <1>3 DEF StoreMatch, AutoMatch, TeamInv, TeamType, Moves
  <2>3. MembersLeave'
    BY <1>0, <1>e, <1>t, <1>3, <2>2 DEF TeamInv, MembersLeave, StoreMatch, Moves
  <2>4. MatchHolds'
    BY <1>e, <1>t, <1>n, <1>3, <2>2 DEF TeamInv, MatchHolds, MatchKept, StoreMatch, Moves
  <2>5. MatchKept'
    <3>1. until'.holder # 0 => until'.at[until'.holder] = "store"
      BY <1>t, <1>3, <2>2 DEF TeamInv, MatchHolds, MatchKept, StoreMatch, Moves, Worker
    <3>2. ASSUME NEW i \in DOMAIN until.entries, until.entries[i], i < until'.next
          PROVE  \/ until'.found \/ until'.holder # 0
                 \/ \E v \in Worker : until'.at[v] = "test" /\ until'.match[v] = i
      BY <1>e, <1>t, <1>3, <2>2, <3>2 DEF TeamInv, MatchKept, StoreMatch, Moves
    <3> QED BY <2>2, <3>1, <3>2 DEF MatchKept, Moves
  <2> QED BY <2>1, <2>3, <2>4, <2>5 DEF TeamInv
<1>4. CASE ReturnFound(w)
  <2>1. CASE until.found
    <3>1. TeamType'
      BY <1>t, <1>n, <1>4, <2>1 DEF ReturnFound, TeamInv, TeamType
    <3>2. /\ Moves(w, "out", until.match[w])
          /\ until'.cancel = TRUE /\ until'.next = until.next /\ until'.found = until.found
          /\ until'.which = until.which /\ until'.holder = until.holder
      BY <1>t, <1>4, <2>1 DEF ReturnFound, TeamInv, TeamType, Moves
    <3>3. MembersLeave'
      BY <1>0, <1>e, <1>t, <1>4, <2>1, <3>2 DEF TeamInv, MembersLeave, ReturnFound, Moves
    <3>4. MatchHolds'
      BY <1>e, <1>t, <1>n, <1>4, <2>1, <3>2 DEF TeamInv, MatchHolds, MatchKept, ReturnFound, Moves
    <3>5. MatchKept'
      <4>1. until'.holder # 0 => until'.at[until'.holder] = "store"
        BY <1>t, <1>4, <2>1, <3>2 DEF TeamInv, MatchHolds, MatchKept, ReturnFound, Moves, Worker
      <4>2. ASSUME NEW i \in DOMAIN until.entries, until.entries[i], i < until'.next
            PROVE  \/ until'.found \/ until'.holder # 0
                   \/ \E v \in Worker : until'.at[v] = "test" /\ until'.match[v] = i
        BY <1>e, <1>t, <1>4, <2>1, <3>2, <4>2 DEF TeamInv, MatchKept, ReturnFound, Moves
      <4> QED BY <3>2, <4>1, <4>2 DEF MatchKept, Moves
    <3> QED BY <3>1, <3>3, <3>4, <3>5 DEF TeamInv
  <2>2. CASE ~ until.found
    <3>1. TeamType'
      BY <1>t, <1>n, <1>4, <2>2 DEF ReturnFound, TeamInv, TeamType
    <3>2. /\ Moves(w, "next", until.match[w])
          /\ until'.next = until.next /\ until'.found = until.found /\ until'.which = until.which
          /\ until'.holder = until.holder /\ until'.cancel = until.cancel
      BY <1>t, <1>4, <2>2 DEF ReturnFound, TeamInv, TeamType, Moves
    <3>3. MembersLeave'
      BY <1>0, <1>e, <1>t, <1>4, <2>2, <3>2 DEF TeamInv, MembersLeave, ReturnFound, Moves
    <3>4. MatchHolds'
      BY <1>e, <1>t, <1>n, <1>4, <2>2, <3>2 DEF TeamInv, MatchHolds, MatchKept, ReturnFound, Moves
    <3>5. MatchKept'
      <4>1. until'.holder # 0 => until'.at[until'.holder] = "store"
        BY <1>t, <1>4, <2>2, <3>2 DEF TeamInv, MatchHolds, MatchKept, ReturnFound, Moves, Worker
      <4>2. ASSUME NEW i \in DOMAIN until.entries, until.entries[i], i < until'.next
            PROVE  \/ until'.found \/ until'.holder # 0
                   \/ \E v \in Worker : until'.at[v] = "test" /\ until'.match[v] = i
        BY <1>e, <1>t, <1>4, <2>2, <3>2, <4>2 DEF TeamInv, MatchKept, ReturnFound, Moves
      <4> QED BY <3>2, <4>1, <4>2 DEF MatchKept, Moves
    <3> QED BY <3>1, <3>3, <3>4, <3>5 DEF TeamInv
  <2> QED BY <2>1, <2>2
<1> QED BY <1>1, <1>2, <1>3, <1>4 DEF TeamStep

(* Everything else leaves the team alone.                                   *)
LEMMA TeamStays ==
    ASSUME TeamInv, until' = until,
           main' # "until" => \A w \in Worker : until.at[w] = "out"
    PROVE  TeamInv'
BY DEF TeamInv, TeamType, MembersLeave, MatchHolds, MatchKept

(* The invariant of the team is inductive.                                  *)
LEMMA TeamInductive == TeamInv /\ [EngineNext]_engineVars => TeamInv'
<1> SUFFICES ASSUME TeamInv, [EngineNext]_engineVars PROVE TeamInv'
  OBVIOUS
<1>q. main # "until" => \A w \in Worker : until.at[w] = "out"
  BY DEF TeamInv, MembersLeave
<1>1. CASE \E n \in 0 .. MaxUnits : RunTasks(n)
  BY <1>1, <1>q, TeamStays DEF RunTasks
<1>2. CASE \E n \in Worker, e \in UNION {[1 .. k -> BOOLEAN] : k \in 0 .. MaxEntries} :
                RunUntil(n, e)
  <2>1. PICK n \in Worker, e \in UNION {[1 .. k -> BOOLEAN] : k \in 0 .. MaxEntries} :
                RunUntil(n, e)
    BY <1>2
  <2>2. PICK k \in 0 .. MaxEntries : e \in [1 .. k -> BOOLEAN]
    OBVIOUS
  <2> QED BY <2>1, <2>2, TeamBegins
<1>3. CASE MainStep
  <2>1. until' = until
    BY <1>3 DEF MainStep, Linear, CreateThread, GoAhead, AwaitInits, WokenForDone,
                AwaitConfirm, CancelWorker, JoinWorker, Cleared, EndUntil
  <2>2. main' # "until" => \A w \in Worker : until.at[w] = "out"
    BY <1>3, <1>q DEF MainStep, Linear, CreateThread, GoAhead, AwaitInits, WokenForDone,
                AwaitConfirm, CancelWorker, JoinWorker, Cleared, EndUntil
  <2> QED BY <2>1, <2>2, TeamStays
<1>4. CASE \E w \in Worker : WorkerStep(w)
  <2>1. until' = until /\ main' = main
    BY <1>4 DEF WorkerStep, AwaitInit, EnterWork, DoWork, LockAgain, WokenForDoneOk,
                ActOnCancel
  <2> QED BY <1>q, <2>1, TeamStays
<1>5. CASE \E w \in Worker : TeamStep(w)
  BY <1>5, TeamGoesOn
<1>6. CASE \E t \in Worker \cup {Main} : WakeSpuriously(t)
  <2>1. until' = until /\ main' = main
    BY <1>6 DEF WakeSpuriously
  <2> QED BY <1>q, <2>1, TeamStays
<1>7. CASE UNCHANGED engineVars
  BY <1>q, <1>7, TeamStays DEF engineVars
<1> QED BY <1>1, <1>2, <1>3, <1>4, <1>5, <1>6, <1>7 DEF EngineNext

(* With the team out, a match among the entries has been stored.            *)
LEMMA TeamEnds == TeamInv => MatchIsFound
<1> SUFFICES ASSUME TeamInv, main = "idle"
             PROVE  /\ until.found = (\E i \in DOMAIN until.entries : until.entries[i])
                    /\ until.found => /\ until.which \in DOMAIN until.entries
                                      /\ until.entries[until.which]
  BY DEF MatchIsFound
<1>1. /\ \A w \in Worker : until.at[w] = "out"
      /\ until.holder \in 0 .. NumThreads
      /\ until.found \in BOOLEAN /\ until.size \in 0 .. NumThreads
      /\ until.entries \in Seq(BOOLEAN) /\ until.next \in Nat
  BY DEF TeamInv, MembersLeave, TeamType
<1>2. until.found => /\ until.which \in DOMAIN until.entries
                     /\ until.entries[until.which]
  BY DEF TeamInv, MatchHolds
<1>3. ASSUME NEW i \in DOMAIN until.entries, until.entries[i], ~ until.found PROVE FALSE
  <2>1. until.holder = 0
    BY <1>1 DEF TeamInv, MatchKept, Worker
  <2>2. until.size # 0
    BY DEF TeamInv, TeamType
  <2>3. 1 \in Worker /\ 1 <= until.size
    BY <1>1, <2>2, EngineAssumption DEF Worker
  <2>4. until.next > Len(until.entries)
    BY <1>1, <1>3, <2>3 DEF TeamInv, MembersLeave
  <2>5. i < until.next
    BY <1>1, <2>4
  <2> QED BY <1>1, <1>3, <2>1, <2>5 DEF TeamInv, MatchKept
<1> QED BY <1>1, <1>2, <1>3

(* CreateReusingPlan's RunUntil finds the block whenever an entry of the    *)
(* index holds it, and what it stores is such an entry, for every team size *)
(* and every list of entries.                                               *)
THEOREM MatchFound == EngineSpec => []MatchIsFound
<1>1. EngineSpec => []TeamInv
  BY TeamInitially, TeamInductive, PTL DEF EngineSpec
<1> QED BY <1>1, TeamEnds, PTL
=============================================================================
