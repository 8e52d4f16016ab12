----------------------------- MODULE WorkEngine -----------------------------
(***************************************************************************)
(* ThreadWorkEngine of lib/threadworkengine.tcc: RunTasks of the builds    *)
(* with pthreads, with its persistent workers (WorkRunner), and RunUntil   *)
(* with the search for an identical block that uses it                     *)
(* (CreateReusingPlan).  The OpenMP version of RunTasks is in              *)
(* OverlapSearch.                                                          *)
(*                                                                         *)
(* All of params is guarded by one mutex, so what a thread does from       *)
(* taking the mutex to releasing it (unlock, wait, end) is one step.  A    *)
(* thread that waits for a condition is in asleep; a signal, a broadcast   *)
(* or nothing at all wakes it, and then it takes the mutex again.          *)
(* Cancellation is deferred: it acts where a thread waits and, as it reads *)
(* files there, in DoWork.                                                 *)
(***************************************************************************)
EXTENDS Integers, Sequences, FiniteSets

CONSTANTS
    NumThreads,     \* UseThreads, the same in every call
    MaxUnits,       \* bound: work units of a call of RunTasks
    MaxEntries,     \* bound: entries of the index under one hash
    MaxCalls        \* bound: calls of the engine

ASSUME EngineAssumption ==
    /\ NumThreads \in Nat \ {0}
    /\ MaxUnits \in Nat /\ MaxEntries \in Nat /\ MaxCalls \in Nat

Main == 0
Worker == 1 .. NumThreads

VARIABLES
    main,       \* where the caller of the engine is
    calls,      \* number of calls so far
    params,     \* workerparam
    threads,    \* threads.size()
    place,      \* where each worker is
    cur,        \* cur_work of each worker
    cancelflag, \* what its DoWork returned
    asleep,     \* Main and workers in ThreadCondition::Wait
    pending,    \* workers with a pthread_cancel not yet acted upon
    ends,       \* the element of threads that threads.clear() destroys
    runs,       \* history: how often DoWork ran for each unit of the call
    wanted,     \* history: some DoWork of the call asked to cancel
    until,      \* a RunUntil in progress
    openmp      \* is this a build with OpenMP?

engineVars == <<main, calls, params, threads, place, cur, cancelflag, asleep, pending,
                ends, runs, wanted, until, openmp>>
workerVars == <<place, cur, cancelflag>>
historyVars == <<runs, wanted>>

NoTeam == [size |-> 0, entries |-> <<>>, next |-> 1, found |-> FALSE,
           which |-> 0, holder |-> 0, cancel |-> FALSE,
           at |-> [w \in Worker |-> "out"], match |-> [w \in Worker |-> 0]]

EngineInit ==
    /\ main = "idle" /\ calls = 0 /\ threads = 0 /\ ends = 0
    /\ params = [init_ok |-> FALSE, done_ok |-> FALSE, num_inits |-> 0,
                 num_done |-> 0, num_doneconfirm |-> 0, work_index |-> 0,
                 num_totalworks |-> 0, cancelled |-> FALSE]
    /\ place = [w \in Worker |-> "none"]
    /\ cur = [w \in Worker |-> 0]
    /\ cancelflag = [w \in Worker |-> FALSE]
    /\ asleep = {} /\ pending = {}
    /\ runs = <<>> /\ wanted = FALSE
    /\ until = NoTeam
    /\ openmp \in BOOLEAN

-----------------------------------------------------------------------------
(* RunTasks, the calling thread *)

\* A call with n work units.  With one thread or one unit the caller does
\* them itself.
RunTasks(n) ==
    /\ ~ openmp
    /\ main = "idle" /\ calls < MaxCalls
    /\ calls' = calls + 1
    /\ runs' = [i \in 0 .. n - 1 |-> 0]
    /\ wanted' = FALSE
    /\ main' = IF NumThreads <= 1 \/ n <= 1 THEN "linear" ELSE "create"
    /\ UNCHANGED <<params, threads, workerVars, asleep, pending, ends, until,
                   openmp>>

Remaining == {i \in DOMAIN runs : runs[i] = 0}

\* for(a = 0; a < num_workunits; ++a) if(DoWork(a, workparams)) break;
Linear ==
    /\ main = "linear"
    /\ IF Remaining = {} \/ wanted
       THEN main' = "idle" /\ UNCHANGED historyVars
       ELSE \E i \in Remaining, c \in BOOLEAN :
                /\ \A j \in Remaining : i <= j
                /\ runs' = [runs EXCEPT ![i] = @ + 1]
                /\ wanted' = c
                /\ UNCHANGED main
    /\ UNCHANGED <<calls, params, threads, workerVars, asleep, pending, ends,
                   until, openmp>>

\* CreateThread for the next element of threads.
CreateThread ==
    /\ main = "create" /\ threads < NumThreads
    /\ threads' = threads + 1
    /\ place' = [place EXCEPT ![threads + 1] = "init"]
    /\ UNCHANGED <<main, calls, params, cur, cancelflag, asleep, pending, ends,
                   historyVars, until, openmp>>

\* The parameters of this call; the go-ahead; the first wait.
GoAhead ==
    /\ main = "create" /\ threads = NumThreads
    /\ params' = [init_ok |-> TRUE, done_ok |-> FALSE, num_inits |-> 0,
                  num_done |-> 0, num_doneconfirm |-> 0, work_index |-> 0,
                  num_totalworks |-> Cardinality(DOMAIN runs),
                  cancelled |-> FALSE]
    /\ asleep' = {Main}
    /\ main' = "inits"
    /\ UNCHANGED <<calls, threads, workerVars, pending, ends, historyVars, until,
                   openmp>>

\* done_ok and the broadcast; then either the workers are disposed of or
\* their confirmations are awaited.
DoneOk(p) ==
    /\ params' = [p EXCEPT !.done_ok = TRUE]
    /\ IF p.cancelled
       THEN main' = "clear" /\ asleep' = {} /\ ends' = 1
       ELSE main' = "confirm" /\ asleep' = {Main} /\ UNCHANGED ends

\* while(num_done < threads.size()) { if(cancelled) break; Wait ... }
AwaitDone(p) ==
    IF p.num_done < threads /\ ~ p.cancelled
    THEN /\ params' = p
         /\ asleep' = asleep \cup {Main}
         /\ main' = "done"
         /\ UNCHANGED ends
    ELSE DoneOk(p)

AwaitInits ==
    /\ main = "inits" /\ Main \notin asleep
    /\ IF params.num_inits < threads
       THEN asleep' = asleep \cup {Main} /\ UNCHANGED <<main, params, ends>>
       ELSE AwaitDone([params EXCEPT !.init_ok = FALSE])
    /\ UNCHANGED <<calls, threads, workerVars, pending, historyVars, until, openmp>>

WokenForDone ==
    /\ main = "done" /\ Main \notin asleep
    /\ AwaitDone(params)
    /\ UNCHANGED <<calls, threads, workerVars, pending, historyVars, until, openmp>>

\* Mutant: RunTasks that returns without waiting for the confirmations.
ConfirmedAtOnce == TRUE

Confirmed == params.num_doneconfirm >= threads

\* The wait for doneconfirm, and the return.
AwaitConfirm ==
    /\ main = "confirm" /\ Main \notin asleep
    /\ IF Confirmed
       THEN main' = "idle" /\ UNCHANGED asleep
       ELSE asleep' = asleep \cup {Main} /\ UNCHANGED main
    /\ UNCHANGED <<calls, params, threads, workerVars, pending, ends,
                   historyVars, until, openmp>>

\* threads.clear(): ~ThreadType cancels a worker and then joins it, one
\* element after the other.
CancelWorker ==
    /\ main = "clear" /\ ends <= threads
    /\ pending' = pending \cup {ends}
    /\ main' = "join"
    /\ UNCHANGED <<calls, params, threads, workerVars, asleep, ends,
                   historyVars, until, openmp>>

\* Mutant: a destructor that only cancels.
DetachThread(w) == TRUE

\* pthread_join returns when the worker has ended.
JoinThread(w) == place[w] = "ended"

JoinWorker ==
    /\ main = "join" /\ JoinThread(ends)
    /\ ends' = ends + 1
    /\ main' = "clear"
    /\ UNCHANGED <<calls, params, threads, workerVars, asleep, pending,
                   historyVars, until, openmp>>

Cleared ==
    /\ main = "clear" /\ ends > threads
    /\ threads' = 0 /\ ends' = 0
    /\ main' = "idle"
    /\ place' = [w \in Worker |-> IF place[w] = "ended" THEN "none" ELSE place[w]]
    /\ UNCHANGED <<calls, params, cur, cancelflag, asleep, pending, historyVars,
                   until, openmp>>

-----------------------------------------------------------------------------
(* WorkRunner *)

\* Each continues in the critical section that its caller is in, with the
\* params p and the sleepers s so far.

\* ++num_doneconfirm, and back to the wait for init_ok.
Confirm(w, p, s) ==
    /\ params' = [p EXCEPT !.num_doneconfirm = @ + 1]
    /\ place' = [place EXCEPT ![w] = "init"]
    /\ asleep' = IF p.init_ok THEN s \ {Main} ELSE (s \ {Main}) \cup {w}

\* Mutant: a worker that does not wait for done_ok.
ConfirmEarly(p) == TRUE

MayConfirm(p) == p.done_ok

\* ++num_done, and the wait for done_ok.
EndWork(w, p, s) ==
    LET q == [p EXCEPT !.num_done = @ + 1]
    IN  IF MayConfirm(q)
        THEN Confirm(w, q, s)
        ELSE /\ params' = q
             /\ place' = [place EXCEPT ![w] = "done"]
             /\ asleep' = (s \ {Main}) \cup {w}

\* Mutant: the index is advanced only after the work.
TakeWithoutAdvance(p) == p

Advance(p) == [p EXCEPT !.work_index = @ + 1]

\* The condition of the work loop.
TakeWork(w, p, s) ==
    IF p.work_index < p.num_totalworks /\ ~ p.cancelled
    THEN /\ params' = Advance(p)
         /\ cur' = [cur EXCEPT ![w] = p.work_index]
         /\ place' = [place EXCEPT ![w] = "task"]
         /\ asleep' = s
    ELSE /\ UNCHANGED cur
         /\ EndWork(w, p, s)

\* while(!init_ok) Wait; ++num_inits and into the loop.
AwaitInit(w) ==
    /\ place[w] = "init" /\ w \notin asleep
    /\ IF params.init_ok
       THEN TakeWork(w, [params EXCEPT !.num_inits = @ + 1], asleep \ {Main})
       ELSE /\ w \notin pending
            /\ asleep' = asleep \cup {w}
            /\ UNCHANGED <<params, place, cur>>
    /\ UNCHANGED <<main, calls, threads, cancelflag, pending, ends, historyVars,
                   until, openmp>>

\* Outside the lock: wake the siblings unless this is the last unit.
EnterWork(w) ==
    /\ place[w] = "task"
    /\ place' = [place EXCEPT ![w] = "busy"]
    /\ asleep' = IF cur[w] + 1 < params.num_totalworks
                 THEN asleep \cap {Main} ELSE asleep
    /\ UNCHANGED <<main, calls, params, threads, cur, cancelflag, pending, ends,
                   historyVars, until, openmp>>

\* DoWork(cur_work, *work); the work decides whether to cancel.
DoWork(w) ==
    /\ place[w] = "busy"
    /\ \E c \in BOOLEAN :
        /\ cancelflag' = [cancelflag EXCEPT ![w] = c]
        /\ wanted' = (wanted \/ c)
    /\ runs' = IF cur[w] \in DOMAIN runs
               THEN [runs EXCEPT ![cur[w]] = @ + 1] ELSE runs
    /\ place' = [place EXCEPT ![w] = "relock"]
    /\ UNCHANGED <<main, calls, params, threads, cur, asleep, pending, ends, until,
                   openmp>>

LockAgain(w) ==
    /\ place[w] = "relock"
    /\ IF cancelflag[w]
       THEN /\ EndWork(w, [params EXCEPT !.cancelled = TRUE], asleep)
            /\ UNCHANGED cur
       ELSE TakeWork(w, params, asleep)
    /\ cancelflag' = [cancelflag EXCEPT ![w] = FALSE]
    /\ UNCHANGED <<main, calls, threads, pending, ends, historyVars, until, openmp>>

WokenForDoneOk(w) ==
    /\ place[w] = "done" /\ w \notin asleep
    /\ IF MayConfirm(params)
       THEN Confirm(w, params, asleep)
       ELSE /\ w \notin pending
            /\ asleep' = asleep \cup {w}
            /\ UNCHANGED <<params, place>>
    /\ UNCHANGED <<main, calls, threads, cur, cancelflag, pending, ends,
                   historyVars, until, openmp>>

\* A pending cancellation acts, in a wait, when a wait begins, or in DoWork:
\* ScopedLock leaves the mutex unlocked.
ActOnCancel(w) ==
    /\ w \in pending
    /\ \/ w \in asleep \/ place[w] = "busy"
       \/ place[w] = "init" /\ ~ params.init_ok
       \/ place[w] = "done" /\ ~ MayConfirm(params)
    /\ place' = [place EXCEPT ![w] = "ended"]
    /\ asleep' = asleep \ {w}
    /\ pending' = pending \ {w}
    /\ UNCHANGED <<main, calls, params, threads, cur, cancelflag, ends,
                   historyVars, until, openmp>>

\* pthread_cond_wait may return without any reason.
WakeSpuriously(t) ==
    /\ t \in asleep
    /\ asleep' = asleep \ {t}
    /\ UNCHANGED <<main, calls, params, threads, workerVars, pending, ends,
                   historyVars, until, openmp>>

-----------------------------------------------------------------------------
(* RunUntil, as CreateReusingPlan calls it: entries[i] says whether entry   *)
(* i of the index under the hash of the block holds the block.              *)

\* With OpenMP a team of n runs the loop, with pthreads the caller alone.
RunUntil(n, e) ==
    /\ openmp \/ n = 1
    /\ main = "idle" /\ calls < MaxCalls
    /\ calls' = calls + 1
    /\ main' = "until"
    /\ until' = [NoTeam EXCEPT !.size = n, !.entries = e,
                               !.at = [w \in Worker |->
                                         IF w <= n THEN "next" ELSE "out"]]
    /\ runs' = <<>> /\ wanted' = FALSE
    /\ UNCHANGED <<params, threads, workerVars, asleep, pending, ends, openmp>>

TeamOnly ==
    UNCHANGED <<main, calls, params, threads, workerVars, asleep, pending, ends,
                historyVars, openmp>>

\* The look at cancel and FindAutoIndexNext_lock.
NextTask(w) ==
    /\ until.at[w] = "next"
    /\ until' =
        IF until.cancel THEN [until EXCEPT !.at[w] = "out"]
        ELSE IF until.next > Len(until.entries)
             THEN [until EXCEPT !.at[w] = "out", !.next = @ + 1]
             ELSE [until EXCEPT !.at[w] = "test", !.next = @ + 1,
                                !.match[w] = until.next]
    /\ TeamOnly

\* TestAutoIndexMatch: compare; TryLock(auto_which_lock).
TestMatch(w) ==
    /\ until.at[w] = "test"
    /\ until' = IF until.entries[until.match[w]] /\ until.holder = 0
                THEN [until EXCEPT !.at[w] = "store", !.holder = w]
                ELSE [until EXCEPT !.at[w] = "return"]
    /\ TeamOnly

\* Mutant: the entry that would be next instead of the one compared.
SharedMatch(w) == until.next - 1

AutoMatch(w) == until.match[w]

\* auto_found, which_auto_found, Unlock.
StoreMatch(w) ==
    /\ until.at[w] = "store"
    /\ until' = [until EXCEPT !.at[w] = "return", !.holder = 0, !.found = TRUE,
                              !.which = AutoMatch(w)]
    /\ TeamOnly

\* return auto_found, read without the lock.
ReturnFound(w) ==
    /\ until.at[w] = "return"
    /\ until' = IF until.found
                THEN [until EXCEPT !.at[w] = "out", !.cancel = TRUE]
                ELSE [until EXCEPT !.at[w] = "next"]
    /\ TeamOnly

EndUntil ==
    /\ main = "until" /\ \A w \in Worker : until.at[w] = "out"
    /\ main' = "idle"
    /\ UNCHANGED <<calls, params, threads, workerVars, asleep, pending, ends,
                   historyVars, until, openmp>>

-----------------------------------------------------------------------------
MainStep ==
    \/ Linear \/ CreateThread \/ GoAhead \/ AwaitInits \/ WokenForDone
    \/ AwaitConfirm \/ CancelWorker \/ JoinWorker \/ Cleared \/ EndUntil

WorkerStep(w) ==
    \/ AwaitInit(w) \/ EnterWork(w) \/ DoWork(w) \/ LockAgain(w)
    \/ WokenForDoneOk(w) \/ ActOnCancel(w)

TeamStep(w) ==
    \/ NextTask(w) \/ TestMatch(w) \/ StoreMatch(w) \/ ReturnFound(w)

EngineNext ==
    \/ \E n \in 0 .. MaxUnits : RunTasks(n)
    \/ \E n \in Worker, e \in UNION {[1 .. k -> BOOLEAN] : k \in 0 .. MaxEntries} :
            RunUntil(n, e)
    \/ MainStep
    \/ \E w \in Worker : WorkerStep(w) \/ TeamStep(w)
    \/ \E t \in Worker \cup {Main} : WakeSpuriously(t)

\* A thread that can run does run, and a thread that wants the mutex gets it.
EngineFairness ==
    /\ WF_engineVars(MainStep)
    /\ \A w \in Worker : WF_engineVars(WorkerStep(w)) /\ WF_engineVars(TeamStep(w))

EngineSpec == EngineInit /\ [][EngineNext]_engineVars /\ EngineFairness

-----------------------------------------------------------------------------
Working(w) == place[w] \in {"task", "busy", "relock"}

TypeOK ==
    /\ main \in {"idle", "linear", "create", "inits", "done", "confirm", "clear",
                 "join", "until"}
    /\ calls \in 0 .. MaxCalls
    /\ params \in [init_ok : BOOLEAN, done_ok : BOOLEAN,
                   num_inits : 0 .. NumThreads, num_done : 0 .. NumThreads,
                   num_doneconfirm : 0 .. NumThreads, work_index : 0 .. MaxUnits,
                   num_totalworks : 0 .. MaxUnits, cancelled : BOOLEAN]
    /\ threads \in 0 .. NumThreads /\ ends \in 0 .. NumThreads + 1
    /\ place \in [Worker -> {"none", "init", "task", "busy", "relock", "done",
                             "ended"}]
    /\ cur \in [Worker -> 0 .. MaxUnits] /\ cancelflag \in [Worker -> BOOLEAN]
    /\ asleep \subseteq Worker \cup {Main} /\ pending \subseteq Worker

\* RunTasks does each work unit at most once, and when it returns without a
\* unit having asked to cancel, every unit was done.
EachUnitOnce ==
    /\ \A i \in DOMAIN runs : runs[i] <= 1
    /\ main = "idle" /\ ~ wanted => \A i \in DOMAIN runs : runs[i] = 1

\* Once RunTasks has returned, the objects of the caller (workparams) may
\* vanish: no worker is inside DoWork or can enter it before the next call,
\* also when the call was cancelled and its workers were disposed of; and the
\* workers that are left all wait for the next go-ahead.
NobodyLeftWorking ==
    main \in {"idle", "linear", "until"} =>
        \A w \in Worker :
            place[w] = IF w <= threads THEN "init" ELSE "none"

\* CreateReusingPlan finds a block that is indexed, and what it finds is the
\* entry that was compared, although a thread that fails to take
\* auto_which_lock gives up its own find.
MatchIsFound ==
    main = "idle" =>
        /\ until.found = (\E i \in DOMAIN until.entries : until.entries[i])
        /\ until.found => /\ until.which \in DOMAIN until.entries
                          /\ until.entries[until.which]

\* Every call of the engine returns: no signal is lost between the waits of
\* the caller and of the workers, over several calls, cancelled or not.
CallsReturn == main # "idle" ~> main = "idle"

\* RunTasks hands each unit out once, and its counters of threads that began,
\* ended and confirmed never pass the number of threads.
WorkDoneOnce == TypeOK /\ EachUnitOnce
=============================================================================
