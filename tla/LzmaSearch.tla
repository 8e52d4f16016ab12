----------------------------- MODULE LzmaSearch -----------------------------
(***************************************************************************)
(* DoLZMACompress of lib/lzma.cc: the search for the parameters pb, lp and *)
(* lc that compress best.  The full search tries them all in an OpenMP     *)
(* loop; the automatic one lets a team of threads share a ParabolicFinder  *)
(* for each of the three axes, with a barrier between them.                *)
(*                                                                         *)
(* A compressed string is what it was compressed with; its size is given   *)
(* by the data.  A step is a critical section or a call of LZMACompress.   *)
(***************************************************************************)
EXTENDS Integers, Sequences, FiniteSets, FiniteSetsExt

CONSTANTS
    LzmaThreads,  \* the OpenMP team, 1 .. its size
    Limits,       \* axis to its largest value: 4, 4 and 8
    LzmaCalls     \* [level, sizes]; sizes: axis to what each value adds

\* A team has a master, and no string has a negative size.
ASSUME LzmaAssumption ==
    /\ IsFiniteSet(LzmaThreads) /\ LzmaThreads # {} /\ LzmaThreads = 1 .. Cardinality(LzmaThreads)
    /\ \A a \in {"pb", "lp", "lc"} : Limits[a] \in Nat
    /\ \A c \in LzmaCalls : /\ c.level \in Nat
                            /\ \A a \in {"pb", "lp", "lc"} : c.sizes[a] \in [0 .. Limits[a] -> Nat]

VARIABLES
    call,         \* HeavyLevel and the data
    axis,         \* which of Axes is searched; 4 at the end
    finder,       \* the axis's ParabolicFinder: [results, state, swap]
    bits,         \* pb, lp and lc, which the team shares
    best,         \* bestresult: its size and what it was made with; size -1 is "first"
    worker,       \* thread to [pc, attempt, result]
    modes         \* thread to the values of compress_mode that it is still to try

lzmaVars == <<call, axis, finder, bits, best, worker, modes>>

Axes == <<"pb", "lp", "lc">>

Values(a) == Limits[Axes[a]] + 1

\* The parameters of a compress_mode.
Mode(n) == <<n % Values(1), (n \div Values(1)) % Values(2), n \div (Values(1) * Values(2))>>

Modes == 0 .. (Values(1) * Values(2) * Values(3)) - 1

\* OpenMP's share of the loop: as even as can be, in order.
Share(t) ==
    LET n == Cardinality(Modes) \div Cardinality(LzmaThreads)
        r == Cardinality(Modes) % Cardinality(LzmaThreads)
        from == n * (t - 1) + Min({t - 1, r})
    IN  from .. from + n + (IF t <= r THEN 1 ELSE 0) - 1

NewFinder(a, results) ==
    [results |-> [c \in 0 .. Limits[a] |-> IF c \in DOMAIN results THEN results[c] ELSE 0],
     state   |-> [c \in 0 .. Limits[a] |-> IF c \in DOMAIN results THEN "done" ELSE "unknown"],
     swap    |-> FALSE]

\* The result of LZMACompress: its size and its parameters.
LZMACompress(m) ==
    [size |-> call.sizes["pb"][m[1]] + call.sizes["lp"][m[2]] + call.sizes["lc"][m[3]], made |-> m]

Waiting == [pc |-> "ask", attempt |-> 0, result |-> 0]

\* DoLZMACompress.
LzmaInit ==
    /\ call \in LzmaCalls
    /\ axis = 1 /\ finder = NewFinder("pb", <<>>) /\ bits = <<0, 0, 0>>
    /\ best = [size |-> -1, made |-> <<0, 0, 0>>]
    /\ worker = [t \in LzmaThreads |-> Waiting]
    /\ modes = [t \in LzmaThreads |-> IF call.level >= 2 THEN Share(t)
                                     ELSE IF call.level = 0 /\ t = 1 THEN {0} ELSE {}]

LzmaIdle ==
    /\ call = [level |-> -1] /\ axis = 0 /\ finder = <<>> /\ bits = <<0, 0, 0>>
    /\ best = [size |-> -1, made |-> <<0, 0, 0>>] /\ worker = <<>> /\ modes = <<>>

-----------------------------------------------------------------------------
(* ParabolicFinder::GetNextInstruction.                                      *)

Unknowns(f) == {c \in DOMAIN f.state : f.state[c] = "unknown"}
Handled(f)  == Cardinality(DOMAIN f.state) - Cardinality(Unknowns(f))

LastOf(f) == Max(DOMAIN f.state)

\* The i-th value from a side.
From(f, left, i) == IF left THEN i ELSE LastOf(f) - i

Rises(f, left, i) ==
    /\ i > 0 /\ f.state[From(f, left, i)] = "done"
    /\ f.results[From(f, left, i)] > f.results[From(f, left, i - 1)]

\* One of the two loops: where it ends, and why.
Scan(f, left) ==
    LET stop == Min({i \in DOMAIN f.state : f.state[From(f, left, i)] # "done" \/ Rises(f, left, i)})
        c    == From(f, left, stop)
    IN  [next |-> IF f.state[c] = "done" THEN -1 ELSE c, doable |-> f.state[c] = "unknown",
         rises |-> f.state[c] = "done",
         equal |-> \E i \in 1 .. stop - 1 :
                      f.results[From(f, left, i)] = f.results[From(f, left, i - 1)]]

\* Mutant: the search ends where one side rises, whatever the other end is.
EndsAtOnce(f, left, right) == left.rises \/ right.rises

Ends(f, left, right) ==
    \/ left.rises /\ f.state[LastOf(f)] # "unknown"
    \/ right.rises /\ f.state[0] # "unknown"

\* The order of the sides: a plateau beats the alternation.
LeftFirst(f, left, right) == ~right.equal /\ (left.equal \/ ~f.swap)

\* The value to try, or -1 to wait.
Choice(f, one, two) ==
    IF one.doable THEN one.next
    ELSE IF two.doable THEN two.next
    ELSE IF Handled(f) > 2 /\ one.next >= 0 THEN one.next
    ELSE IF Handled(f) > 3 /\ two.next >= 0 THEN two.next
    ELSE -1

Attempt(f) ==
    LET left == Scan(f, TRUE)  right == Scan(f, FALSE)
    IN  IF LeftFirst(f, left, right) THEN Choice(f, left, right) ELSE Choice(f, right, left)

Instruction(f) ==
    IF Unknowns(f) = {} \/ Ends(f, Scan(f, TRUE), Scan(f, FALSE)) THEN "End"
    ELSE IF Attempt(f) = -1 THEN "WaitingResults" ELSE "HereYouGo"

-----------------------------------------------------------------------------
(* LZMACompressAutoHelper.                                                   *)

AutoSearch == call.level = 1 /\ axis \in 1 .. 3

\* GetNextInstruction turns the swap unless nothing is unknown.
AskEnd(t) ==
    /\ AutoSearch /\ worker[t].pc = "ask" /\ Instruction(finder) = "End"
    /\ worker' = [worker EXCEPT ![t].pc = "barrier"]
    /\ finder' = [finder EXCEPT !.swap = IF Unknowns(finder) = {} THEN @ ELSE ~@]
    /\ UNCHANGED <<call, axis, bits, best, modes>>

AskWait(t) ==
    /\ AutoSearch /\ worker[t].pc = "ask" /\ Instruction(finder) = "WaitingResults"
    /\ finder' = [finder EXCEPT !.swap = ~@]
    /\ UNCHANGED <<call, axis, bits, best, worker, modes>>

AskAttempt(t) ==
    /\ AutoSearch /\ worker[t].pc = "ask" /\ Instruction(finder) = "HereYouGo"
    /\ \E c \in {Attempt(finder)} :
          /\ finder' = [finder EXCEPT !.swap = ~@, !.state[c] = "pending"]
          /\ worker' = [worker EXCEPT ![t] = [pc |-> "got", attempt |-> c,
                                              result |-> LZMACompress([bits EXCEPT ![axis] = c])]]
    /\ UNCHANGED <<call, axis, bits, best, modes>>

\* Mutant: the state of the value stays pending.
ResultOnly(f, c, size) == [f EXCEPT !.results[c] = size]

GotResult(f, c, size) == [f EXCEPT !.results[c] = size, !.state[c] = "done"]

TellFinder(t) ==
    /\ AutoSearch /\ worker[t].pc = "got"
    /\ finder' = GotResult(finder, worker[t].attempt, worker[t].result.size)
    /\ worker' = [worker EXCEPT ![t].pc = "update"]
    /\ UNCHANGED <<call, axis, bits, best, modes>>

UpdateStats(t) ==
    /\ AutoSearch /\ worker[t].pc = "update"
    /\ IF best.size = -1 \/ worker[t].result.size <= best.size
       THEN best' = worker[t].result /\ bits' = [bits EXCEPT ![axis] = worker[t].attempt]
       ELSE UNCHANGED <<best, bits>>
    /\ worker' = [worker EXCEPT ![t] = Waiting]
    /\ UNCHANGED <<call, axis, finder, modes>>

-----------------------------------------------------------------------------
(* LZMACompressAuto: the barrier, and one thread that tells the next finder. *)

\* Mutant: without the barrier, the first thread goes on for all.
SomeoneArrived == \E t \in LzmaThreads : worker[t].pc = "barrier"

AllArrived == \A t \in LzmaThreads : worker[t].pc = "barrier"

NextAxis ==
    /\ AutoSearch /\ AllArrived
    /\ axis' = axis + 1
    /\ IF axis = 3 THEN UNCHANGED <<finder, worker>>
       ELSE /\ finder' = NewFinder(Axes[axis + 1], [c \in {bits[axis + 1]} |-> best.size])
            /\ worker' = [t \in LzmaThreads |-> IF worker[t].pc = "barrier" THEN Waiting ELSE worker[t]]
    /\ UNCHANGED <<call, bits, best, modes>>

-----------------------------------------------------------------------------
(* LZMACompressHeavy, and LZMACompress with the given parameters: the modes  *)
(* are a parallel loop.                                                      *)

HeavyBegin(t) ==
    /\ call.level # 1 /\ worker[t].pc = "ask" /\ modes[t] # {}
    /\ modes' = [modes EXCEPT ![t] = @ \ {Min(@)}]
    /\ worker' = [worker EXCEPT ![t] = [pc |-> "update", attempt |-> 0,
                                        result |-> LZMACompress(Mode(Min(modes[t])))]]
    /\ UNCHANGED <<call, axis, finder, bits, best>>

\* Mutant: the size is compared with minresultsize, which already counts it.
BetterThanMinimum(size) == best.size = -1

Better(size) == best.size = -1 \/ size < best.size

HeavyUpdate(t) ==
    /\ call.level # 1 /\ worker[t].pc = "update"
    /\ best' = IF Better(worker[t].result.size) THEN worker[t].result ELSE best
    /\ worker' = [worker EXCEPT ![t] = Waiting]
    /\ UNCHANGED <<call, axis, finder, bits, modes>>

HeavyOver == \A t \in LzmaThreads : modes[t] = {} /\ worker[t].pc = "ask"

LzmaOver == IF call.level = 1 THEN axis = 4 ELSE HeavyOver

LzmaDone == LzmaOver /\ UNCHANGED lzmaVars

LzmaNext ==
    \/ \E t \in LzmaThreads :
          \/ AskEnd(t) \/ AskWait(t) \/ AskAttempt(t) \/ TellFinder(t) \/ UpdateStats(t)
          \/ HeavyBegin(t) \/ HeavyUpdate(t)
    \/ NextAxis
    \/ LzmaDone

-----------------------------------------------------------------------------
(* Properties.                                                               *)

\* The full search returns the smallest of all results.
HeavyIsBest ==
    (call.level >= 2 /\ HeavyOver) => best.size = Min({LZMACompress(Mode(n)).size : n \in Modes})

\* A curve that descends and then ascends, or ascends and then descends.
Parabolic(s) ==
    \E top \in DOMAIN s :
       \/ \A c \in DOMAIN s : c > 0 => IF c <= top THEN s[c - 1] >= s[c] ELSE s[c - 1] <= s[c]
       \/ \A c \in DOMAIN s : c > 0 => IF c <= top THEN s[c - 1] <= s[c] ELSE s[c - 1] >= s[c]

\* The finder leaves a parabolic axis only when one of its smallest values was
\* tried: "It just stops searching when it thinks that no lower value will be
\* found."  All threads are at the barrier then, so none is still to tell.
LowestFound ==
    (AutoSearch /\ AllArrived /\ Parabolic(call.sizes[Axes[axis]])) =>
       LET s == call.sizes[Axes[axis]] IN s[bits[axis]] = Min({s[c] : c \in DOMAIN s})

\* "Only one parameter must change in the loop": what the team holds is the
\* result of the parameters that it goes on with and reports.
BestIsOfItsBits == (call.level = 1 /\ best.size # -1) => best = LZMACompress(bits)

\* The threads never all wait for results that no one is about to give.
SomeoneHasResult ==
    (AutoSearch /\ Instruction(finder) = "WaitingResults") =>
       \E t \in LzmaThreads : worker[t].pc = "got"

\* However the threads share the parameters out, what is returned is the best of
\* the values that were to be tried, belongs to the bits it is reported with,
\* and no thread waits for a result that will not come.
BestReturned == HeavyIsBest /\ LowestFound /\ BestIsOfItsBits /\ SomeoneHasResult
=============================================================================
