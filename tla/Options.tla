------------------------------- MODULE Options ------------------------------
(***************************************************************************)
(* The command line of mkcromfs (main in util/mkcromfs.cc): options change *)
(* the settings one after the other, in any order and as often as the user *)
(* likes; a bad value ends the program; what the options say together is   *)
(* checked once after the last of them.  Then either an interrupted image  *)
(* is finished or a new one begun.                                         *)
(*                                                                         *)
(* Options that only change what is printed are left out, and so are the   *)
(* file patterns.                                                          *)
(***************************************************************************)
EXTENDS Integers, Sequences, FiniteSets, SequencesExt

CONSTANTS
    OptionValues,  \* option that takes a number to the numbers considered
    BitLists,      \* lists of numbers for --lzmabits
    OrderKinds,    \* names in --blockifyorder: "link", "dir", "file", "inotab"; others are wrong
    MaxOptions,    \* bound on the options of a command line
    MaxFsize       \* 0x7FFFFFFE

VARIABLES
    settings,      \* the global variables of mkcromfs
    given,         \* number of options so far
    asked,         \* block number widths asked for, in bytes
    ending         \* "options", "-1" (refused), "resume" or "create"

optionVars == <<settings, given, asked, ending>>

\* The settings a plain "mkcromfs path image" has.
Defaults ==
    [fsize |-> 2097152, bsize |-> 65536, bsize_for |-> {}, minfreespace |-> 16,
     overlapgranularity |-> 1, autoindexratio |-> 0, autoindexperiod |-> 256,
     bruteforcelimit |-> 2, randomcompressperiod |-> 20000, lzmafastbytes |-> 273,
     threads |-> 0, heavy |-> 1, bits |-> <<0, 0, 1>>, order |-> <<2, 1, 3, 4>>,
     blockindexmethod |-> "all",
     decompress |-> FALSE, maysuggest |-> TRUE, maypack |-> TRUE,
     mayautochoose |-> TRUE, bit24 |-> FALSE, bit16 |-> FALSE, variable |-> FALSE,
     sparse |-> FALSE, resume |-> FALSE]

OptionsInit == settings = Defaults /\ given = 0 /\ asked = {} /\ ending = "options"

OptionsIdle == settings = Defaults /\ given = 0 /\ asked = {} /\ ending = "idle"

More == ending = "options" /\ given < MaxOptions /\ given' = given + 1

Refuse == ending' = "-1"

Set(s) == settings' = s /\ UNCHANGED ending

-----------------------------------------------------------------------------
(* Options with a number: the range that is accepted, and what is stored.    *)

Lowest == [fsize |-> 64, bsize |-> 8, bsize_for |-> 8, overlapgranularity |-> 1,
           randomcompressperiod |-> 1, autoindexratio |-> 1, autoindexperiod |-> 0,
           minfreespace |-> 0, bruteforcelimit |-> 0, lzmafastbytes |-> 5, threads |-> 0]

(* The numbers are C++ integers; an option is one of those that take a       *)
(* number.                                                                   *)
ASSUME OptionsAssumption ==
    /\ DOMAIN OptionValues \subseteq DOMAIN Lowest
    /\ \A name \in DOMAIN OptionValues : OptionValues[name] \subseteq Int
    /\ BitLists \subseteq Seq(Int)
    /\ MaxFsize \in Nat

Highest(name, v) ==
    CASE name = "fsize" -> v <= MaxFsize
      [] name = "lzmafastbytes" -> v <= 273
      [] name = "threads" -> v <= 50
      [] OTHER -> TRUE

Stored(name, v) ==
    CASE name = "bruteforcelimit" /\ v < 1 -> 1
      [] name = "threads" /\ v = 1 -> 0
      [] OTHER -> v

\* A period that the user gave is not changed by a suggestion.
SuggestAfter(name, s) == [s EXCEPT !.maysuggest = @ /\ name # "randomcompressperiod"]

WithNumber(s, name, v) ==
    IF name = "bsize_for" THEN [s EXCEPT !.bsize_for = @ \cup {v}, !.variable = TRUE]
    ELSE SuggestAfter(name, [s EXCEPT ![name] = Stored(name, v)])

Number(name, v) ==
    /\ More /\ UNCHANGED asked
    /\ IF v < Lowest[name] \/ ~Highest(name, v) THEN Refuse /\ UNCHANGED settings
       ELSE Set(WithNumber(settings, name, v))

-----------------------------------------------------------------------------
(* Switches.                                                                 *)

Flag(name) ==
    /\ More /\ UNCHANGED asked
    /\ Set(CASE name = "decompresslookups" -> [settings EXCEPT !.decompress = TRUE, !.maysuggest = FALSE]
             [] name = "quiet"             -> [settings EXCEPT !.maysuggest = FALSE]
             [] name = "nopackedblocks"    -> [settings EXCEPT !.maypack = FALSE]
             [] name = "sparse"            -> [settings EXCEPT !.sparse = TRUE]
             [] name = "resume"            -> [settings EXCEPT !.resume = TRUE])

\* --blockindexmethod.
IndexMethod(method) == More /\ UNCHANGED asked /\ Set([settings EXCEPT !.blockindexmethod = method])

\* A switch with a word that is not known.
WrongWord == More /\ Refuse /\ UNCHANGED <<settings, asked>>

\* Mutant: -4 does not look whether -2 or -3 was given.
Alone4Unchecked(s, width) == s.mayautochoose \/ width = 4

\* Whether -2, -3 or -4 may follow what was given.
Alone(s, width) ==
    IF width = 4 THEN ~s.bit16 /\ ~s.bit24
    ELSE s.mayautochoose /\ ~(IF width = 3 THEN s.bit16 ELSE s.bit24)

BlocknumWidth(width) ==
    /\ More /\ asked' = asked \cup {width}
    /\ settings' = [settings EXCEPT !.bit24 = @ \/ width = 3, !.bit16 = @ \/ width = 2, !.mayautochoose = FALSE]
    /\ IF Alone(settings, width) THEN UNCHANGED ending ELSE Refuse

\* --lzmabits: "auto", "full" or up to three numbers.
Heavy(level) == More /\ UNCHANGED asked /\ Set([settings EXCEPT !.heavy = level])

\* Mutant: every value is compared with the limit of the last one.
LimitsOfLast == <<8, 8, 8>>

BitLimits == <<4, 4, 8>>

BitsOK(list) == Len(list) <= 3 /\ \A i \in 1 .. Len(list) : list[i] \in 0 .. BitLimits[i]

LzmaBits(list) ==
    /\ More /\ UNCHANGED asked
    /\ IF BitsOK(list)
       THEN Set([settings EXCEPT !.heavy = 0,
                                 !.bits = [i \in 1 .. 3 |-> IF i <= Len(list) THEN list[i] ELSE @[i]]])
       ELSE Refuse /\ UNCHANGED settings

\* --blockifyorder: a wrong name is only reported, a wrong number is not taken.
BlockifyOrder(kind, v) ==
    /\ More /\ UNCHANGED asked
    /\ LET place == [link |-> 1, dir |-> 2, file |-> 3, inotab |-> 4]
       IN  IF kind \notin DOMAIN place THEN UNCHANGED <<settings, ending>>
           ELSE /\ settings' = [settings EXCEPT !.order[place[kind]] = v]
                /\ IF v \in 0 .. 5 THEN UNCHANGED ending ELSE Refuse

-----------------------------------------------------------------------------
(* After the options.                                                        *)

Cannot(s) ==
    \/ s.fsize < s.bsize
    \/ s.minfreespace >= s.fsize
    \/ s.autoindexratio > 0 /\ s.bsize \div s.autoindexratio < 1

\* Mutant: the period is computed with the block size that was the default.
AdjustedEarly(s) ==
    [s EXCEPT !.overlapgranularity = IF @ >= s.bsize THEN 0 ELSE @,
              !.autoindexperiod = IF s.autoindexratio > 0 THEN Defaults.bsize \div s.autoindexratio ELSE @]

Adjusted(s) ==
    [s EXCEPT !.overlapgranularity = IF @ >= s.bsize THEN 0 ELSE @,
              !.autoindexperiod = IF s.autoindexratio > 0 THEN s.bsize \div s.autoindexratio ELSE @]

\* One step, for everything that is checked; the image is opened, and emptied
\* unless an interrupted one is to be finished.
EndOptions ==
    /\ ending = "options"
    /\ IF Cannot(settings) THEN Refuse /\ UNCHANGED settings
       ELSE settings' = Adjusted(settings) /\ ending' = IF settings.resume THEN "resume" ELSE "create"
    /\ UNCHANGED <<given, asked>>

\* CheckSomeDefaultOptions: the user or the free space of the temporary
\* directory turns on -e -r100000.
SuggestDecompression ==
    /\ ending = "create" /\ settings.maysuggest
    /\ settings' = [settings EXCEPT !.decompress = TRUE, !.randomcompressperiod = 100000, !.maysuggest = FALSE]
    /\ UNCHANGED <<given, asked, ending>>

OptionsDone == ending \notin {"options", "idle"} /\ UNCHANGED optionVars

OptionsNext ==
    \/ \E name \in DOMAIN OptionValues : \E v \in OptionValues[name] : Number(name, v)
    \/ \E name \in {"decompresslookups", "quiet", "nopackedblocks", "sparse", "resume"} : Flag(name)
    \/ \E method \in {"all2", "collect"} : IndexMethod(method)
    \/ WrongWord
    \/ \E width \in {2, 3, 4} : BlocknumWidth(width)
    \/ \E level \in {1, 2} : Heavy(level)
    \/ \E list \in BitLists : LzmaBits(list)
    \/ \E k \in OrderKinds : \E v \in {3, 6} : BlockifyOrder(k, v)
    \/ EndOptions \/ SuggestDecompression \/ OptionsDone

-----------------------------------------------------------------------------
(* Properties.                                                               *)

Accepted == ending \in {"resume", "create"}

\* Whatever was given in which order, an image that is made has the numbers the
\* user asked for, or numbers that mkcromfs may choose: never the two flags
\* together, which make BLOCKNUM_SIZE_BYTES 1.
OneWidth ==
    Accepted => /\ ~(settings.bit16 /\ settings.bit24)
                /\ Cardinality(asked) <= 1
                /\ settings.mayautochoose <=> asked = {}
                /\ settings.bit24 <=> asked = {3}
                /\ settings.bit16 <=> asked = {2}

\* The settings that the encoder is called with are ones it takes
\* (LzmaEnc_SetProps): a refusal would be an empty result, and that is smaller
\* than any other.
EncoderAccepts ==
    Accepted => settings.bits[1] <= 4 /\ settings.bits[2] <= 4 /\ settings.bits[3] <= 8

\* Main compares --fsize with the default block size alone: that one fits into
\* a fblock, together with the space to be left free, the overlap granularity is
\* off or less than such a block, and a period that a ratio asked for divides it.
\* The sizes of --bsize_for are compared with nothing: Blockifier takes them as
\* they are, and MCOversized.cfg shows what becomes of one above --fsize.
DefaultSizeFits ==
    Accepted => /\ settings.bsize <= settings.fsize /\ settings.minfreespace < settings.fsize
                /\ settings.overlapgranularity < settings.bsize
                /\ settings.autoindexratio > 0 =>
                      settings.autoindexperiod \in 1 .. settings.bsize
                /\ settings.bruteforcelimit >= 1

\* Every block size, of --bsize and of --bsize_for, is one that Blockifier can
\* cut files into; and the image says that inodes have block sizes of their own
\* exactly if some can have.
BlockSizesTaken ==
    Accepted => /\ \A size \in {settings.bsize} \cup settings.bsize_for : size >= 8
                /\ settings.variable <=> settings.bsize_for # {}

\* A command line that is accepted, in any order of its options, asks for one
\* width, for what the encoder takes, for a default block size that fits --fsize,
\* and for no block size, of whatever file, that is too small.
SettingsUsable == OneWidth /\ EncoderAccepts /\ DefaultSizeFits /\ BlockSizesTaken
=============================================================================
