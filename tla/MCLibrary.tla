----------------------------- MODULE MCLibrary ------------------------------
(* The library of mkcromfs and unmkcromfs, and unmkcromfs itself, on small   *)
(* inputs.  Each behaviour is one of these parts; the others are idle.       *)
EXTENDS FileWrite, MmapVector, StringSearch, LzmaSearch, HashIndex, Sources, Options, LzmaCodec, MatchFinder,
    Optimum, MCExtract

MCByte == {0, 1, 2}
\* Files of up to six bytes with blocks that the buffer of three bytes joins,
\* and others that it does not.
WBlock(o, d, s) == [offset |-> o, data |-> d, sparse |-> s]
MCWritings ==
    {[expected |-> n, blocks |-> {WBlock(0, a, s)}] : n \in {2, 6}, a \in {<<0, 1>>, <<1, 1>>}, s \in BOOLEAN}
    \cup {[expected |-> 6, blocks |-> {WBlock(0, <<1, 0>>, TRUE), WBlock(2, <<1>>, TRUE),
                                       WBlock(3, a, s)}] : a \in [1 .. 3 -> MCByte], s \in BOOLEAN}
    \cup {[expected |-> 8, blocks |-> {WBlock(0, a, TRUE), WBlock(4, <<1>>, FALSE), WBlock(6, <<1, 0>>, TRUE)}]
            : a \in [1 .. 4 -> MCByte]}
    \cup {[expected |-> 12, blocks |-> {WBlock(o, a, TRUE)}] : o \in 0 .. 3, a \in [1 .. 6 -> MCByte]}

MCBlockCounts == {<<0, 1>>, <<2, 1>>, <<3, 3>>}

Strings(n) == UNION {[1 .. k -> Letters] : k \in 1 .. n}
SearchSet(kinds, needles, haystacks, minima, steps) ==
    [kind : kinds, needle : needles, haystack : haystacks, minimum : minima, granularity : steps]
MCSearches ==
    SearchSet({"horspool", "boyermoore", "turbo"}, Strings(5), [1 .. 7 -> Letters], {0}, {1})
    \cup SearchSet({"turbo"}, Strings(3), Strings(3), {0}, {1})
    \cup SearchSet({"append"}, Strings(4), Strings(5), 0 .. 2, 1 .. 3)

MCLimits == [pb |-> 3, lp |-> 3, lc |-> 3]
LCurves(n) == [0 .. n -> 1 .. 3]
MCLzmaCalls ==
    {[level |-> 1, sizes |-> [pb |-> p, lp |-> 0 :> 2 @@ 1 :> 3 @@ 2 :> 2 @@ 3 :> 1, lc |-> [n \in 0 .. 3 |-> n]]] :
        p \in LCurves(3)}
    \cup {[level |-> v, sizes |-> [pb |-> [n \in 0 .. 3 |-> 2], lp |-> l, lc |-> [n \in 0 .. 3 |-> 2 - (n % 2)]]] :
            v \in {0, 2}, l \in {[n \in 0 .. 3 |-> 4 - n], [n \in 0 .. 3 |-> 2 - (n % 2)]}}

MCSourceSizes == <<2, 1, 2>>
MCMaxOpen == <<2, 1>>

\* Values below, on and above what is accepted, and that conflict.
MCOptionValues ==
    [fsize |-> {63, 64, 2147483647}, bsize |-> {7, 8, 64, 65}, bsize_for |-> {7, 8, 128},
     minfreespace |-> {-1, 64}, overlapgranularity |-> {0, 8}, autoindexratio |-> {4, 16},
     autoindexperiod |-> {0}, bruteforcelimit |-> {0, 3}, randomcompressperiod |-> {0, 5},
     lzmafastbytes |-> {4, 5, 274}, threads |-> {1, 51}]
MCBitLists == {<<5>>, <<4, 4, 8>>, <<1, 2>>, <<0, 0, 9>>, <<0, 0, 0, 0>>}

\* Data with matches of every kind, one of them over the end of the dictionary.
LCompress(d, p, l, c) == [data |-> d, pb |-> p, lp |-> l, lc |-> c]
MCCompressions ==
    {LCompress(d, 1, 1, 1) : d \in [1 .. 4 -> {0, 3}]}
    \cup {LCompress(<<0, 3, 0, 3, 0, 3, 1>>, 0, 0, 0), LCompress(<<3, 3, 3, 1, 3, 3, 3, 2>>, 1, 0, 2),
          LCompress(<<0, 1, 2, 0, 1, 2, 0, 1, 2>>, 2, 0, 0),
          LCompress(<<0, 1, 2, 3, 1, 3, 0, 2, 2, 0, 1, 2, 3, 1>>, 0, 1, 0)}
MCLenBits == <<1, 1, 2>>

\* Three windows of data, with a checksum that lets pairs of bytes share a hash
\* of two.
MCFinds ==
    LET piece == {<<0, 0, 0, 0, 0, 0>>, <<0, 1, 0, 0, 1, 0>>, <<1, 0, 0, 1, 0, 1>>, <<0, 0, 1, 1, 1, 1>>, <<1, 1, 1, 0, 1, 1>>}
    IN  {[data |-> p[1] \o p[2] \o p[3], historySize |-> 5, cutValue |-> c] : p \in piece \X piece \X piece, c \in {2, 5}}
MCCrc == 0 :> 0 @@ 1 :> 9

\* Short data of every kind, and longer data with matches that go on behind a
\* byte that differs.
MCParses ==
    {[data |-> d, fast |-> f] : d \in [1 .. 7 -> {0, 1}], f \in BOOLEAN}
    \cup {[data |-> d, fast |-> TRUE] : d \in [1 .. 9 -> {0, 1}]}
    \cup {[data |-> d, fast |-> f] : f \in BOOLEAN,
            d \in {<<0, 1, 2, 3, 3, 1, 2, 3, 0, 1, 2>>, <<0, 1, 2, 0, 1, 3, 0, 1, 2, 0, 1, 3, 0, 1>>,
                  <<0, 1, 2, 3, 4, 1, 0, 1, 2, 5, 4, 1>>, <<0, 1, 0, 1, 0, 1, 1, 1, 1, 1, 1>>}}
MCFarDistances == <<2, 3, 4>>

\* The other parts are idle, or go no further.
IdleBut(part) ==
    /\ part = "File" \/ FileIdle
    /\ part = "Mmap" \/ MmapIdle
    /\ part = "Search" \/ SearchIdle
    /\ part = "Lzma" \/ LzmaIdle
    /\ part = "Index" \/ IndexIdle
    /\ part = "Sources" \/ SourcesIdle
    /\ part = "Options" \/ OptionsIdle
    /\ part = "Codec" \/ CodecIdle
    /\ part = "Finder" \/ FinderIdle
    /\ part = "Optimum" \/ OptimumIdle
    /\ part = "Tool" \/ ToolIdle

MCInit ==
    \/ FileInit /\ IdleBut("File")
    \/ MmapInit /\ IdleBut("Mmap")
    \/ SearchInit /\ IdleBut("Search")
    \/ LzmaInit /\ IdleBut("Lzma")
    \/ IndexInit /\ IdleBut("Index")
    \/ SourcesInit /\ IdleBut("Sources")
    \/ OptionsInit /\ IdleBut("Options")
    \/ CodecInit /\ IdleBut("Codec")
    \/ FinderInit /\ IdleBut("Finder")
    \/ OptimumInit /\ IdleBut("Optimum")
    \/ ToolInit /\ IdleBut("Tool")

libVars == <<fileVars, mmapVars, searchVars, lzmaVars, indexVars, sourceVars, optionVars, codecVars, finderVars,
             optimumVars, toolVars>>

MCNext ==
    \/ writing.blocks # {} /\ FileNext
       /\ UNCHANGED <<mmapVars, searchVars, lzmaVars, indexVars, sourceVars, optionVars, codecVars,
                      finderVars, optimumVars, toolVars>>
    \/ phase # "done" /\ MmapNext
       /\ UNCHANGED <<fileVars, searchVars, lzmaVars, indexVars, sourceVars, optionVars, codecVars,
                      finderVars, optimumVars, toolVars>>
    \/ search.kind # "none" /\ SearchNext
       /\ UNCHANGED <<fileVars, mmapVars, lzmaVars, indexVars, sourceVars, optionVars, codecVars,
                      finderVars, optimumVars, toolVars>>
    \/ call.level # -1 /\ LzmaNext
       /\ UNCHANGED <<fileVars, mmapVars, searchVars, indexVars, sourceVars, optionVars, codecVars,
                      finderVars, optimumVars, toolVars>>
    \/ kind # "none" /\ IndexNext
       /\ UNCHANGED <<fileVars, mmapVars, searchVars, lzmaVars, sourceVars, optionVars, codecVars,
                      finderVars, optimumVars, toolVars>>
    \/ at.pass # 0 /\ SourcesNext
       /\ UNCHANGED <<fileVars, mmapVars, searchVars, lzmaVars, indexVars, optionVars, codecVars,
                      finderVars, optimumVars, toolVars>>
    \/ ending # "idle" /\ OptionsNext
       /\ UNCHANGED <<fileVars, mmapVars, searchVars, lzmaVars, indexVars, sourceVars, codecVars,
                      finderVars, optimumVars, toolVars>>
    \/ enc.pc # "idle" /\ CodecNext
       /\ UNCHANGED <<fileVars, mmapVars, searchVars, lzmaVars, indexVars, sourceVars, optionVars,
                      finderVars, optimumVars, toolVars>>
    \/ mf.historySize > 0 /\ FinderNext
       /\ UNCHANGED <<fileVars, mmapVars, searchVars, lzmaVars, indexVars, sourceVars, optionVars,
                      codecVars, optimumVars, toolVars>>
    \/ lz.pc # "idle" /\ OptimumNext
       /\ UNCHANGED <<fileVars, mmapVars, searchVars, lzmaVars, indexVars, sourceVars, optionVars,
                      codecVars, finderVars, toolVars>>
    \/ ToolRuns /\ ToolNext
       /\ UNCHANGED <<fileVars, mmapVars, searchVars, lzmaVars, indexVars, sourceVars, optionVars,
                      codecVars, finderVars, optimumVars>>

LibSpec == MCInit /\ [][MCNext]_libVars

\* What the encoder codes: the matches that the match finder offers are the
\* longest, and repeats of the data; and the parse uses them, and those it has
\* read ahead, where they hold.
EncoderRight == MatchFinderRight /\ ParseRight
=============================================================================
