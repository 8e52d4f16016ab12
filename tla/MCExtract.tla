----------------------------- MODULE MCExtract ------------------------------
(* Small images for unmkcromfs: extracting them, and their similarity graph. *)
EXTENDS Extract, Simgraph

Block(f, d) == [fblock |-> f, data |-> d, kept |-> d, large |-> FALSE]
\* A block with a piece without a zero byte.
Text(f, d) == [fblock |-> f, data |-> d, kept |-> d + 100, large |-> FALSE]
Large(b) == [b EXCEPT !.large = TRUE]
Leaf(m, b, w, t) == [mode |-> m, dir |-> <<>>, blocks |-> b, write |-> w, time |-> t]
Folder(d, w, t)  == [mode |-> "dir", dir |-> d, blocks |-> <<>>, write |-> w, time |-> t]

\* A file over three fblocks with two names, large blocks and one of zeros, a
\* file that is one block of text and one of two such blocks, a link and a device
\* in a directory, and a directory in a directory.
Mixed == <<Folder(1 :> 2 @@ 2 :> 3 @@ 3 :> 4, TRUE, 9),
           Folder(1 :> 3 @@ 2 :> 5 @@ 3 :> 6 @@ 4 :> 7, TRUE, 8),
           Leaf("reg", <<Large(Text(1, 11)), Large(Block(2, 12)), Large(Block(1, 13)), Block(3, 0)>>, FALSE, 7),
           Leaf("reg", <<Text(2, 14)>>, TRUE, 6),
           Leaf("lnk", <<Block(2, 15)>>, TRUE, 5),
           Leaf("chr", <<>>, TRUE, 4),
           Folder(1 :> 8, TRUE, 3),
           Leaf("reg", <<Text(3, 16), Text(3, 17)>>, TRUE, 2)>>

MCInotabFblock == [i \in 1 .. 8 |-> IF i <= 4 THEN 4 ELSE 3]

All == {<<1>>, <<2>>, <<3>>, <<1, 1>>, <<1, 2>>, <<1, 3>>, <<1, 4>>, <<1, 4, 1>>}

Call(i, w, f, s, e, r) ==
    [image |-> i, wanted |-> w, flat |-> f, sparse |-> s, existing |-> e, root |-> r]

\* Everything, also over older files; single files by their names, with the
\* directories on the way or flat; everything for a user without rights.  One of
\* them with --nosparse.
MCCalls == {Call(Mixed, All, FALSE, TRUE, <<>>, TRUE),
            Call(Mixed, All, FALSE, FALSE, <<1>> :> "dir" @@ <<2>> :> "reg" @@ <<1, 1>> :> "reg"
                                    @@ <<1, 2>> :> "lnk" @@ <<9>> :> "reg", FALSE),
            Call(Mixed, {<<1, 4, 1>>, <<2>>}, FALSE, TRUE, <<>>, FALSE),
            Call(Mixed, {<<1, 1>>, <<1, 2>>}, TRUE, TRUE, <<>>, FALSE)}

\* Files of at most two blocks of two or three bytes, in two fblocks of five
\* bytes (only the first of which may be met by blocks that overlap).
SimBlocks == {<<0, 0>>, <<0, 1>>, <<0, 2>>, <<1, 1>>}
SimFile(size, b) == [bytesize |-> size, blocksize |-> 2, blocks |-> b]
SimFiles == {SimFile(0, <<>>)} \cup {SimFile(1, <<b>>) : b \in SimBlocks}
            \cup {SimFile(s, <<b, c>>) : s \in {3, 4}, b \in SimBlocks, c \in SimBlocks}
SimFirst == SimFile(4, <<<<0, 2>>, <<1, 1>>>>)
MCSimImages == {<<f, g, SimFirst>> : f \in SimFiles, g \in SimFiles}
               \cup {<<SimFile(5, <<<<0, 0>>, <<1, 0>>, <<0, 3>>>>), SimFirst, f>> : f \in SimFiles}

NotCalled == Call(<<>>, {}, FALSE, FALSE, <<>>, FALSE)
ExtractIdle ==
    /\ job = NotCalled /\ step = "done" /\ stack = <<>> /\ dir = <<>> /\ inode_files = <<>>
    /\ extra_dirs = {} /\ fblock_users = {} /\ entry = 1 /\ busy = <<>> /\ cache = {}
    /\ names = <<>> /\ objs = <<>>

ToolIdle == ExtractIdle /\ SimIdle
ToolRuns == job # NotCalled \/ image # <<>>

ToolInit == (ExtractInit /\ SimIdle) \/ (SimInit /\ ExtractIdle)
ToolNext ==
    \/ job # NotCalled /\ ExtractNext /\ UNCHANGED simVars
    \/ image # <<>> /\ SimNext /\ UNCHANGED extractVars
toolVars == <<extractVars, simVars>>
=============================================================================
