------------------------------ MODULE MCImage -------------------------------
(* Small trees for mkcromfs and the driver.                                 *)
EXTENDS Driver

MCNameSize(n) == IF n = 3 THEN 20 ELSE 3

Dir(d, u)     == [type |-> "dir", size |-> 0, data |-> 0, dir |-> d, rdev |-> 0, uid |-> u]
Reg(s, v)     == [type |-> "reg", size |-> s, data |-> v, dir |-> <<>>, rdev |-> 0, uid |-> 5]
Lnk(v)        == [type |-> "lnk", size |-> 3, data |-> v, dir |-> <<>>, rdev |-> 0, uid |-> 5]
Chr(r)        == [type |-> "chr", size |-> 0, data |-> 0, dir |-> <<>>, rdev |-> r, uid |-> 0]

\* A file with a second name in a directory, a link, a device, an excluded name.
Mixed == "root" :> Dir(1 :> "f" @@ 2 :> "d" @@ 3 :> "e" @@ 9 :> "h", 5)
      @@ "d" :> Dir(1 :> "f" @@ 2 :> "l" @@ 3 :> "c", 7)
      @@ "e" :> Dir(5 :> "g", 7) @@ "g" :> Reg(40, 1)
      @@ "f" :> Reg(40, 1) @@ "l" :> Lnk(2) @@ "c" :> Chr(6) @@ "h" :> Reg(64, 3)

\* As many blocks of files as just fit, and as do not.
Full(n) == "root" :> Dir(1 :> "f", 5) @@ "f" :> Reg(n * 32, 1)

MCTrees == {Mixed, Full(8), Full(9)}

\* Files of the name 1 have small blocks, the inode table has others.
SmallBlocks == <<[names |-> {1, 3}, size |-> 8], [names |-> {0, 3}, size |-> 16]>>

MCChoices == {[bsize_for |-> SmallBlocks, numsize |-> 0], [bsize_for |-> <<>>, numsize |-> 4]}

\* For the run convert_silently.
WideChoices == {[bsize_for |-> SmallBlocks, numsize |-> 4]}

Downgrade == {[ver |-> 2, packed |-> FALSE, force |-> FALSE]}

\* To the older versions, and to the other data locators.
MCConversions == [ver : {1, 2}, packed : {FALSE}, force : {FALSE}]
                   \cup [ver : {3}, packed : BOOLEAN, force : {TRUE}]

\* Only one listing at a time of what was converted.
OneListing == converted # "no" => handle[2] = NoHandle

\* These requests change neither the driver nor a handle: what can follow the
\* reply could follow without it, so one reply at a time is enough.
OneReply == reply.to[1] \notin {"lookup", "getattr", "open", "read"}

\* The old versions have no block sizes in the inodes, and cvcromfs says
\* nothing of it: the run convert_silently shows what happens then.
KeepsBlockSizes == opts.variable => image = NoImage \/ image.sb.sig = 3

\* "Do not use this option if your cromfs volume packs more than 4 gigabytes".
PacksWhatFits ==
    converted = "done" /\ image.inotab.opts.packed => nfblocks(blocks) * FSIZE <= Radix ^ 4
=============================================================================
