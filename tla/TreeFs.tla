------------------------------- MODULE TreeFs -------------------------------
(***************************************************************************)
(* What the driver promises to the kernel: the files of the source tree    *)
(* that no pattern excludes, read-only, with their attributes and their    *)
(* content, each name of a directory listed once.  How mkcromfs stores     *)
(* them and how the driver finds them again does not show.                 *)
(***************************************************************************)
EXTENDS Format

CONSTANTS
    Root, Hidden,   \* as in MakeFs
    Handles,        \* directory handles of the kernel
    Getuid          \* who runs the driver

VARIABLES
    tree,           \* the files
    open,           \* handle to the node it lists and the names still to come
    racy,           \* the link count of the root is either of two
    answer          \* the last request and the reply to it

Closed == [node |-> "none", left |-> {}]

Shown(n) == {x \in DOMAIN tree[n].dir : x \notin Hidden}

AnyName == UNION {DOMAIN tree[m].dir : m \in DOMAIN tree}

\* The nodes one can reach, level by level.
Reached ==
    LET level[k \in 0 .. Cardinality(DOMAIN tree)] ==
            IF k = 0 THEN {Root}
            ELSE level[k - 1] \cup UNION {{tree[n].dir[x] : x \in Shown(n)} : n \in level[k - 1]}
    IN  level[Cardinality(DOMAIN tree)]

\* The names that a node has.
Names(n) ==
    UNION {{<<d, x>> : x \in {y \in Shown(d) : tree[d].dir[y] = n}} : d \in Reached}

Owner(u) == IF u = 0 THEN Getuid ELSE u

\* A directory has as many links as names in it, the root belongs to nobody.
Attr(n) ==
    LET t == tree[n]
    IN  [mode  |-> t.type,
         links |-> CASE t.type = "dir" -> Cardinality(Shown(n))
                     [] t.type = "chr" -> 1
                     [] OTHER          -> Cardinality(Names(n)),
         rdev  |-> IF t.type = "chr" THEN t.rdev ELSE 0,
         uid   |-> IF n = Root THEN Getuid ELSE Owner(t.uid),
         size  |-> CASE t.type = "dir" -> calc_encoded_directory_size([x \in Shown(n) |-> 0])
                     [] t.type = "chr" -> 0
                     [] OTHER          -> t.size]

\* The driver races with itself for the links of the root of an old image.
Attrs(n) == {Attr(n)} \cup (IF racy /\ n = Root THEN {[Attr(n) EXCEPT !.links = 2]} ELSE {})

TreeInit ==
    /\ open = [h \in Handles |-> Closed]
    /\ answer = [to |-> <<"nothing">>, is |-> <<"nothing">>]

Lookup(n, x) ==
    /\ answer'.to = <<"lookup", n, x>>
    /\ answer'.is = IF tree[n].type # "dir" THEN <<"error", "ENOTDIR">>
                    ELSE IF x \in Shown(n)
                         THEN <<"entry", tree[n].dir[x], Attr(tree[n].dir[x])>>
                         ELSE <<"error", "ENOENT">>
    /\ UNCHANGED open

Getattr(n) ==
    /\ answer'.to = <<"getattr", n>>
    /\ answer'.is \in {<<"attr", a>> : a \in Attrs(n)}
    /\ UNCHANGED open

\* open for reading or for writing, and the content that one reads.
Open(n, writing) ==
    /\ answer'.to = <<"open", n, writing>>
    /\ answer'.is = IF tree[n].type = "dir" THEN <<"error", "EISDIR">>
                    ELSE IF writing THEN <<"error", "EACCES">> ELSE <<"opened">>
    /\ UNCHANGED open

Read(n) ==
    /\ tree[n].type \in {"reg", "lnk"}
    /\ answer'.to = <<"read", n>>
    /\ answer'.is = IF tree[n].size = 0 THEN <<"empty", 0>> ELSE <<tree[n].type, tree[n].data>>
    /\ UNCHANGED open

Opendir(h, n) ==
    /\ answer'.to = <<"opendir", n>>
    /\ \/ /\ tree[n].type = "dir"
          /\ answer'.is = <<"opened">>
          /\ open' = [open EXCEPT ![h] = [node |-> n, left |-> Shown(n)]]
       \/ /\ tree[n].type # "dir"
          /\ answer'.is = <<"error", "ENOTDIR">>
          /\ UNCHANGED open

\* Some of the names that the handle has not seen; none only at the end.
Readdir(h) ==
    /\ answer'.to = <<"readdir", h>> /\ answer'.is[1] = "names"
    /\ open[h] # Closed
    /\ \E got \in SUBSET open[h].left :
          /\ got = {} => open[h].left = {}
          /\ answer'.is = <<"names", got>>
          /\ open' = [open EXCEPT ![h].left = @ \ got]

Releasedir(h) ==
    /\ answer'.to = <<"releasedir", h>> /\ answer'.is = <<"nothing">>
    /\ open[h] # Closed
    /\ open' = [open EXCEPT ![h] = Closed]

TreeNext ==
    /\ UNCHANGED tree
    /\ \/ \E n \in DOMAIN tree : \/ \E x \in AnyName : Lookup(n, x)
                                 \/ Getattr(n) \/ Read(n)
                                 \/ \E w \in BOOLEAN : Open(n, w)
                                 \/ \E h \in Handles : Opendir(h, n)
       \/ \E h \in Handles : Readdir(h) \/ Releasedir(h)

TreeSpec == TreeInit /\ [][TreeNext]_<<tree, open, answer>>
=============================================================================
