---------------------------- MODULE MCBlockifier ----------------------------
(* Instances of Blockifier for TLC. *)
EXTENDS Blockifier, FiniteSets, SequencesExt

CONSTANTS MaxLen, NumSources, Sizes, LargeSize

MCSource  == 1..NumSources
MCSortKey == [s \in MCSource |-> s]
MCByte    == {0, 1}

(* A hash with many collisions: the number of non-blank bytes.              *)
MCHash(d) == Cardinality({i \in DOMAIN d : d[i] = 1})

MCBSizes  == SetToSortSeq({BSIZE, LargeSize} \cup Sizes, LAMBDA x, y : x < y)

Contents == UNION {[1..n -> MCByte] : n \in 0..MaxLen}

(* Files whose blocks are larger than a fblock: full, partial and equal ones. *)
LargeFiles ==
    [data : {<<0, 1, 0, 1, 1>>, <<0, 1, 0, 1, 1, 0, 1>>, <<1, 1, 0>>}, blocksize : {LargeSize}]

SmallFiles == [data : Contents, blocksize : Sizes]

MCInputs == [MCSource -> SmallFiles \cup LargeFiles]
=============================================================================
