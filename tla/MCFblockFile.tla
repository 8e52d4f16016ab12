---------------------------- MODULE MCFblockFile ----------------------------
(* Instances of FblockFile for TLC. *)
EXTENDS FblockFile

MCByte == {<<0>>, <<1>>}

(* Compression makes short data longer than FSIZE, and leaves longer data   *)
(* as long as they are or makes them shorter.                               *)
MCLzmaSize(d) ==
    CASE Len(d) < 2 -> FSIZE + 1
      [] Len(d) >= 2 /\ d[1] # d[2] -> Len(d)
      [] OTHER -> 1

(* Everything, from an offset to the end, a part, and behind the end.       *)
MCRequests == {<<0, All>>, <<1, All>>, <<1, 1>>, <<FSIZE, 1>>}
=============================================================================
