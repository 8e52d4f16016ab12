---------------------------- MODULE SparsePieces ----------------------------
(***************************************************************************)
(* What SparseWrite (lib/sparsewrite.cc) puts into a file, seen from those *)
(* who call it: which bytes of a buffer with zero bytes at the offsets Z,  *)
(* written at pos, get there.  SparseWrite has the steps that do it.       *)
(***************************************************************************)
EXTENDS Integers

CONSTANT BlockSize      \* 1024, a power of two

ASSUME BlockSizeAssumption == BlockSize \in Nat \ {0}

\* (WritePos + BlockSize-1) & ~BlockSize clears one bit, not the lower ones.
NextBlockBoundary(pos) ==
    LET x == pos + BlockSize - 1
    IN  IF (x \div BlockSize) % 2 = 1 THEN x - BlockSize ELSE x

\* UnalignedRemainder, written as it is: the difference is unsigned, one below
\* pos is as good as infinite.
Remainder(pos, n) ==
    LET d == NextBlockBoundary(pos) - pos
    IN  IF d < 0 \/ d > n THEN n ELSE d

\* Of the pieces of BlockSize behind it those with a zero byte are written.
KeptOffsets(pos, n, Z) ==
    LET r == Remainder(pos, n)
    IN  {i \in 0 .. n - 1 : i < r \/ \E z \in Z : r <= z /\ z < n
                                        /\ (z - r) \div BlockSize = (i - r) \div BlockSize}
=============================================================================
