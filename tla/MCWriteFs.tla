----------------------------- MODULE MCWriteFs -----------------------------
(* Instances of WriteFs for TLC: the cfgs give all the constants values. *)
EXTENDS WriteFs

ZeroFree(n) == [n |-> n, zeros |-> {}]
Zeros(n) == [n |-> n, zeros |-> 0..(n - 1)]

Three(a, b, c) == [f \in 0..2 |-> IF f = 0 THEN a ELSE IF f = 1 THEN b ELSE c]

\* Short and long fblocks in several orders: where the first is short, the
\* longer ones behind it lose their last piece, but for the one with a zero byte.
MCCompressed ==
    { Three(ZeroFree(1), ZeroFree(3), ZeroFree(1)),
      Three(ZeroFree(1), [n |-> 3, zeros |-> {2}], ZeroFree(3)),
      Three(ZeroFree(3), ZeroFree(1), ZeroFree(3)),
      Three(ZeroFree(2), ZeroFree(1), ZeroFree(2)) }

\* Fblocks that SparseWrite writes completely.
MCAllZeros == [0..2 -> {Zeros(1), Zeros(2), Zeros(3)}]
=============================================================================
