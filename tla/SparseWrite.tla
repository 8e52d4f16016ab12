---------------------------- MODULE SparseWrite ----------------------------
(***************************************************************************)
(* SparseWrite and is_zero_block (lib/sparsewrite.cc): write a buffer into  *)
(* a file, leaving holes for the blocks that need no writing.  mkcromfs     *)
(* writes the whole image through it, unmkcromfs the extracted files.       *)
(***************************************************************************)
EXTENDS SparsePieces, Sequences, FiniteSets

CONSTANTS
    Byte,
    Zero,       \* the byte '\0'
    Buffers,    \* the buffers considered
    Positions   \* the file positions considered

ASSUME SparseParameters ==
    /\ Zero \in Byte
    /\ Buffers \subseteq Seq(Byte)
    /\ Positions \subseteq Nat

VARIABLES
    Buffer,     \* what is to be written
    WritePos,   \* where
    file,       \* file position -> byte, for the bytes that were written
    done,       \* bytes of the buffer gone through
    buffered,   \* [begin, pos, n]: BufferedBegin, -Pos and -Size
    skipped,    \* SkippedSize
    pc          \* "begin", "loop", "true" or "false"; "idle" between calls

vars == <<Buffer, WritePos, file, done, buffered, skipped, pc>>

-----------------------------------------------------------------------------
(* memchr looks for a zero byte; the block counts as zero without one.      *)
IsZeroBlock(d) == \A i \in DOMAIN d : d[i] # Zero

UnalignedRemainder == Remainder(WritePos, Len(Buffer))

(* The next piece the loop looks at: a block, or what is left at the end.   *)
PieceSize(k) ==
    IF Len(Buffer) - k >= BlockSize THEN BlockSize ELSE Len(Buffer) - k

Piece(k) == SubSeq(Buffer, k + 1, k + PieceSize(k))

-----------------------------------------------------------------------------
Init ==
    /\ Buffer \in Buffers /\ WritePos \in Positions
    /\ file = <<>>
    /\ done = 0 /\ buffered = [begin |-> 0, pos |-> WritePos, n |-> 0] /\ skipped = 0
    /\ pc = "begin"

(* A file after pwrite64 of the data.                                       *)
Pwritten(f, pos, data) ==
    [p \in DOMAIN f \cup pos..(pos + Len(data) - 1) |->
        IF p \in pos..(pos + Len(data) - 1) THEN data[p - pos + 1] ELSE f[p]]

(* pwrite64 of the first n collected bytes.                                 *)
Pwrite(n) ==
    file' = Pwritten(file, buffered.pos, SubSeq(Buffer, buffered.begin + 1, buffered.begin + n))

(* Mutant: the collected bytes are not flushed before a hole.               *)
AppendWithoutFlush(n) ==
    /\ UNCHANGED file
    /\ buffered' = [buffered EXCEPT !.n = @ + n]
    /\ skipped' = 0

(* Mutant: the position of the flushed bytes is kept.                       *)
AppendAtOldPos(n) ==
    /\ IF skipped > 0 THEN Pwrite(buffered.n) ELSE UNCHANGED file
    /\ buffered' = IF skipped > 0 THEN [begin |-> done, pos |-> buffered.pos, n |-> n]
                   ELSE [buffered EXCEPT !.n = @ + n]
    /\ skipped' = 0

(* AppendBuf: what was collected before a hole goes out first.              *)
AppendBuf(n) ==
    /\ IF skipped > 0 THEN Pwrite(buffered.n) ELSE UNCHANGED file
    /\ buffered' = IF skipped > 0 THEN [begin |-> done, pos |-> WritePos + done, n |-> n]
                   ELSE [buffered EXCEPT !.n = @ + n]
    /\ skipped' = 0

Begin ==
    /\ pc = "begin"
    /\ pc' = "loop"
    /\ done' = UnalignedRemainder
    /\ AppendBuf(UnalignedRemainder)
    /\ UNCHANGED <<Buffer, WritePos>>

WriteBlock ==
    /\ pc = "loop" /\ done < Len(Buffer)
    /\ ~IsZeroBlock(Piece(done))
    /\ AppendBuf(PieceSize(done))
    /\ done' = done + PieceSize(done)
    /\ UNCHANGED <<Buffer, WritePos, pc>>

SkipBlock ==
    /\ pc = "loop" /\ done < Len(Buffer)
    /\ IsZeroBlock(Piece(done))
    /\ skipped' = skipped + PieceSize(done)
    /\ done' = done + PieceSize(done)
    /\ UNCHANGED <<Buffer, WritePos, file, buffered, pc>>

Finish ==
    /\ pc = "loop" /\ done = Len(Buffer)
    /\ Pwrite(buffered.n)
    /\ pc' = "true"
    /\ UNCHANGED <<Buffer, WritePos, done, buffered, skipped>>

(* A pwrite64 of FlushBuf that is short or fails: SparseWrite gives up.     *)
Fail ==
    /\ pc = "loop" /\ buffered.n > 0
    /\ \/ done = Len(Buffer)
       \/ skipped > 0 /\ ~IsZeroBlock(Piece(done))
    /\ \E n \in 0..(buffered.n - 1) : Pwrite(n)
    /\ pc' = "false"
    /\ UNCHANGED <<Buffer, WritePos, done, buffered, skipped>>

Next == Begin \/ WriteBlock \/ SkipBlock \/ Finish \/ Fail

Spec == Init /\ [][Next]_vars

-----------------------------------------------------------------------------
(* Properties.                                                              *)

(* What the file holds at p: unwritten bytes of a new file read as zero.    *)
FileByte(p) == IF p \in DOMAIN file THEN file[p] ELSE Zero

ZeroOffsets(d) == {i - 1 : i \in {j \in DOMAIN d : d[j] = Zero}}

(* The bytes of the data that SparseWrite writes at pos.                    *)
KeptBytes(d, pos) == KeptOffsets(pos, Len(d), ZeroOffsets(d))

(* SparseWrite that returns true has put every byte before the first block  *)
(* boundary, and every piece in which there is a zero byte, where they      *)
(* belong, however many holes it left before.                               *)
KeptPiecesWritten ==
    pc = "true" =>
      \A i \in KeptBytes(Buffer, WritePos) :
          WritePos + i \in DOMAIN file /\ file[WritePos + i] = Buffer[i + 1]

(* "When the block consists entirely of zeroes, it does not need to be      *)
(* written" (lib/longfilewrite.cc): only such blocks are left out.          *)
WrittenFaithfully ==
    pc = "true" =>
      \A i \in 0..(Len(Buffer) - 1) : FileByte(WritePos + i) = Buffer[i + 1]
=============================================================================
