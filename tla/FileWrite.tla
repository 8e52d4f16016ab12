----------------------------- MODULE FileWrite ------------------------------
(***************************************************************************)
(* LongFileWrite and FileOutputter (lib/longfilewrite.cc): several writes  *)
(* to one file are merged in a buffer; what does not fit goes out at once, *)
(* through SparseWrite if holes are wanted.  unmkcromfs writes the blocks  *)
(* of the extracted files this way.                                        *)
(***************************************************************************)
EXTENDS SparseWrite

CONSTANTS
    Writings,   \* what is written to a file: [expected, blocks], where blocks is
                \* a set of [offset, data, sparse] that do not overlap
    BufSize     \* 0x80000

Disjoint(b, c) == b.offset + Len(b.data) <= c.offset \/ c.offset + Len(c.data) <= b.offset

ASSUME WritingsAssumption ==
    /\ BufSize \in Nat
    /\ \A w \in Writings :
          /\ w.expected \in Nat
          /\ \A b \in w.blocks : b.offset \in Nat /\ b.data \in Seq(Byte) /\ b.sparse \in BOOLEAN
          /\ \A b, c \in w.blocks : b # c => Disjoint(b, c)

VARIABLES
    writing,
    todo,       \* blocks that are still to be written
    longbuf,    \* [pos, data]: bufpos and Buffer
    longpc      \* "open", "sparse", "closed" or "thrown"

longVars == <<writing, todo, longbuf, longpc>>
fileVars == <<vars, longVars>>

FileInit ==
    /\ writing \in Writings /\ todo = writing.blocks
    /\ longbuf = [pos |-> 0, data |-> <<>>] /\ longpc = "open"
    /\ Buffer = <<>> /\ WritePos = 0 /\ file = <<>> /\ done = 0 /\ pc = "idle"
    /\ buffered = [begin |-> 0, pos |-> 0, n |-> 0] /\ skipped = 0

FileIdle ==
    /\ writing = [expected |-> 0, blocks |-> {}] /\ todo = {}
    /\ longbuf = [pos |-> 0, data |-> <<>>] /\ longpc = "closed"
    /\ Buffer = <<>> /\ WritePos = 0 /\ file = <<>> /\ done = 0 /\ pc = "idle"
    /\ buffered = [begin |-> 0, pos |-> 0, n |-> 0] /\ skipped = 0

-----------------------------------------------------------------------------

MaxBufSize == IF BufSize < writing.expected THEN BufSize ELSE writing.expected

getbufend == longbuf.pos + Len(longbuf.data)

\* The whole file in one piece needs no buffer.
WholeFile(b) == b.offset = 0 /\ Len(b.data) = writing.expected

Fits(b) == Len(longbuf.data) + Len(b.data) <= MaxBufSize

MustFlush(b) == b.offset # getbufend \/ ~Fits(b)

Flushed(f) == Pwritten(f, longbuf.pos, longbuf.data)

\* The buffer after FlushBuffer where it is called, at the block if it is empty.
BufferFor(b) ==
    LET data == IF MustFlush(b) THEN <<>> ELSE longbuf.data
    IN  [pos |-> IF data = <<>> THEN b.offset ELSE longbuf.pos, data |-> data]

JustWriteIt(b) ==
    IF b.sparse
    THEN /\ longpc' = "sparse" /\ pc' = "begin"
         /\ Buffer' = b.data /\ WritePos' = b.offset
         /\ done' = 0 /\ buffered' = [begin |-> 0, pos |-> b.offset, n |-> 0] /\ skipped' = 0
    ELSE UNCHANGED <<longpc, pc, Buffer, WritePos, done, buffered, skipped>>

Directly(b, f) ==
    /\ file' = IF b.sparse THEN f ELSE Pwritten(f, b.offset, b.data)
    /\ JustWriteIt(b)

write(b) ==
    /\ longpc = "open" /\ b \in todo
    /\ todo' = todo \ {b}
    /\ IF WholeFile(b)
       THEN Directly(b, file) /\ UNCHANGED longbuf
       ELSE LET buf == BufferFor(b)
                f   == IF MustFlush(b) THEN Flushed(file) ELSE file
            IN
            IF b.offset = buf.pos + Len(buf.data) /\ Len(buf.data) + Len(b.data) <= MaxBufSize
            THEN /\ longbuf' = [buf EXCEPT !.data = @ \o b.data]
                 /\ file' = f
                 /\ UNCHANGED <<longpc, pc, Buffer, WritePos, done, buffered, skipped>>
            ELSE longbuf' = buf /\ Directly(b, f)
    /\ UNCHANGED writing

\* A pwrite64 of the buffer that is short or fails: write throws.
Throw ==
    /\ longpc = "open" /\ longbuf.data # <<>>
    /\ todo = {} \/ \E b \in todo : MustFlush(b)
    /\ \E n \in 0 .. Len(longbuf.data) - 1 :
          file' = Pwritten(file, longbuf.pos, SubSeq(longbuf.data, 1, n))
    /\ longpc' = "thrown"
    /\ UNCHANGED <<Buffer, WritePos, done, buffered, skipped, pc, writing, todo, longbuf>>

\* The same when a block is written at once, after FlushBuffer if that is due.
ThrowDirectly(b) ==
    /\ longpc = "open" /\ b \in todo /\ ~b.sparse
    /\ WholeFile(b) \/ Len(b.data) > MaxBufSize
    /\ \E n \in 0 .. Len(b.data) - 1 :
          file' = Pwritten(IF WholeFile(b) THEN file ELSE Flushed(file), b.offset, SubSeq(b.data, 1, n))
    /\ longpc' = "thrown"
    /\ UNCHANGED <<Buffer, WritePos, done, buffered, skipped, pc, writing, todo, longbuf>>

SparseStep == longpc = "sparse" /\ Next /\ UNCHANGED longVars

SparseReturn ==
    /\ longpc = "sparse" /\ pc \in {"true", "false"}
    /\ longpc' = IF pc = "true" THEN "open" ELSE "thrown"
    /\ pc' = "idle"
    /\ UNCHANGED <<writing, todo, longbuf, Buffer, WritePos, file, done, buffered, skipped>>

\* Mutant: what is buffered is forgotten.
CloseUnflushed ==
    /\ longpc = "open" /\ todo = {}
    /\ longbuf' = [longbuf EXCEPT !.data = <<>>] /\ longpc' = "closed"
    /\ UNCHANGED <<writing, todo, Buffer, WritePos, file, done, buffered, skipped, pc>>

\* The destructor.
CloseFile ==
    /\ longpc = "open" /\ todo = {}
    /\ file' = Flushed(file) /\ longbuf' = [longbuf EXCEPT !.data = <<>>]
    /\ longpc' = "closed"
    /\ UNCHANGED <<writing, todo, Buffer, WritePos, done, buffered, skipped, pc>>

FileEnd == longpc \in {"closed", "thrown"} /\ UNCHANGED fileVars

FileNext ==
    \/ \E b \in todo : write(b) \/ ThrowDirectly(b)
    \/ Throw \/ SparseStep \/ SparseReturn \/ CloseFile \/ FileEnd

-----------------------------------------------------------------------------
(* Properties.                                                               *)

\* What a position of the file should have.
WantedAt(p) == {b.data[p - b.offset + 1] : b \in {c \in writing.blocks :
                   c.offset <= p /\ p < c.offset + Len(c.data)}}

\* Whatever the order of the blocks, and however they were merged, no byte gets
\* to a place that is not its own.
WrittenInPlace == \A p \in DOMAIN file : file[p] \in WantedAt(p)

\* What of a block gets into the file: all of it, unless it goes to SparseWrite,
\* because it is the whole file or larger than the buffer.
Written(b) ==
    IF b.sparse /\ (WholeFile(b) \/ Len(b.data) > MaxBufSize)
    THEN KeptBytes(b.data, b.offset) ELSE 0 .. Len(b.data) - 1

\* The closed file has it all.
FileComplete ==
    longpc = "closed" =>
       \A b \in writing.blocks : \A i \in Written(b) :
          b.offset + i \in DOMAIN file /\ file[b.offset + i] = b.data[i + 1]

\* LongFileWrite and SparseWrite leave the file as its blocks say, in whatever
\* order they come: nothing in a wrong place, the blocks that were merged in the
\* buffer complete, and of the others what SparseWrite does not take for zero.
\* It takes too much for zero, see WrittenFaithfully.
FileFaithful == WrittenInPlace /\ KeptPiecesWritten /\ FileComplete
=============================================================================
