------------------------------ MODULE WriteFs ------------------------------
(***************************************************************************)
(* The last part of CreateAndWriteFs in util/mkcromfs.cc: a team of threads *)
(* compresses the fblocks and writes them, in order, into the image; after  *)
(* each one the user is told that its temporary file may be deleted.  The   *)
(* program or the computer may stop at any time; ResumeWritingFs, the       *)
(* option --finish-interrupted, is then to finish the image.                *)
(*                                                                          *)
(* The image is a function from file positions to cells: a length word or a *)
(* byte of a compressed fblock.  The fblocks go through SparseWrite, which  *)
(* leaves out pieces that have no zero byte (SparsePieces).                 *)
(***************************************************************************)
EXTENDS SparsePieces, FiniteSets

CONSTANTS
    NumFblocks,     \* fblocks.size()
    Thread,         \* the team of the parallel loop
    FSIZE,
    Compressed,     \* the compressed fblocks considered: by fblock, the length and
                    \* the offsets of its zero bytes
    SparseModes,    \* whether CROMFS_OPT_SPARSE_FBLOCKS is set
    MayBeInvalid,   \* whether a fblock may fail the decompression test
    MayFill,        \* whether the disk may become full
    HeaderSize      \* cells of a length word: 4 bytes, here one cell

ASSUME WriteFsParameters ==
    /\ NumFblocks \in Nat /\ FSIZE \in Nat \ {0} /\ HeaderSize = 1
    /\ Compressed \subseteq [0..(NumFblocks - 1) -> [n : Nat \ {0}, zeros : SUBSET Nat]]
    /\ SparseModes \subseteq BOOLEAN
    /\ MayBeInvalid \in BOOLEAN /\ MayFill \in BOOLEAN
    /\ IsFiniteSet(Thread) /\ Thread # {}

VARIABLES
    length,     \* by fblock: lzma_length; never changes
    zeros,      \* by fblock: where its zero bytes are; never changes
    sparse,     \* the storage option; never changes
    phase,      \* "head", "write", "done", "failed", "crashed", "resume", "resumed"
    next,       \* first iteration of the loop not handed out yet
    iter,       \* by thread: fblocknum
    pc,         \* by thread: where it is in the loop body
    turn,       \* the iteration the ordered section is open for
    fblk_offset,
    terminate_for,
    full,       \* a SparseWrite has failed, which nobody looks at
    out,        \* the image as the system shows it
    synced,     \* what of the image is on the disk
    files,      \* the fblocks whose temporary file exists
    invited,    \* the fblocks announced with "You may now delete"
    kept,       \* the fblocks in the image after the crash
    resume      \* [fblocknum, fblock_pos] of ResumeWritingFs

input == <<length, zeros, sparse>>
loopVars == <<next, iter, pc, turn, fblk_offset, terminate_for, full>>
vars == <<input, phase, loopVars, out, synced, files, invited, kept, resume>>

Fblock == 0..(NumFblocks - 1)

-----------------------------------------------------------------------------
(* The superblock and the tables are one cell at 0, the fblocks follow.     *)
Superblock == [kind |-> "super", of |-> 0, n |-> 0]
LengthWord(n) == [kind |-> "length", of |-> 0, n |-> n]
DataByte(f, i) == [kind |-> "data", of |-> f, n |-> i]

fblktab_offs == 1

Cell(pos, c) == [p \in {pos} |-> c]

(* An image after a write of the cells.                                     *)
Over(cells, img) ==
    [p \in DOMAIN cells \cup DOMAIN img |-> IF p \in DOMAIN cells THEN cells[p] ELSE img[p]]

(* The bytes of fblock f that SparseWrite writes at pos.                    *)
Kept(f, pos) == KeptOffsets(pos, length[f], zeros[f])

DataCells(f, pos) == [p \in {pos + i : i \in Kept(f, pos)} |-> DataByte(f, p - pos)]

(* The bytes S of fblock f are in the file, for data that begins at pos.    *)
DataIs(img, f, pos, S) ==
    \A i \in S : pos + i \in DOMAIN img /\ img[pos + i] = DataByte(f, i)

LengthAt(img, f, pos) == pos \in DOMAIN img /\ img[pos] = LengthWord(length[f])

(* A length word at pos with a complete fblock behind it.                   *)
GoodFblocks(img, pos) ==
    {f \in Fblock : LengthAt(img, f, pos)
                    /\ DataIs(img, f, pos + HeaderSize, 0..(length[f] - 1))}

Stride(f) == HeaderSize + IF sparse THEN FSIZE ELSE length[f]

(* Where the reader of the finished image looks for each fblock.            *)
FilePos[f \in Nat] ==
    IF f = 0 THEN fblktab_offs ELSE FilePos[f - 1] + Stride(f - 1)

HasBytes(img, f, S) ==
    /\ 0 \in DOMAIN img /\ LengthAt(img, f, FilePos[f])
    /\ DataIs(img, f, FilePos[f] + HeaderSize, S)

(* The fblock is in the image, so that the reader finds it.                 *)
InImage(img, f) == HasBytes(img, f, 0..(length[f] - 1))

(* It is there as far as SparseWrite writes it.                             *)
PutInImage(img, f) == HasBytes(img, f, Kept(f, FilePos[f] + HeaderSize))

-----------------------------------------------------------------------------
Init ==
    /\ \E c \in Compressed : /\ length = [f \in Fblock |-> c[f].n]
                            /\ zeros = [f \in Fblock |-> c[f].zeros]
    /\ sparse \in SparseModes
    /\ phase = "head"
    /\ next = 0 /\ turn = 0
    /\ iter = [t \in Thread |-> 0] /\ pc = [t \in Thread |-> "loop"]
    /\ fblk_offset = fblktab_offs
    /\ terminate_for = FALSE /\ full = FALSE
    /\ out = <<>> /\ synced = <<>>
    /\ files = Fblock /\ invited = {} /\ kept = {}
    /\ resume = [fblocknum |-> 0, fblock_pos |-> 0]

(* ftruncate64(out_fd, 0) and the parallel sections.                        *)
WriteHead ==
    /\ phase = "head"
    /\ phase' = "write"
    /\ out' = Cell(0, Superblock)
    /\ UNCHANGED <<input, loopVars, synced, files, invited, kept, resume>>

(* parallel for, schedule(dynamic); the compression itself is not modelled. *)
TakeFblock(t) ==
    /\ phase = "write" /\ pc[t] = "loop"
    /\ IF next < NumFblocks
       THEN /\ iter' = [iter EXCEPT ![t] = next]
            /\ next' = next + 1
            /\ pc' = [pc EXCEPT ![t] = "ordered"]
       ELSE /\ pc' = [pc EXCEPT ![t] = "end"]
            /\ UNCHANGED <<iter, next>>
    /\ UNCHANGED <<input, phase, turn, fblk_offset, terminate_for, full, out, synced,
                   files, invited, kept, resume>>

(* Mutant: the ordered section stays closed after an error.                 *)
LeaveOrderedUnlessError(t, error) ==
    /\ pc' = [pc EXCEPT ![t] = "loop"]
    /\ turn' = IF error THEN turn ELSE turn + 1
    /\ terminate_for' = (terminate_for \/ error)

(* next_for: the end of the ordered section, after an error or not.         *)
LeaveOrdered(t, error) ==
    /\ pc' = [pc EXCEPT ![t] = "loop"]
    /\ turn' = turn + 1
    /\ terminate_for' = (terminate_for \/ error)

(* The ordered section: the trial decompression, which an error before this *)
(* one does not prevent.                                                    *)
Verify(t) ==
    /\ phase = "write" /\ pc[t] = "ordered" /\ turn = iter[t]
    /\ \/ /\ pc' = [pc EXCEPT ![t] = "length"]
          /\ UNCHANGED <<turn, terminate_for>>
       \/ /\ MayBeInvalid
          /\ LeaveOrdered(t, TRUE)
    /\ UNCHANGED <<input, phase, next, iter, fblk_offset, full, out, synced, files,
                   invited, kept, resume>>

(* SparseWrite, whose result is not used: the cells, or on a full disk what *)
(* there was room for.                                                      *)
WriteCells(cells) ==
    \/ /\ out' = Over(cells, out)
       /\ full' = full
    \/ /\ MayFill
       /\ full' = TRUE
       /\ \E q \in DOMAIN cells :
             out' = Over([p \in {x \in DOMAIN cells : x < q} |-> cells[p]], out)

WriteLength(t) ==
    /\ phase = "write" /\ pc[t] = "length"
    /\ WriteCells(Cell(fblk_offset, LengthWord(length[iter[t]])))
    /\ fblk_offset' = fblk_offset + HeaderSize
    /\ pc' = [pc EXCEPT ![t] = "data"]
    /\ UNCHANGED <<input, phase, next, iter, turn, terminate_for, synced, files, invited,
                   kept, resume>>

WriteData(t) ==
    /\ phase = "write" /\ pc[t] = "data"
    /\ WriteCells(DataCells(iter[t], fblk_offset))
    /\ IF sparse /\ length[iter[t]] > FSIZE
       THEN /\ LeaveOrdered(t, TRUE)
            /\ fblk_offset' = fblk_offset
       ELSE /\ fblk_offset' = fblk_offset + IF sparse THEN FSIZE ELSE length[iter[t]]
            /\ pc' = [pc EXCEPT ![t] = "sync"]
            /\ UNCHANGED <<turn, terminate_for>>
    /\ UNCHANGED <<input, phase, next, iter, synced, files, invited, kept, resume>>

(* Mutant: the data is left to the system to write.                         *)
NoDataSync == synced' = synced

(* External: fdatasync(out_fd).                                             *)
DataSync == synced' = out

Sync(t) ==
    /\ phase = "write" /\ pc[t] = "sync"
    /\ DataSync
    /\ pc' = [pc EXCEPT ![t] = "tell"]
    /\ UNCHANGED <<input, phase, next, iter, turn, fblk_offset, terminate_for, full, out,
                   files, invited, kept, resume>>

(* "You may now delete %s if you want".                                     *)
Tell(t) ==
    /\ phase = "write" /\ pc[t] = "tell"
    /\ invited' = invited \cup {iter[t]}
    /\ LeaveOrdered(t, FALSE)
    /\ UNCHANGED <<input, phase, next, iter, fblk_offset, full, out, synced, files, kept,
                   resume>>

(* The user does so.                                                        *)
UserDeletes(f) ==
    /\ phase \in {"write", "crashed"} /\ f \in invited
    /\ f \in files
    /\ files' = files \ {f}
    /\ UNCHANGED <<input, phase, loopVars, out, synced, invited, kept, resume>>

(* The end of the loop and, with the fblockset, of the temporary files.     *)
EndLoop ==
    /\ phase = "write" /\ \A t \in Thread : pc[t] = "end"
    /\ phase' = IF terminate_for THEN "failed" ELSE "done"
    /\ out' = IF terminate_for THEN out
              ELSE [p \in {q \in DOMAIN out : q < fblk_offset} |-> out[p]]
    /\ files' = {}
    /\ UNCHANGED <<input, loopVars, synced, invited, kept, resume>>

-----------------------------------------------------------------------------
(* The program is interrupted or the computer crashes.  What was not synced *)
(* may or may not be in the image afterwards.                               *)
Crash ==
    /\ phase \in {"head", "write"}
    /\ phase' = "crashed"
    /\ \E lost \in SUBSET {p \in DOMAIN out : p \notin DOMAIN synced \/ synced[p] # out[p]} :
          /\ synced' = [p \in {q \in DOMAIN out : q \notin lost \/ q \in DOMAIN synced} |->
                            IF p \in lost THEN synced[p] ELSE out[p]]
    /\ out' = synced'
    /\ kept' = {f \in Fblock : \A g \in 0..f : InImage(synced', g)}
    /\ UNCHANGED <<input, loopVars, files, invited, resume>>

(* mkcromfs --finish-interrupted; without a superblock it fails at once.    *)
BeginResume ==
    /\ phase = "crashed" /\ 0 \in DOMAIN out
    /\ phase' = "resume"
    /\ resume' = [fblocknum |-> 0, fblock_pos |-> fblktab_offs]
    /\ UNCHANGED <<input, loopVars, out, synced, files, invited, kept>>

(* "fblock %u appears to be in the file already": on to the next.  What is  *)
(* behind the length word may be damaged, and the decoder need not notice.  *)
(* The next one is taken to follow directly, in a sparse image too.         *)
ResumeFound ==
    /\ phase = "resume"
    /\ \E f \in {g \in Fblock : LengthAt(out, g, resume.fblock_pos)} :
          resume' = [fblocknum |-> resume.fblocknum + 1,
                     fblock_pos |-> resume.fblock_pos + HeaderSize + length[f]]
    /\ UNCHANGED <<input, phase, loopVars, out, synced, files, invited, kept>>

(* Mutant: cut one cell too early.                                          *)
CutBefore(pos) == [p \in {q \in DOMAIN out : q < pos - 1} |-> out[p]]

CutAt(pos) == [p \in {q \in DOMAIN out : q < pos} |-> out[p]]

(* Whether the walk says "but it is not valid LZMA data": not behind the    *)
(* end of the file, always in a hole, where the length word is zero, and    *)
(* otherwise if the file is long enough for what the length word says.      *)
DecodeErrors(pos) ==
    IF \A p \in DOMAIN out : p < pos THEN {FALSE}
    ELSE IF pos \notin DOMAIN out THEN {TRUE} ELSE BOOLEAN

(* The fblock is not in the image, or damaged (error).  A mkcromfs_fblock   *)
(* just constructed has filesize 0: "does not seem to exist", whether the   *)
(* file exists or not, and the loop ends.  Its destructor unlinks the file. *)
ResumeMissing ==
    /\ phase = "resume" /\ GoodFblocks(out, resume.fblock_pos) = {}
    /\ phase' = "resumed"
    /\ files' = files \ {resume.fblocknum}
    /\ \E error \in DecodeErrors(resume.fblock_pos) :
          out' = IF error THEN out ELSE CutAt(resume.fblock_pos)
    /\ synced' = out'
    /\ UNCHANGED <<input, loopVars, invited, kept, resume>>

ThreadStep(t) ==
    \/ TakeFblock(t) \/ Verify(t) \/ WriteLength(t) \/ WriteData(t) \/ Sync(t) \/ Tell(t)

Next ==
    \/ WriteHead \/ EndLoop \/ Crash \/ BeginResume \/ ResumeFound \/ ResumeMissing
    \/ \E t \in Thread : ThreadStep(t)
    \/ \E f \in Fblock : UserDeletes(f)

(* The threads run until they reach the barrier of the loop.                *)
Fairness ==
    /\ WF_vars(WriteHead) /\ WF_vars(EndLoop)
    /\ WF_vars(ResumeFound \/ ResumeMissing)
    /\ \A t \in Thread : WF_vars(ThreadStep(t))

Spec == Init /\ [][Next]_vars /\ Fairness

-----------------------------------------------------------------------------
(* Properties.                                                              *)

Healthy == ~terminate_for /\ ~full

(* While nothing goes wrong but a crash, each fblock has its file or is on  *)
(* the disk in its place in the image, its length word and every byte that  *)
(* SparseWrite writes, whatever the user deleted as told; when the program  *)
(* is done all are in the image so far.  That is the whole fblock if it has *)
(* a zero byte in every piece; another is not, see ToldIsWritten.           *)
NothingLost ==
    Healthy /\ phase \in {"head", "write", "done", "crashed"} =>
        \A f \in Fblock : f \in files \/ PutInImage(synced, f)

(* --finish-interrupted does no harm to the fblocks that are in the image.  *)
ResumeKeepsImage ==
    Healthy /\ phase = "resumed" => \A f \in kept : InImage(out, f)

(* The loop ends, also after an error: the ordered section never stays      *)
(* closed for a thread; and so does --finish-interrupted.                   *)
WriteEnds ==
    /\ phase = "head" ~> phase \in {"done", "failed", "crashed"}
    /\ phase = "resume" ~> phase = "resumed"

(* "Ensure the data is written before deleting the fblock" (mkcromfs.cc),   *)
(* errors or not: who is told that a file may go finds its data on the disk *)
(* where the reader of the image looks for it.                              *)
ToldIsWritten == \A f \in invited : phase = "write" => InImage(synced, f)

(* "Use this option to finish a cromfs filesystem, if for some reason       *)
(* mkcromfs was interrupted": then all the fblocks whose file survived are  *)
(* in the image.                                                            *)
ResumeFinishes ==
    Healthy /\ phase = "resumed" => \A f \in Fblock : InImage(out, f)
=============================================================================
