----------------------------- MODULE SplitFiles -----------------------------
(***************************************************************************)
(* WriteOutput and ReadInput (common_io.rs) around a series of files       *)
(* name.c00, name.c01, ...: encryption writes the header and the sealed    *)
(* chunks across the files, decryption reads them back later.              *)
(*                                                                         *)
(* Sizes are in units.  A file is a sequence of units, each the record of  *)
(* the buffer it was written from and its place in that buffer.  Every     *)
(* iteration of the loops of write_files and read_files is a step, as each *)
(* opens, creates, reads or writes a file and may fail.                    *)
(***************************************************************************)
EXTENDS Naturals, SequencesExt

CONSTANTS
  MaxFiles,     \* bound on the number of files of a series
  HeaderSize,   \* HEADER_SIZE
  ChunkSize,    \* size of a full sealed chunk
  Overhead,     \* nonces and tags: the least size of a sealed chunk
  Payloads,     \* the possible sequences of sealed chunk sizes
  Splits,       \* the possible values of option --split
  Earlier,      \* the possible numbers of files left by an earlier encryption
  NoFile

ASSUME SplitAssumption ==
  /\ NoFile \notin Seq([buf : Nat, pos : Nat])
  /\ MaxFiles \in Nat \ {0} /\ HeaderSize \in Nat \ {0}
  /\ Overhead \in Nat \ {0} /\ ChunkSize \in Nat /\ Overhead <= ChunkSize
  /\ \A p \in Payloads : /\ p \in Seq(Nat) /\ p # <<>>
                         /\ \A i \in 1..(Len(p) - 1) : p[i] = ChunkSize
                         /\ Last(p) \in Overhead..ChunkSize
  /\ \A s \in Splits : s \in Seq(Nat)
  /\ Earlier \subseteq 0..MaxFiles

Indices == 0..(MaxFiles - 1)

VARIABLES
  payload,      \* the chunks of this encryption
  split,        \* its option --split
  files,        \* the directory: the files of the series, by split index
  phase,        \* "create", "write", "open", "header", "read", "ok", "err"
  bufNo,        \* the buffer being written or read; 1 is the header
  bufStart, bufEnd,                \* locals of write_files and read_files
  outSplit, outIndex, outCount,    \* f_out_split, split_index, f_out_write_count
  outFile,                         \* the file f_out is open on
  checksums,                       \* the files a checksum was taken of
  inSplit, inIndex, inCount,       \* f_in_split, split_index, f_in_read_count
  inFile,                          \* the file f_in is open on
  remaining,                       \* f_in_total_size_remaining
  bufLen, final,                   \* size and final flag of the chunk being read
  bufIn,                           \* the units read into the buffer so far
  chunksRead                       \* what read_chunk returned

setup == <<payload, split>>
outVars == <<outSplit, outIndex, outCount, outFile, checksums>>
inVars == <<inSplit, inIndex, inCount, inFile, remaining, bufLen, final, bufIn, chunksRead>>
vars == <<setup, files, phase, bufNo, bufStart, bufEnd, outVars, inVars>>

Lesser(a, b) == IF a < b THEN a ELSE b
SumOf(s) ==
  LET sum[n \in 0..Len(s)] == IF n = 0 THEN 0 ELSE sum[n - 1] + s[n]
  IN  sum[Len(s)]

\* The buffers encryption writes: the header, then the sealed chunks.
SizeOf(b) == IF b = 1 THEN HeaderSize ELSE payload[b - 1]
NBuffers == Len(payload) + 1
Buffer(b) == [i \in 1..SizeOf(b) |-> [buf |-> b, pos |-> i]]
OldUnit == [buf |-> 0, pos |-> 0]

Init ==
  /\ payload \in Payloads /\ split \in Splits
  /\ \E n \in Earlier : files = [i \in Indices |-> IF i < n THEN <<OldUnit>> ELSE NoFile]
  /\ phase = "create" /\ bufNo = 1 /\ bufStart = 0 /\ bufEnd = 0
  /\ outSplit = split /\ outIndex = 0 /\ outCount = 0 /\ outFile = 0 /\ checksums = {}
  /\ inSplit = <<>> /\ inIndex = 0 /\ inCount = 0 /\ inFile = 0 /\ remaining = 0
  /\ bufLen = 0 /\ final = FALSE /\ bufIn = <<>> /\ chunksRead = <<>>

Fail == phase' = "err"

-----------------------------------------------------------------------------
(* WriteOutput.                                                            *)

\* WriteOutput::new: File::create truncates an existing file.
CreateOutput ==
  /\ phase = "create"
  /\ files' = [files EXCEPT ![0] = <<>>]
  /\ phase' = "write"
  /\ UNCHANGED <<setup, bufNo, bufStart, bufEnd, outVars, inVars>>

\* Mutant: off by one.
SplitFull_Early == outCount + 1 = outSplit[outIndex + 1]

\* The file in hand has reached its size.
SplitFull == outCount = outSplit[outIndex + 1]

\* Mutant: buf_start stays where the first file took over.
Start_Kept == bufStart

\* What is written next starts there.
Start == IF SplitFull THEN bufEnd ELSE bufStart

\* write_files without (or after the end of) a split list.
WriteUnsplit ==
  /\ phase = "write" /\ bufNo <= NBuffers /\ outSplit = <<>> /\ bufEnd = 0
  /\ files' = [files EXCEPT ![outFile] = @ \o Buffer(bufNo)]
  /\ bufNo' = bufNo + 1
  /\ UNCHANGED <<setup, phase, bufStart, bufEnd, outVars, inVars>>

\* An iteration of the loop of write_files.
WriteLoop ==
  /\ phase = "write" /\ bufNo <= NBuffers /\ outSplit # <<>>
  /\ bufEnd < SizeOf(bufNo)
  /\ LET index == IF SplitFull THEN outIndex + 1 ELSE outIndex
         count == IF SplitFull THEN 0 ELSE outCount
         old   == IF SplitFull THEN <<>> ELSE files[outFile]
         end   == IF index < Len(outSplit)
                    THEN Lesser(SizeOf(bufNo), (Start + outSplit[index + 1]) - count)
                    ELSE SizeOf(bufNo)
     IN  /\ index \in Indices
         /\ outIndex' = index /\ outFile' = index
         /\ checksums' = IF SplitFull THEN checksums \cup {outFile} ELSE checksums
         /\ files' = [files EXCEPT ![index] = old \o SubSeq(Buffer(bufNo), Start + 1, end)]
         /\ outCount' = count + (end - Start)
         /\ bufStart' = Start /\ bufEnd' = end
         /\ outSplit' = IF index < Len(outSplit) THEN outSplit ELSE <<>>
  /\ UNCHANGED <<setup, phase, bufNo, inVars>>

\* The buffer is written; the next call starts with its own locals.
WriteDone ==
  /\ phase = "write" /\ bufNo <= NBuffers /\ bufEnd = SizeOf(bufNo)
  /\ bufNo' = bufNo + 1 /\ bufStart' = 0 /\ bufEnd' = 0
  /\ UNCHANGED <<setup, files, phase, outVars, inVars>>

\* Mutant: the last file has no checksum.
FinishOutput_None ==
  /\ phase = "write" /\ bufNo > NBuffers
  /\ phase' = "open"
  /\ UNCHANGED <<setup, files, bufNo, bufStart, bufEnd, outVars, inVars>>

\* write_others: the checksum of the last file.
FinishOutput ==
  /\ phase = "write" /\ bufNo > NBuffers
  /\ checksums' = checksums \cup {outFile}
  /\ phase' = "open"
  /\ UNCHANGED <<setup, files, bufNo, bufStart, bufEnd, outSplit, outIndex, outCount,
                 outFile, inVars>>

\* The disk is full, or a file cannot be created.
WriteError ==
  /\ phase \in {"create", "write"}
  /\ Fail
  /\ UNCHANGED <<setup, files, bufNo, bufStart, bufEnd, outVars, inVars>>

-----------------------------------------------------------------------------
(* ReadInput, in a later run of the program.                               *)

\* The files c00, c01, ... up to the first that does not exist.
SeriesLength ==
  CHOOSE n \in 0..MaxFiles : /\ \A i \in 0..(n - 1) : files[i] # NoFile
                             /\ n = MaxFiles \/ files[n] = NoFile

\* The file has extension c00 exactly if it was written with --split.
SplitList ==
  IF split = <<>> THEN <<>> ELSE [i \in 1..SeriesLength |-> Len(files[i - 1])]

TotalSize == IF split = <<>> THEN Len(files[0]) ELSE SumOf(SplitList)

\* Mutant: a file of the least size is refused.
TooSmall_Least == TotalSize <= HeaderSize + Overhead

TooSmall == TotalSize < HeaderSize + Overhead

\* ReadInput::new, and the buffer for the header.
OpenInput ==
  /\ phase = "open"
  /\ inSplit' = SplitList
  /\ IF TooSmall
       THEN Fail /\ UNCHANGED remaining
       ELSE phase' = "header" /\ remaining' = TotalSize - HeaderSize
  /\ bufLen' = HeaderSize /\ bufNo' = 1 /\ bufEnd' = 0
  /\ UNCHANGED <<setup, files, bufStart, outVars, inIndex, inCount, inFile, final, bufIn,
                 chunksRead>>

\* Mutant: a full chunk is never the final one.
InputSizes_Strict ==
  IF remaining < ChunkSize THEN [size |-> remaining, final |-> TRUE]
                           ELSE [size |-> ChunkSize, final |-> FALSE]

\* input_sizes
InputSizes ==
  IF remaining <= ChunkSize THEN [size |-> remaining, final |-> TRUE]
                            ELSE [size |-> ChunkSize, final |-> FALSE]

\* An iteration of read_files.  On a series, a file that is read to its end is
\* followed by the next; a single file is read at once.
ReadLoop ==
  /\ phase \in {"header", "read"} /\ bufEnd < bufLen
  /\ LET next  == inSplit # <<>> /\ inCount = inSplit[inIndex + 1]
         index == IF next THEN inIndex + 1 ELSE inIndex
         count == IF next THEN 0 ELSE inCount
         left  == IF inSplit = <<>> THEN bufLen - bufEnd ELSE inSplit[index + 1] - count
         n     == Lesser(bufLen - bufEnd, left)
     IN  /\ inIndex' = index /\ inFile' = index
         /\ inCount' = count + n
         /\ bufIn' = bufIn \o SubSeq(files[index], count + 1, count + n)
         /\ bufEnd' = bufEnd + n
  /\ UNCHANGED <<setup, files, phase, bufNo, bufStart, outVars, inSplit, remaining, bufLen,
                 final, chunksRead>>

NextChunk ==
  /\ bufLen' = InputSizes.size /\ final' = InputSizes.final
  /\ remaining' = remaining - InputSizes.size
  /\ bufNo' = bufNo + 1 /\ bufEnd' = 0 /\ bufIn' = <<>>

\* The header is read and found to be the one of this key.
HeaderRead ==
  /\ phase = "header" /\ bufEnd = bufLen
  /\ IF bufIn = Buffer(1) THEN phase' = "read" /\ NextChunk
                          ELSE Fail /\ UNCHANGED <<bufLen, final, remaining, bufNo, bufEnd,
                                                   bufIn>>
  /\ UNCHANGED <<setup, files, bufStart, outVars, inSplit, inIndex, inCount, inFile,
                 chunksRead>>

\* read_chunk returns; io_chunks stops reading after the chunk flagged final.
ChunkRead ==
  /\ phase = "read" /\ bufEnd = bufLen
  /\ chunksRead' = Append(chunksRead, [units |-> bufIn, final |-> final])
  /\ IF final THEN /\ phase' = "ok"
                   /\ UNCHANGED <<bufLen, final, remaining, bufNo, bufEnd, bufIn>>
              ELSE NextChunk /\ UNCHANGED phase
  /\ UNCHANGED <<setup, files, bufStart, outVars, inSplit, inIndex, inCount, inFile>>

Stopped == phase \in {"ok", "err"} /\ UNCHANGED vars

Next ==
  \/ CreateOutput \/ WriteUnsplit \/ WriteLoop \/ WriteDone \/ FinishOutput \/ WriteError
  \/ OpenInput \/ ReadLoop \/ HeaderRead \/ ChunkRead \/ Stopped

Spec == Init /\ [][Next]_vars

FairSpec == Spec /\ WF_vars(Next)

-----------------------------------------------------------------------------
(* Properties.                                                             *)

Written == FlattenSeq([b \in 1..NBuffers |-> Buffer(b)])
Finished == phase \in {"open", "header", "read", "ok"}
NWritten == outFile + 1

\* The files are the output cut into pieces, and none is begun without a need
\* for it: nothing lost, repeated or moved where a buffer goes across files.
SplitLayout ==
  Finished =>
    /\ FlattenSeq([i \in 1..NWritten |-> files[i - 1]]) = Written
    /\ NWritten > 1 => SumOf(SubSeq(split, 1, NWritten - 1)) < Len(Written)

\* Each file but the last has exactly the size that was asked for, the last one
\* not more, unless the list of sizes is used up; also with sizes of zero and
\* with buffers that go across several files.
SplitSizes ==
  Finished =>
    /\ \A i \in 1..(NWritten - 1) : Len(files[i - 1]) = split[i]
    /\ NWritten <= Len(split) => Len(files[NWritten - 1]) <= split[NWritten]
    /\ NWritten <= Len(split) + 1

\* One checksum is printed for each file of this run, and for no other.
ChecksumEachFile == Finished => checksums = 0..(NWritten - 1)

\* The chunks decryption hands to the workers are those encryption wrote, with
\* the final flag on the last one, however the files cut through them.
Sealed(k) == [units |-> Buffer(k + 1), final |-> k = Len(payload)]
ChunksAreThose ==
  \A k \in 1..Len(chunksRead) : k <= Len(payload) /\ chunksRead[k] = Sealed(k)

Leftover == \E i \in Indices : i >= NWritten /\ files[i] # NoFile /\ split # <<>>
RoundTrip == Finished /\ ~Leftover => ChunksAreThose

\* A series without leftovers is always read to its end.
ReadBack ==
  (phase = "open" /\ ~Leftover) ~> (phase = "ok" /\ Len(chunksRead) = Len(payload))

\* The series that is read is the one that was written last, whatever files of
\* the same name an earlier encryption has left.
SeriesIsTheFile == Finished => ChunksAreThose

=============================================================================
