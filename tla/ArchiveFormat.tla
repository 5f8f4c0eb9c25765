--------------------------- MODULE ArchiveFormat ---------------------------
(***************************************************************************)
(* The archive stream (archive.rs): one header per entry of the directory  *)
(* tree, preceded by its length, and followed by the data of a regular     *)
(* file; holes of a sparse file are described in the header and have no    *)
(* data.                                                                   *)
(*                                                                         *)
(* Bytes are units.  A unit tells the entry it belongs to and its place: 0 *)
(* for the length field, 1..HeaderLen for the header, "data" for a byte of *)
(* the file.                                                               *)
(***************************************************************************)
EXTENDS Naturals, SequencesExt, FiniteSetsExt

CONSTANTS
  HeaderLen,    \* length of a header, in units
  PieceLen      \* CHUNK_SIZE, in units: what a worker reads at once

ASSUME FormatAssumption == HeaderLen \in Nat \ {0} /\ PieceLen \in Nat \ {0}

Lesser(a, b) == IF a < b THEN a ELSE b
SumOf(s) == FoldLeft(LAMBDA a, b : a + b, 0, s)

(***************************************************************************)
(* An entry is what the walk and the metadata say of it: its path, its     *)
(* kind, "file", "dir", "symlink" or "hardlink", the target of a hard link *)
(* (a path, or NoPath), its size and its permission to write.  segs are    *)
(* the data and hole segments scan_chunks found; it is called after the    *)
(* size was taken, and opens the file again.                               *)
(***************************************************************************)
DataSeg(n) == [hole |-> FALSE, len |-> n]
HoleSeg(n) == [hole |-> TRUE, len |-> n]

HeaderUnits(e) == [j \in 1..(HeaderLen + 1) |-> [of |-> e, part |-> "header", at |-> j - 1]]
Byte(e, offset) == [of |-> e, part |-> "data", at |-> offset]

\* The first byte of segment i, and its range [start, end) as in Segment.range.
SegStart(segs, i) ==
  LET end[n \in 0..Len(segs)] == IF n = 0 THEN 0 ELSE end[n - 1] + segs[n].len
  IN  end[i - 1]
SegEnd(segs, i) == SegStart(segs, i + 1)

\* The holes in the header: their ranges, in order.
HoleAt(segs, i) ==
  IF segs[i].hole THEN <<[from |-> SegStart(segs, i), to |-> SegEnd(segs, i)]>> ELSE <<>>
Holes(segs) == FlattenSeq([i \in 1..Len(segs) |-> HoleAt(segs, i)])

(***************************************************************************)
(* What a worker sends for an entry: messages of units with last_chunk.    *)
(* read_data reads at most PieceLen at once.                               *)
(***************************************************************************)
Message(units, last) == [units |-> units, last |-> last]

Pieces(e, from, len, last) ==
  LET n == (len + PieceLen - 1) \div PieceLen
  IN  [i \in 1..n |->
         LET read == (i - 1) * PieceLen
         IN  Message([j \in 1..Lesser(PieceLen, len - read) |-> Byte(e, from + (read + j - 1))],
                     last /\ i = n)]

\* Mutant: the zeros of a hole are sent, too.
SegmentMessages_Holes(e, i) ==
  Pieces(e, SegStart(e.segs, i), e.segs[i].len, i = Len(e.segs))

SegmentMessages(e, i) ==
  LET final == i = Len(e.segs)
  IN  IF e.segs[i].hole
        THEN IF final THEN <<Message(<<>>, TRUE)>> ELSE <<>>
        ELSE Pieces(e, SegStart(e.segs, i), e.segs[i].len, final)

DataMessages(e) ==
  IF e.segs = <<>> THEN Pieces(e, 0, e.size, TRUE)
                   ELSE FlattenSeq([i \in 1..Len(e.segs) |-> SegmentMessages(e, i)])

Messages(e) ==
  IF e.kind = "file"
    THEN <<Message(HeaderUnits(e), e.size = 0)>> \o DataMessages(e)
    ELSE <<Message(HeaderUnits(e), TRUE)>>

Units(e) == FlattenSeq([i \in 1..Len(Messages(e)) |-> Messages(e)[i].units])
=============================================================================
