------------------------------ MODULE Framing ------------------------------
(***************************************************************************)
(* The byte stream between compression and encryption: each compressed     *)
(* chunk preceded by its length, cut into segments of CHUNK_SIZE whatever  *)
(* the borders of the compressed chunks.                                   *)
(*                                                                         *)
(* Bytes are units.  A unit is the record of the chunk it belongs to, its  *)
(* place in the frame and the compressed size of that chunk; the first     *)
(* LenSize units of a frame are the length field, in which this size can   *)
(* be read.                                                                *)
(***************************************************************************)
EXTENDS Naturals, SequencesExt

CONSTANTS
  SegSize,      \* CHUNK_SIZE, in units
  LenSize       \* COMPRESS_LENGTH_SIZE, in units

ASSUME FramingAssumption == SegSize \in Nat \ {0} /\ LenSize \in Nat \ {0}

\* A chunk is its identity and the size it is compressed to.
Chunk(id, size) == [id |-> id, size |-> size]

\* compress_buffer: only the identity and the size of the result matter.
Compress(c) == [j \in 1..c.size |-> [chunk |-> c.id, pos |-> LenSize + j, size |-> c.size]]

LengthField(c) == [j \in 1..LenSize |-> [chunk |-> c.id, pos |-> j, size |-> c.size]]

Frame(c) == LengthField(c) \o Compress(c)

Whole(chunks) == FlattenSeq([i \in 1..Len(chunks) |-> Frame(chunks[i])])

Least(a, b) == IF a < b THEN a ELSE b

\* The stream cut into segments of SegSize; the last one may be shorter.
Segments(units) ==
  [i \in 1..((Len(units) + SegSize - 1) \div SegSize) |->
     SubSeq(units, (i - 1) * SegSize + 1, Least(i * SegSize, Len(units)))]
=============================================================================
