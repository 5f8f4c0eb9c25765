---------------------------- MODULE MCSplitFiles ----------------------------
(* Files of one to three chunks; full, short and minimal last chunks;      *)
(* series of up to three sizes, sizes of 0 among them; leftovers of series *)
(* of up to four files.                                                    *)
EXTENDS SplitFiles

MCPayloads ==
  UNION {{[i \in 1..n |-> IF i < n THEN ChunkSize ELSE last] : last \in Overhead..ChunkSize}
         : n \in 1..3}
MCSplits == UNION {[1..n -> {0, 1, 2, 4, 5}] : n \in 0..3}
MCEarlier == {0, 1, 2, 4}
=============================================================================
