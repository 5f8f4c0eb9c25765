------------------------ MODULE MCEncryptCompressed ------------------------
(* Compressed encryption of files of one to three chunks that are          *)
(* compressed to one or two units each.                                    *)
EXTENDS EncryptPipeInvariant

MCSources ==
  UNION {{[i \in 1..n |-> Chunk(i, size[i])] : size \in [1..n -> 1..2]} : n \in 1..3}
MCInSide == Compressors
MCOutSide == Encryptors
=============================================================================
