------------------------ MODULE MCDecryptCompressed ------------------------
(* Compressed decryption: files of two to four chunks, intact, or with a   *)
(* segment missing, moved or repeated, or with chunks that were damaged    *)
(* between compression and encryption.                                     *)
EXTENDS DecryptPipeInvariant

Files == {[i \in 1..n |-> Chunk(i, size[i])] : n \in {2}, size \in [1..2 -> 1..2]}
         \cup {<<Chunk(1, 2), Chunk(2, 1), Chunk(3, 1)>>}

SealAll(segs) == [i \in 1..Len(segs) |-> Seal(segs[i], i - 1, i = Len(segs))]
SealedFiles == {SealAll(Segments(Whole(f))) : f \in Files}

Cut(s)     == SubSeq(s, 1, Len(s) - 1)
Swapped(s) == <<s[2], s[1]>> \o SubSeq(s, 3, Len(s))
Longer(s)  == Append(s, s[Len(s)])

\* The first unit of the compressed content is damaged in some chunks of a file.
Damage(f, chunks) ==
  LET content(i) == Len(Whole(SubSeq(f, 1, i - 1))) + LenSize + 1
      units == [j \in 1..Len(Whole(f)) |->
                 IF \E i \in chunks : j = content(i) THEN [Whole(f)[j] EXCEPT !.chunk = NoChunk]
                                                     ELSE Whole(f)[j]]
  IN  SealAll(Segments(units))

\* With two of them, both decompressors fail before the others can be sent.
DamagedFiles ==
  { Damage(<<Chunk(1, 1), Chunk(2, 2)>>, {2}),
    Damage(<<Chunk(1, 2), Chunk(2, 2), Chunk(3, 1), Chunk(4, 1)>>, {1, 2}) }

MCSources == SealedFiles \cup {Cut(s) : s \in SealedFiles}
               \cup {Swapped(s) : s \in SealedFiles} \cup {Longer(s) : s \in SealedFiles}
               \cup DamagedFiles
MCInSide == Decryptors
MCOutSide == Decompressors
=============================================================================
