--------------------------- MODULE MCArchiveWrite ---------------------------
(* Archives of up to four entries in every order: sparse files with holes  *)
(* at the start, in the middle and at the end, empty files, nested         *)
(* directories, hard links before their target, symbolic links; an empty   *)
(* output directory, one with a directory, one with a file or a directory  *)
(* in the way of a file, and one with a file in the way of a directory.    *)
EXTENDS ArchiveWrite

Entry(path, kind, size, segs, target) ==
  [path |-> path, kind |-> kind, size |-> size, segs |-> segs, target |-> target,
   writable |-> TRUE]

Dir(path)            == Entry(path, "dir", 0, <<>>, NoPath)
File(path, size)     == Entry(path, "file", size, <<DataSeg(size)>>, NoPath)
Empty(path)          == Entry(path, "file", 0, <<>>, NoPath)
Sparse(path, segs)   == Entry(path, "file", SumOf([i \in 1..Len(segs) |-> segs[i].len]), segs, NoPath)
Link(path, target)   == Entry(path, "hardlink", 0, <<>>, target)
Symlink(path, to)    == Entry(path, "symlink", 0, <<>>, to)
ReadOnly(e)          == [e EXCEPT !.writable = FALSE]

D == <<"d">>
E == <<"d", "e">>
F == <<"d", "f">>
G == <<"d", "e", "g">>
L == <<"l">>

Sets ==
  { {Dir(D), Sparse(F, <<DataSeg(1), HoleSeg(1), DataSeg(2)>>), Link(L, F)},
    {Dir(D), Dir(E), ReadOnly(Empty(G)), Symlink(F, L)},
    {Sparse(F, <<HoleSeg(2), DataSeg(1)>>), Sparse(L, <<DataSeg(2), HoleSeg(1)>>)},
    {File(F, 3), Sparse(L, <<HoleSeg(1)>>)},
    {Link(L, F), Dir(D)} }

Orders(set) == {s \in [1..Cardinality(set) -> set] : Range(s) = set}
MCArchives == UNION {Orders(set) : set \in Sets}

OldByte == [of |-> NoPath, part |-> "old", at |-> 0]
Old == [kind |-> "file", content |-> <<OldByte>>, target |-> NoPath, writable |-> TRUE,
        time |-> "old"]
Nothing == [p \in {} |-> Old]
MCBefores == { Nothing,
               [p \in {D} |-> NewDir],
               [p \in {D, F} |-> IF p = D THEN NewDir ELSE Old],
               [p \in {D, F} |-> NewDir],
               [p \in {L} |-> Old],
               [p \in {D} |-> Old] }
MCNoTimes == {E, G}
MCLists == BOOLEAN

\* The instance satisfies what the theorems suppose of it.
ASSUME TruthfulArchives
=============================================================================
