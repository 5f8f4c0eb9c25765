--------------------------- MODULE MCArchiveRead ---------------------------
(* Trees of up to four entries on one file system: files without data, of  *)
(* one and of two pieces, sparse files, hard links, a directory.           *)
EXTENDS ArchiveRead

P == INSTANCE Paths

Home == <<P!Root, <<<<"home">>>>>>
Top  == P!Join(Home, <<<<"foo">>>>)
In(dir, part) == P!Join(dir, <<<<"foo">>, part>>)
FooC00 == In(Top, P!C00)
FooCce == In(Top, P!Cce)

\* By default, a file is named by the number of its path.
At(path) == P!Join(Top, <<<<P!DigitOf(path)>>>>)

Entry(path, kind, size, segs, inode, links) ==
  [path |-> path, at |-> At(path), kind |-> kind, size |-> size, segs |-> segs,
   inode |-> inode, device |-> 1, links |-> links, target |-> NoPath]

Dir(path)            == Entry(path, "dir", 0, <<>>, path, 1)
File(path, size)     == Entry(path, "file", size, IF size = 0 THEN <<>> ELSE <<DataSeg(size)>>, path, 1)
Plain(path, size)    == Entry(path, "file", size, <<>>, path, 1)
Sparse(path, segs)   == Entry(path, "file", SumOf([i \in 1..Len(segs) |-> segs[i].len]), segs, path, 1)
Link(path, size, id) == Entry(path, "file", size, <<>>, id, 2)
Named(e, at)         == [e EXCEPT !.at = at]

\* Names that are similar to those of the output, and the output itself.
MCTrees ==
  { <<Dir(1), File(2, 3), Named(File(3, 2), In(Home, P!SplitPart(1)))>>,
    <<Dir(1), Named(File(2, 0), FooCce), Named(Plain(3, 3), In(Top, <<"txt">>))>>,
    <<Sparse(1, <<HoleSeg(1), DataSeg(3)>>), Sparse(2, <<DataSeg(1), HoleSeg(2)>>)>>,
    <<Link(1, 1, 1), Named(File(2, 1), FooC00), Link(3, 1, 1), Link(4, 1, 1),
      Named(File(5, 1), In(Top, P!SplitPart(1)))>>,
    <<Named(File(1, 1), FooCce), Named(File(2, 1), FooC00)>> }
MCExcludePath == [t \in MCTrees |-> IF t[1].at = FooCce THEN FooCce ELSE FooC00]

\* A second file system is mounted in the tree; inode 7 is in use on both.
MCMounted == { <<Link(1, 1, 7), [Link(2, 1, 7) EXCEPT !.device = 2]>> }
MCMountedPath == [t \in MCMounted |-> FooC00]

\* A directory foo with a C program of the same name.
MCSources == { <<Dir(1), Named(File(2, 1), In(Top, <<"c">>))>> }
MCSourcesPath == [t \in MCSources |-> FooC00]

\* No file of these trees grew between the two looks at it.
ASSUME SegmentsFit
=============================================================================
