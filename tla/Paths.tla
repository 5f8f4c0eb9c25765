------------------------------- MODULE Paths -------------------------------
(***************************************************************************)
(* Paths, as far as the program computes with them: the name of the output *)
(* (set_paths, decrypt), the names of a split series (WriteOutput), and    *)
(* the test for the program's own output in the tree that is archived      *)
(* (exclude_file).                                                         *)
(*                                                                         *)
(* An absolute path is a sequence of components, of which the first is     *)
(* Root and the others are names.  A name is the sequence of its parts     *)
(* between dots: foo.tar is <<Foo, Tar>>, .profile is <<"", Profile>>.  A  *)
(* part is a sequence of symbols; only the parts that have to be taken     *)
(* apart, like c07, have more than one.                                    *)
(***************************************************************************)
EXTENDS Naturals, SequencesExt

Root == <<"/">>
IsPath(p) == p # <<>> /\ p[1] = Root

Cce == <<"cce">>                    \* ENCRYPTED_FILE_EXT
Digit == <<"0", "1", "2", "3", "4", "5", "6", "7", "8", "9">>
Digits == {Digit[i] : i \in 1..10}
DigitOf(n) == Digit[(n % 10) + 1]

\* format!("c{:02}", n).
Decimal[n \in Nat] ==
  IF n < 10 THEN <<DigitOf(n)>> ELSE Append(Decimal[n \div 10], DigitOf(n))
SplitPart(n) == <<"c">> \o (IF n < 10 THEN <<"0">> ELSE <<>>) \o Decimal[n]
C00 == SplitPart(0)                 \* SPLIT_ENC_FILE_EXT

-----------------------------------------------------------------------------
(* std::path.                                                              *)

HasName(p) == Len(p) > 1
FileName(p) == Last(p)
HasParent(p) == Len(p) > 1
Parent(p) == Front(p)
Join(dir, name) == Append(dir, name)

\* A name that only begins with a dot has no extension.
HasExt(name) == Len(name) > 1 /\ ~(Len(name) = 2 /\ name[1] = <<>>)
Ext(name) == Last(name)
Stem(name) == IF HasExt(name) THEN Front(name) ELSE name
AddExt(name, ext) == Append(name, ext)
WithExt(p, ext) == Join(Parent(p), AddExt(Stem(FileName(p)), ext))

\* exclude_path.ends_with(entry_path)
EndsWith(p, q) == Len(q) <= Len(p) /\ SubSeq(p, Len(p) - Len(q) + 1, Len(p)) = q

-----------------------------------------------------------------------------
(* The program.                                                            *)

\* set_paths: the name of the output.  The root directory has no name to extend.
OutName(in, isDir, noSplit) ==
  LET name == IF isDir /\ ~HasName(in) THEN <<<<"archive">>>> ELSE FileName(in)
  IN  AddExt(name, IF noSplit THEN Cce ELSE C00)

\* WriteOutput: file i of a series.
SeriesPath(out, i) == IF i = 0 THEN out ELSE WithExt(out, SplitPart(i))

\* decrypt: what may be decrypted, and the name without the extension.
Decryptable(name) == HasExt(name) /\ Ext(name) \in {Cce, C00}

\* Mutant: the extension is kept.
DecryptedName_Kept(name) == name
DecryptedName(name) == Stem(name)

IsSplitPart(part) ==
  /\ part # <<>> /\ part[1] = "c"
  /\ \A i \in 2..Len(part) : part[i] \in Digits

\* Mutant: only the first file of a series is left out.
ExcludeFile_First(entry, exclude) == entry = exclude

\* exclude_file.  Both paths are absolute, so the first case is equality.
ExcludeFile(entry, exclude) ==
  \/ Ext(FileName(exclude)) = Cce /\ EndsWith(exclude, entry)
  \/ /\ Ext(FileName(exclude)) = C00
     /\ Parent(entry) = Parent(exclude)
     /\ Stem(FileName(entry)) = Stem(FileName(exclude))
     /\ HasExt(FileName(entry)) /\ IsSplitPart(Ext(FileName(entry)))
=============================================================================
