-------------------------- MODULE SplitFilesProofs --------------------------
(***************************************************************************)
(* A split series, for all chunks and all lists of sizes: the files have   *)
(* the sizes asked for and a checksum each, put together they are the      *)
(* output, and what is read back from them is what was written.            *)
(***************************************************************************)
EXTENDS SplitFiles, SequenceFacts

Units == [buf : Nat, pos : Nat]

\* The list of sizes is not used up yet.
Sized == outIndex < Len(split)

\* The files of this run: full, but for the one in hand.
FilesOfRun ==
  /\ outFile = outIndex /\ outIndex \in Indices /\ outIndex <= Len(split)
  /\ \A i \in 0..outIndex : files[i] \in Seq(Units)
  /\ \A i \in 0..(outIndex - 1) : Len(files[i]) = split[i + 1]
  /\ Sized => Len(files[outIndex]) <= split[outIndex + 1]

\* The counters of write_files.  When its loop goes on, it has either not begun
\* or just filled a file: that buf_start is moved only then does no harm.
Counters ==
  /\ outSplit = IF Sized THEN split ELSE <<>>
  /\ checksums = 0..(outIndex - 1)
  /\ bufNo \in 1..(NBuffers + 1)
  /\ Sized => outCount = Len(files[outIndex])
  /\ Sized /\ bufNo <= NBuffers =>
       /\ bufEnd \in 0..SizeOf(bufNo)
       /\ bufStart = bufEnd \/ bufEnd = SizeOf(bufNo) \/ outCount = split[outIndex + 1]
  /\ Sized /\ bufNo > NBuffers => bufStart = 0 /\ bufEnd = 0

Begin ==
  /\ outSplit = split /\ outIndex = 0 /\ outCount = 0 /\ outFile = 0 /\ checksums = {}
  /\ bufNo = 1 /\ bufStart = 0 /\ bufEnd = 0

SplitInv ==
  /\ payload \in Payloads /\ split \in Splits /\ DOMAIN files = Indices
  /\ phase = "create" => Begin
  /\ phase = "write" \/ Finished => FilesOfRun
  /\ phase = "write" => Counters
  /\ Finished => checksums = 0..outIndex

-----------------------------------------------------------------------------
LEMMA InputFacts ==
  ASSUME payload \in Payloads, split \in Splits
  PROVE  /\ NBuffers \in Nat /\ NBuffers >= 1
         /\ split \in Seq(Nat) /\ Len(split) \in Nat
         /\ \A i \in 1..Len(split) : split[i] \in Nat
         /\ \A b \in 1..NBuffers : /\ SizeOf(b) \in Nat /\ Buffer(b) \in Seq(Units)
                                   /\ Len(Buffer(b)) = SizeOf(b)
  <1>1. payload \in Seq(Nat) /\ split \in Seq(Nat)
    BY SplitAssumption
  <1>2. NBuffers \in Nat /\ NBuffers >= 1
    BY <1>1 DEF NBuffers
  <1>3. ASSUME NEW b \in 1..NBuffers
        PROVE  SizeOf(b) \in Nat
    <2>1. CASE b = 1
      BY <2>1, SplitAssumption DEF SizeOf
    <2>2. CASE b # 1
      <3>1. b - 1 \in 1..Len(payload)
        BY <1>1, <2>2 DEF NBuffers
      <3>2. payload[b - 1] \in Nat
        BY <1>1, <3>1
      <3> QED BY <2>2, <3>2 DEF SizeOf
    <2> QED BY <2>1, <2>2
  <1>4. ASSUME NEW b \in 1..NBuffers
        PROVE  Buffer(b) \in Seq(Units) /\ Len(Buffer(b)) = SizeOf(b)
    <2>1. SizeOf(b) \in Nat
      BY <1>3
    <2>2. \A i \in 1..SizeOf(b) : [buf |-> b, pos |-> i] \in Units
      BY DEF Units
    <2> QED BY <2>1, <2>2 DEF Buffer
  <1>5. Len(split) \in Nat /\ \A i \in 1..Len(split) : split[i] \in Nat
    BY <1>1
  <1> QED BY <1>1, <1>2, <1>3, <1>4, <1>5

LEMMA LesserFacts ==
  ASSUME NEW a \in Nat, NEW b \in Nat
  PROVE  \/ Lesser(a, b) = a /\ a < b
         \/ Lesser(a, b) = b /\ b <= a
  <1>1. CASE a < b
    BY <1>1 DEF Lesser
  <1>2. CASE ~(a < b)
    BY <1>2 DEF Lesser
  <1> QED BY <1>1, <1>2

LEMMA AppendedFacts ==
  ASSUME NEW S, NEW a \in Seq(S), NEW b \in Seq(S)
  PROVE  a \o b \in Seq(S) /\ Len(a \o b) = Len(a) + Len(b)
  BY ConcatProperties

LEMMA InitSplit == Init => SplitInv
  BY DEF Init, SplitInv, Begin, Finished

\* Creating the first file.
LEMMA CreateStep ==
  ASSUME SplitInv, CreateOutput
  PROVE  SplitInv'
  <1>1. /\ Begin /\ UNCHANGED <<setup, bufNo, bufStart, bufEnd, outVars>>
        /\ phase' = "write" /\ files' = [files EXCEPT ![0] = <<>>]
    BY DEF SplitInv, CreateOutput
  <1>2. /\ payload' = payload /\ split' = split /\ payload \in Payloads /\ split \in Splits
        /\ DOMAIN files = Indices /\ 0 \in Indices
    BY <1>1, SplitAssumption DEF SplitInv, setup, Indices
  <1>3. files'[0] = <<>> /\ DOMAIN files' = Indices
    BY <1>1, <1>2
  <1>4. /\ outFile' = 0 /\ outIndex' = 0 /\ outCount' = 0 /\ outSplit' = split /\ checksums' = {}
        /\ bufNo' = 1 /\ bufStart' = 0 /\ bufEnd' = 0
    BY <1>1 DEF outVars, Begin
  <1>5. FilesOfRun'
    <2>1. \A i \in 0..outIndex' : i = 0
      BY <1>4
    <2>2. <<>> \in Seq(Units) /\ Len(<<>>) = 0
      OBVIOUS
    <2>3. Len(split) \in Nat /\ (0 < Len(split) => split[0 + 1] \in Nat)
      BY <1>2, InputFacts
    <2>4. \A i \in 0..outIndex' : files'[i] \in Seq(Units)
      BY <1>3, <2>1, <2>2
    <2>5. \A i \in 0..(outIndex' - 1) : Len(files'[i]) = split'[i + 1]
      BY <1>4
    <2>6. Sized' => Len(files'[outIndex']) <= split'[outIndex' + 1]
      BY <1>2, <1>3, <1>4, <2>2, <2>3 DEF Sized
    <2> QED BY <1>2, <1>4, <2>3, <2>4, <2>5, <2>6 DEF FilesOfRun
  <1>6. Counters'
    <2>1. split = <<>> \/ Len(split) > 0
      BY <1>2, InputFacts
    <2>2. NBuffers' = NBuffers /\ SizeOf(1)' = SizeOf(1)
      BY <1>2 DEF NBuffers, SizeOf
    <2>3. 1 \in 1..(NBuffers + 1) /\ 1 <= NBuffers /\ SizeOf(1) \in Nat
      BY <1>2, InputFacts
    <2> QED BY <1>2, <1>3, <1>4, <2>1, <2>2, <2>3, InputFacts DEF Counters, Sized
  <1> QED BY <1>1, <1>2, <1>3, <1>5, <1>6 DEF SplitInv, Finished

\* What an iteration of write_files over a list of sizes does: it goes on with
\* the buffer where it was, in the same file or, when that one is full, in the
\* next.
Piece == SubSeq(Buffer(bufNo), bufEnd + 1, bufEnd')

LEMMA LoopFacts ==
  ASSUME SplitInv, WriteLoop
  PROVE  /\ phase = "write" /\ UNCHANGED <<payload, split, phase, bufNo>>
         /\ FilesOfRun /\ Counters /\ Sized /\ outFile = outIndex /\ outIndex \in Nat
         /\ bufNo \in 1..NBuffers /\ SizeOf(bufNo) \in Nat
         /\ bufEnd \in Nat /\ bufEnd' \in Nat /\ bufEnd < SizeOf(bufNo)
         /\ bufEnd <= bufEnd' /\ bufEnd' <= SizeOf(bufNo)
         /\ outFile' = outIndex' /\ outIndex' \in Indices /\ outIndex' <= Len(split)
         /\ DOMAIN files' = Indices /\ files'[outIndex'] \in Seq(Units)
         /\ \A i \in Indices : i # outIndex' => files'[i] = files[i]
         /\ \/ /\ outIndex' = outIndex /\ checksums' = checksums
               /\ files'[outIndex'] = files[outIndex] \o Piece
            \/ /\ outIndex' = outIndex + 1 /\ checksums' = checksums \cup {outIndex}
               /\ Len(files[outIndex]) = split[outIndex + 1]
               /\ files'[outIndex'] = Piece
         /\ outSplit' = IF outIndex' < Len(split) THEN split ELSE <<>>
         /\ outIndex' < Len(split) =>
              /\ outCount' = Len(files'[outIndex']) /\ outCount' <= split[outIndex' + 1]
              /\ bufEnd' = SizeOf(bufNo) \/ outCount' = split[outIndex' + 1]
  <1> DEFINE size  == SizeOf(bufNo)
             index == IF SplitFull THEN outIndex + 1 ELSE outIndex
             count == IF SplitFull THEN 0 ELSE outCount
             old   == IF SplitFull THEN <<>> ELSE files[outFile]
             end   == IF index < Len(outSplit)
                        THEN Lesser(size, (Start + outSplit[index + 1]) - count)
                        ELSE size
             piece == SubSeq(Buffer(bufNo), Start + 1, end)
  <1>1. /\ phase = "write" /\ bufNo <= NBuffers /\ outSplit # <<>> /\ bufEnd < size
        /\ index \in Indices /\ outIndex' = index /\ outFile' = index
        /\ checksums' = IF SplitFull THEN checksums \cup {outFile} ELSE checksums
        /\ files' = [files EXCEPT ![index] = old \o piece]
        /\ outCount' = count + (end - Start) /\ bufEnd' = end
        /\ outSplit' = IF index < Len(outSplit) THEN outSplit ELSE <<>>
        /\ UNCHANGED <<setup, phase, bufNo>>
    BY DEF WriteLoop
  <1>2. /\ payload' = payload /\ split' = split /\ payload \in Payloads /\ split \in Splits
        /\ DOMAIN files = Indices /\ FilesOfRun /\ Counters
    BY <1>1 DEF SplitInv, setup
  <1>3. /\ Sized /\ outSplit = split /\ bufEnd \in Nat /\ outIndex \in Nat
        /\ split[outIndex + 1] \in Nat /\ size \in Nat /\ bufNo \in 1..NBuffers
        /\ outCount = Len(files[outIndex]) /\ outCount \in Nat
        /\ outCount <= split[outIndex + 1] /\ files[outIndex] \in Seq(Units)
        /\ outFile = outIndex
    <2>1. Sized /\ outSplit = split
      BY <1>1, <1>2 DEF Counters
    <2>2. outIndex \in Nat /\ outIndex + 1 \in 1..Len(split) /\ outIndex \in 0..outIndex
      BY <1>2, <2>1, InputFacts DEF FilesOfRun, Indices, Sized
    <2>3. bufNo \in 1..NBuffers
      BY <1>1, <1>2, InputFacts DEF Counters
    <2>4. bufEnd \in 0..size
      BY <1>1, <1>2, <2>1 DEF Counters
    <2>5. size \in Nat
      BY <1>2, <2>3, InputFacts
    <2>6. split[outIndex + 1] \in Nat
      BY <1>2, <2>2, InputFacts
    <2>7. files[outIndex] \in Seq(Units)
      BY <1>2, <2>2 DEF FilesOfRun
    <2>8. Len(files[outIndex]) \in Nat
      BY <2>7
    <2> QED BY <1>2, <2>1, <2>2, <2>3, <2>4, <2>5, <2>6, <2>7, <2>8 DEF FilesOfRun, Counters
  <1>4. Start = bufEnd
    BY <1>1, <1>2, <1>3 DEF Counters, Start, SplitFull
  <1>5. /\ count \in Nat /\ old \in Seq(Units) /\ Len(old) = count /\ index \in Nat
        /\ index <= Len(split)
        /\ index < Len(split) => split[index + 1] \in Nat /\ count <= split[index + 1]
    <2>1. CASE SplitFull
      <3>1. index = outIndex + 1 /\ count = 0 /\ old = <<>>
        BY <2>1
      <3>2. index \in Nat /\ index <= Len(split)
        BY <1>2, <1>3, <3>1, InputFacts DEF Sized
      <3>3. index < Len(split) => split[index + 1] \in Nat
        BY <1>2, <3>2, InputFacts
      <3>4. <<>> \in Seq(Units) /\ Len(<<>>) = 0
        OBVIOUS
      <3> HIDE DEF index, count, old
      <3> QED BY <3>1, <3>2, <3>3, <3>4
    <2>2. CASE ~SplitFull
      BY <1>2, <1>3, <2>2, InputFacts DEF Sized
    <2> QED BY <2>1, <2>2
  <1> HIDE DEF index, count, old, size
  <1>6. /\ end \in Nat /\ bufEnd <= end /\ end <= size
        /\ index < Len(split) => \/ end = size /\ count + (end - bufEnd) <= split[index + 1]
                                 \/ count + (end - bufEnd) = split[index + 1]
    <2>1. CASE index < Len(split)
      <3> DEFINE limit == (bufEnd + split[index + 1]) - count
      <3>1. limit \in Nat /\ bufEnd <= limit /\ count + (limit - bufEnd) = split[index + 1]
        <4>1. /\ bufEnd \in Nat /\ count \in Nat /\ split[index + 1] \in Nat
              /\ count <= split[index + 1]
          BY <1>3, <1>5, <2>1
        <4> QED BY <4>1
      <3>2. end = Lesser(size, limit)
        BY <1>3, <1>4, <2>1
      <3> HIDE DEF limit, end
      <3>3. CASE size < limit
        BY <1>1, <1>3, <1>5, <2>1, <3>1, <3>2, <3>3 DEF Lesser
      <3>4. CASE ~(size < limit)
        BY <1>1, <1>3, <1>5, <2>1, <3>1, <3>2, <3>4 DEF Lesser
      <3> QED BY <3>3, <3>4
    <2>2. CASE ~(index < Len(split))
      BY <1>1, <1>3, <2>2
    <2> QED BY <2>1, <2>2
  <1> HIDE DEF end
  <1>7. piece \in Seq(Units) /\ Len(piece) = end - bufEnd
    <2>1. Buffer(bufNo) \in Seq(Units) /\ Len(Buffer(bufNo)) = size
      BY <1>2, <1>3, InputFacts DEF size
    <2>2. piece = SubSeq(Buffer(bufNo), bufEnd + 1, end)
      BY <1>4
    <2> HIDE DEF piece
    <2> QED BY <1>3, <1>6, <2>1, <2>2, PieceFacts
  <1> HIDE DEF piece
  <1>8. /\ files'[index] \in Seq(Units) /\ Len(files'[index]) = count + (end - bufEnd)
        /\ DOMAIN files' = Indices
        /\ \A i \in Indices : i # index => files'[i] = files[i]
    BY <1>1, <1>2, <1>5, <1>7, AppendedFacts
  <1>9. \/ index = outIndex /\ checksums' = checksums
        \/ /\ index = outIndex + 1 /\ outCount = split[outIndex + 1]
           /\ checksums' = checksums \cup {outIndex}
    BY <1>1, <1>3 DEF index, SplitFull
  <1>10. piece = Piece /\ bufEnd' = end
    BY <1>1, <1>4 DEF piece, Piece
  <1>11. \/ index = outIndex /\ files'[index] = files[outIndex] \o piece
         \/ /\ index = outIndex + 1 /\ Len(files[outIndex]) = split[outIndex + 1]
            /\ files'[index] = piece
    <2>1. files'[index] = old \o piece
      BY <1>1, <1>2
    <2>2. CASE SplitFull
      <3>1. old = <<>> /\ index = outIndex + 1
        BY <2>2 DEF old, index
      <3> QED BY <1>3, <1>7, <2>1, <2>2, <3>1, ConcatEmptySeq DEF SplitFull
    <2>3. CASE ~SplitFull
      BY <1>3, <2>1, <2>3 DEF old, index
    <2> QED BY <2>2, <2>3
  <1>12. index < Len(split) =>
           /\ outCount' = Len(files'[index]) /\ outCount' <= split[index + 1]
           /\ end = size \/ outCount' = split[index + 1]
    BY <1>1, <1>3, <1>4, <1>5, <1>6, <1>8
  <1>13. outSplit' = IF index < Len(split) THEN split ELSE <<>>
    BY <1>1, <1>3
  <1>14. /\ \/ /\ outIndex' = outIndex /\ checksums' = checksums
               /\ files'[outIndex'] = files[outIndex] \o Piece
            \/ /\ outIndex' = outIndex + 1 /\ checksums' = checksums \cup {outIndex}
               /\ Len(files[outIndex]) = split[outIndex + 1]
               /\ files'[outIndex'] = Piece
    <2>1. outIndex \in Nat /\ outIndex' = index /\ piece = Piece
      BY <1>1, <1>3, <1>10
    <2>2. CASE index = outIndex
      <3>1. checksums' = checksums /\ files'[index] = files[outIndex] \o piece
        BY <1>9, <1>11, <2>1, <2>2
      <3> QED BY <2>1, <2>2, <3>1, Zenon
    <2>3. CASE index = outIndex + 1
      <3>1. /\ checksums' = checksums \cup {outIndex} /\ files'[index] = piece
            /\ Len(files[outIndex]) = split[outIndex + 1]
        BY <1>9, <1>11, <2>1, <2>3
      <3> QED BY <2>1, <2>3, <3>1, Zenon
    <2> QED BY <1>9, <2>2, <2>3
  <1> QED BY <1>1, <1>2, <1>3, <1>5, <1>6, <1>8, <1>10, <1>12, <1>13, <1>14 DEF size

\* An iteration of write_files keeps the sizes and the counters.
LEMMA LoopStep ==
  ASSUME SplitInv, WriteLoop
  PROVE  SplitInv'
  <1> DEFINE index == outIndex'
  <1>1. /\ payload \in Payloads /\ split \in Splits /\ DOMAIN files = Indices
        /\ FilesOfRun /\ Counters /\ outIndex \in Nat /\ index \in Nat
    BY LoopFacts DEF SplitInv, Indices
  <1>2. \/ index = outIndex /\ checksums' = checksums
        \/ /\ index = outIndex + 1 /\ Len(files[outIndex]) = split[outIndex + 1]
           /\ checksums' = checksums \cup {outIndex}
    BY LoopFacts
  <1>3. /\ \A i \in 0..index : i = index \/ (i \in 0..outIndex /\ i \in Indices)
        /\ \A i \in 0..(index - 1) : i # index /\ (i \in 0..(outIndex - 1) \/ i = outIndex)
    <2>1. \A i \in 0..outIndex : i \in Indices
      BY <1>1, SplitAssumption DEF FilesOfRun, Indices
    <2>2. outIndex \in Nat /\ (index = outIndex \/ index = outIndex + 1)
      BY <1>1, <1>2
    <2>3. \A i \in 0..index : i = index \/ i \in 0..outIndex
      BY <2>2
    <2>4. \A i \in 0..(index - 1) : i # index /\ (i \in 0..(outIndex - 1) \/ i = outIndex)
      BY <2>2
    <2> QED BY <2>1, <2>3, <2>4, Zenon
  <1>4. /\ outFile' = index /\ index \in Indices /\ index <= Len(split) /\ split' = split
        /\ files'[index] \in Seq(Units)
        /\ \A i \in Indices : i # index => files'[i] = files[i]
        /\ index < Len(split) =>
              /\ outCount' = Len(files'[index]) /\ outCount' <= split[index + 1]
              /\ bufEnd' = SizeOf(bufNo) \/ outCount' = split[index + 1]
        /\ outSplit' = IF index < Len(split) THEN split ELSE <<>>
    BY LoopFacts
  <1> HIDE DEF index
  <1>5. FilesOfRun'
    <2>1. \A i \in 0..index : files'[i] \in Seq(Units)
      BY <1>1, <1>3, <1>4 DEF FilesOfRun
    <2>2. \A i \in 0..(index - 1) : Len(files'[i]) = split[i + 1]
      <3> TAKE i \in 0..(index - 1)
      <3>1. i # index /\ i \in 0..index
        BY <1>1, <1>3
      <3>2. files'[i] = files[i]
        BY <1>3, <1>4, <3>1
      <3>3. CASE i \in 0..(outIndex - 1)
        BY <1>1, <3>2, <3>3 DEF FilesOfRun
      <3>4. CASE i = outIndex
        BY <1>2, <3>1, <3>2, <3>4
      <3> QED BY <1>3, <3>3, <3>4
    <2>3. index < Len(split) => Len(files'[index]) <= split[index + 1]
      BY <1>4
    <2> QED BY <1>4, <2>1, <2>2, <2>3 DEF FilesOfRun, Sized, index
  <1>6. Counters'
    <2>1. /\ NBuffers' = NBuffers /\ SizeOf(bufNo)' = SizeOf(bufNo) /\ bufNo' = bufNo
          /\ bufNo \in 1..NBuffers /\ NBuffers \in Nat /\ bufEnd' \in 0..SizeOf(bufNo)
      BY LoopFacts, <1>1, InputFacts DEF NBuffers, SizeOf
    <2>2. checksums' = 0..(index - 1)
      <3>1. checksums = 0..(outIndex - 1)
        BY <1>1 DEF Counters
      <3>2. \A n \in Nat : (0..(n - 1)) \cup {n} = 0..((n + 1) - 1)
        OBVIOUS
      <3>3. CASE index = outIndex /\ checksums' = checksums
        BY <3>1, <3>3
      <3>4. CASE index = outIndex + 1 /\ checksums' = checksums \cup {outIndex}
        BY <1>1, <3>1, <3>2, <3>4
      <3> QED BY <1>2, <3>3, <3>4
    <2>3. Sized' = (index < Len(split))
      BY <1>4 DEF Sized, index
    <2>4. Sized' => outCount' = Len(files'[index])
      BY <1>4, <2>3
    <2>5. Sized' => bufEnd' = SizeOf(bufNo)' \/ outCount' = split'[index + 1]
      BY <1>4, <2>1, <2>3
    <2>6. outSplit' = IF Sized' THEN split' ELSE <<>>
      BY <1>4, <2>3
    <2>7. bufNo' \in 1..(NBuffers' + 1) /\ ~(bufNo' > NBuffers') /\ bufEnd' \in 0..SizeOf(bufNo)'
      BY <2>1
    <2> QED BY <2>2, <2>4, <2>5, <2>6, <2>7 DEF Counters, index
  <1>7. DOMAIN files' = Indices /\ phase' = "write" /\ payload' = payload
    BY LoopFacts
  <1> QED BY <1>1, <1>4, <1>5, <1>6, <1>7 DEF SplitInv, Finished

\* The other steps of writing.
LEMMA UnsplitStep ==
  ASSUME SplitInv, WriteUnsplit
  PROVE  SplitInv'
  <1>1. /\ phase = "write" /\ bufNo <= NBuffers /\ outSplit = <<>> /\ bufNo' = bufNo + 1
        /\ files' = [files EXCEPT ![outFile] = @ \o Buffer(bufNo)]
        /\ UNCHANGED <<payload, split, phase, outSplit, outIndex, outFile, checksums>>
    BY DEF WriteUnsplit, setup, outVars
  <1>2. /\ payload \in Payloads /\ split \in Splits /\ DOMAIN files = Indices
        /\ FilesOfRun /\ Counters
    BY <1>1 DEF SplitInv
  <1>3. ~Sized /\ ~Sized'
    <2>1. Sized => Len(split) > 0
      BY <1>2, InputFacts DEF Sized, FilesOfRun, Indices
    <2>2. Sized => outSplit # <<>>
      BY <1>2, <2>1, InputFacts DEF Counters
    <2> QED BY <1>1, <2>2 DEF Sized
  <1>4. bufNo \in 1..NBuffers /\ bufNo' \in 1..(NBuffers + 1) /\ NBuffers' = NBuffers
    BY <1>1, <1>2, InputFacts DEF Counters, NBuffers
  <1>5. outFile = outIndex /\ outIndex \in Indices /\ outIndex \in 0..outIndex
    BY <1>2 DEF FilesOfRun, Indices
  <1>6. /\ files'[outIndex] \in Seq(Units) /\ DOMAIN files' = Indices
        /\ \A i \in Indices : i # outIndex => files'[i] = files[i]
    <2>1. files[outIndex] \in Seq(Units) /\ Buffer(bufNo) \in Seq(Units)
      BY <1>2, <1>4, <1>5, InputFacts DEF FilesOfRun
    <2>2. files[outIndex] \o Buffer(bufNo) \in Seq(Units)
      BY <2>1
    <2> QED BY <1>1, <1>2, <1>5, <2>2
  <1>7. /\ \A i \in 0..outIndex : i \in Indices
        /\ \A i \in 0..(outIndex - 1) : i \in Indices /\ i # outIndex
    BY <1>5, SplitAssumption DEF Indices
  <1>8. FilesOfRun'
    BY <1>1, <1>2, <1>3, <1>6, <1>7 DEF FilesOfRun
  <1>9. Counters'
    BY <1>1, <1>2, <1>3, <1>4 DEF Counters
  <1> QED BY <1>1, <1>2, <1>6, <1>8, <1>9 DEF SplitInv, Finished

LEMMA DoneStep ==
  ASSUME SplitInv, WriteDone
  PROVE  SplitInv'
  <1>1. /\ phase = "write" /\ bufNo <= NBuffers /\ bufNo' = bufNo + 1
        /\ bufStart' = 0 /\ bufEnd' = 0
        /\ UNCHANGED <<payload, split, files, phase, outSplit, outIndex, outCount, outFile,
                       checksums>>
    BY DEF WriteDone, setup, outVars
  <1>2. /\ payload \in Payloads /\ split \in Splits /\ DOMAIN files = Indices
        /\ FilesOfRun /\ Counters
    BY <1>1 DEF SplitInv
  <1>3. Sized' = Sized /\ NBuffers' = NBuffers
    BY <1>1 DEF Sized, NBuffers
  <1>4. /\ bufNo' \in 1..(NBuffers + 1)
        /\ bufNo' <= NBuffers => SizeOf(bufNo)' \in Nat
    <2>1. bufNo' \in 1..(NBuffers + 1)
      BY <1>1, <1>2, InputFacts DEF Counters
    <2>2. bufNo' <= NBuffers => SizeOf(bufNo') \in Nat
      BY <1>2, <2>1, InputFacts
    <2>3. SizeOf(bufNo)' = SizeOf(bufNo')
      BY <1>1 DEF SizeOf
    <2> QED BY <2>1, <2>2, <2>3
  <1>5. FilesOfRun'
    BY <1>1, <1>2, <1>3 DEF FilesOfRun
  <1>6. Counters'
    BY <1>1, <1>2, <1>3, <1>4 DEF Counters
  <1> QED BY <1>1, <1>2, <1>5, <1>6 DEF SplitInv, Finished

LEMMA FinishStep ==
  ASSUME SplitInv, FinishOutput
  PROVE  SplitInv'
  <1>1. /\ phase = "write" /\ phase' = "open" /\ checksums' = checksums \cup {outFile}
        /\ UNCHANGED <<payload, split, files, outIndex, outFile>>
    BY DEF FinishOutput, setup
  <1>2. FilesOfRun /\ checksums = 0..(outIndex - 1) /\ outFile = outIndex /\ outIndex \in Nat
    BY <1>1 DEF SplitInv, FilesOfRun, Counters, Indices
  <1>3. checksums' = 0..outIndex
    BY <1>1, <1>2
  <1>4. FilesOfRun'
    BY <1>1, <1>2 DEF FilesOfRun, Sized
  <1> QED BY <1>1, <1>3, <1>4 DEF SplitInv, Finished

\* Nothing else writes.
LEMMA ReadStep ==
  ASSUME SplitInv,
         WriteError \/ OpenInput \/ ReadLoop \/ HeaderRead \/ ChunkRead \/ UNCHANGED vars
  PROVE  SplitInv'
  <1>1. UNCHANGED <<payload, split, files, outSplit, outIndex, outCount, outFile, checksums>>
    BY DEF WriteError, OpenInput, ReadLoop, HeaderRead, ChunkRead, vars, setup, outVars
  <1>2. \/ phase' = phase /\ UNCHANGED <<bufNo, bufStart, bufEnd>>
        \/ Finished /\ phase' \in {"header", "read", "ok", "err"}
        \/ phase' = "err"
    <2>1. CASE WriteError
      BY <2>1 DEF WriteError, Fail
    <2>2. CASE OpenInput
      BY <2>2 DEF OpenInput, Fail, Finished
    <2>3. CASE ReadLoop
      BY <2>3 DEF ReadLoop, Finished
    <2>4. CASE HeaderRead
      BY <2>4 DEF HeaderRead, Fail, Finished
    <2>5. CASE ChunkRead
      BY <2>5 DEF ChunkRead, Finished
    <2>6. CASE UNCHANGED vars
      BY <2>6 DEF vars, setup, outVars, inVars
    <2> QED BY <2>1, <2>2, <2>3, <2>4, <2>5, <2>6
  <1>3. FilesOfRun' = FilesOfRun
    BY <1>1 DEF FilesOfRun, Sized
  <1>4. UNCHANGED <<bufNo, bufStart, bufEnd>> => Counters' = Counters /\ Begin' = Begin
    BY <1>1 DEF Counters, Begin, Sized, NBuffers, SizeOf
  <1> QED BY <1>1, <1>2, <1>3, <1>4 DEF SplitInv, Finished

\* SplitInv is an invariant: while the output is written, every file but the one
\* in hand has its size, and the counters of write_files tell how much is in it.
THEOREM SplitInvariance == Spec => []SplitInv
  <1>1. SplitInv /\ [Next]_vars => SplitInv'
    BY CreateStep, LoopStep, UnsplitStep, DoneStep, FinishStep, ReadStep DEF Next, Stopped
  <1> QED BY <1>1, InitSplit, PTL DEF Spec

\* Each file of a series has the size that was asked for.
THEOREM SplitSizesCorrect == Spec => []SplitSizes
  <1>1. SplitInv => SplitSizes
    <2> SUFFICES ASSUME SplitInv, Finished
                 PROVE  SplitSizes
      BY DEF SplitSizes
    <2>1. FilesOfRun /\ Len(split) \in Nat /\ outIndex \in Nat /\ NWritten = outIndex + 1
      BY InputFacts DEF SplitInv, FilesOfRun, Indices, NWritten
    <2>2. \A i \in 1..(NWritten - 1) : i - 1 \in 0..(outIndex - 1) /\ (i - 1) + 1 = i
      BY <2>1
    <2>3. \A i \in 1..(NWritten - 1) : Len(files[i - 1]) = split[i]
      BY <2>1, <2>2 DEF FilesOfRun
    <2>4. NWritten <= Len(split) => Len(files[NWritten - 1]) <= split[NWritten]
      BY <2>1 DEF FilesOfRun, Sized
    <2>5. NWritten <= Len(split) + 1
      BY <2>1 DEF FilesOfRun
    <2> QED BY <2>3, <2>4, <2>5 DEF SplitSizes
  <1> QED BY <1>1, SplitInvariance, PTL

\* One checksum is printed for each file of the run and for no other.
THEOREM ChecksumsCorrect == Spec => []ChecksumEachFile
  <1>1. SplitInv => ChecksumEachFile
    <2> SUFFICES ASSUME SplitInv, Finished
                 PROVE  ChecksumEachFile
      BY DEF ChecksumEachFile
    <2>1. NWritten - 1 = outIndex
      BY DEF SplitInv, FilesOfRun, Indices, NWritten
    <2> QED BY <2>1 DEF SplitInv, ChecksumEachFile
  <1> QED BY <1>1, SplitInvariance, PTL

-----------------------------------------------------------------------------
(* Where the files begin: the sums of the sizes.                           *)

\* The sums f[i] of the first i elements of s.
Sums(f, s, n) == f = [i \in 0..n |-> IF i = 0 THEN 0 ELSE f[i - 1] + s[i]]

LEMMA SumsExist ==
  ASSUME NEW s, NEW n \in Nat
  PROVE  \E f : Sums(f, s, n)
  <1> DEFINE S == {m \in Nat : \E f : Sums(f, s, m)}
  <1>1. 0 \in S
    <2>1. Sums([i \in 0..0 |-> 0], s, 0)
      BY DEF Sums
    <2> QED BY <2>1
  <1>2. ASSUME NEW m \in Nat, m \in S
        PROVE  m + 1 \in S
    <2>1. PICK f : Sums(f, s, m)
      BY <1>2
    <2> DEFINE g == [i \in 0..(m + 1) |-> IF i \in 0..m THEN f[i] ELSE f[i - 1] + s[i]]
    <2>2. \A i \in 0..(m + 1) : g[i] = IF i = 0 THEN 0 ELSE g[i - 1] + s[i]
      <3> TAKE i \in 0..(m + 1)
      <3>1. CASE i \in 0..m
        <4>1. g[i] = f[i] /\ (i # 0 => i - 1 \in 0..(m + 1) /\ g[i - 1] = f[i - 1])
          BY <3>1
        <4>2. f[i] = IF i = 0 THEN 0 ELSE f[i - 1] + s[i]
          BY <2>1, <3>1 DEF Sums
        <4> QED BY <4>1, <4>2
      <3>2. CASE i \notin 0..m
        <4>1. i = m + 1 /\ i # 0 /\ i - 1 \in 0..(m + 1) /\ i - 1 \in 0..m
          BY <3>2
        <4> QED BY <3>2, <4>1
      <3> QED BY <3>1, <3>2
    <2>3. Sums(g, s, m + 1)
      BY <2>2 DEF Sums
    <2> QED BY <2>3
  <1>3. Nat \subseteq S
    <2> HIDE DEF S
    <2> QED BY <1>1, <1>2, Induction
  <1> QED BY <1>3

LEMMA SumsAgree ==
  ASSUME NEW s, NEW t, NEW f, NEW g, NEW m \in Nat, NEW n \in Nat, m <= n,
         \A i \in 1..m : s[i] = t[i], Sums(f, s, m), Sums(g, t, n)
  PROVE  \A i \in 0..m : f[i] = g[i]
  <1> DEFINE S == {k \in Nat : k \in 0..m => f[k] = g[k]}
  <1>1. 0 \in S
    <2>1. 0 \in 0..m /\ 0 \in 0..n
      OBVIOUS
    <2>2. f[0] = 0 /\ g[0] = 0
      BY <2>1 DEF Sums
    <2> QED BY <2>2
  <1>2. ASSUME NEW k \in Nat, k \in S
        PROVE  k + 1 \in S
    <2>1. CASE k + 1 \in 0..m
      <3>1. /\ k + 1 \in 0..n /\ k + 1 \in 1..m /\ (k + 1) - 1 = k /\ k + 1 # 0
            /\ k \in 0..m
        BY <2>1
      <3>2. /\ f[k + 1] = IF k + 1 = 0 THEN 0 ELSE f[(k + 1) - 1] + s[k + 1]
            /\ g[k + 1] = IF k + 1 = 0 THEN 0 ELSE g[(k + 1) - 1] + t[k + 1]
        BY <2>1, <3>1 DEF Sums
      <3> QED BY <1>2, <3>1, <3>2
    <2> QED BY <2>1
  <1>3. Nat \subseteq S
    <2> HIDE DEF S
    <2> QED BY <1>1, <1>2, Induction
  <1> QED BY <1>3

LEMMA SumIsLast ==
  ASSUME NEW s, Len(s) \in Nat
  PROVE  \E f : Sums(f, s, Len(s)) /\ SumOf(s) = f[Len(s)]
  <1> DEFINE f == CHOOSE g : Sums(g, s, Len(s))
  <1>1. Sums(f, s, Len(s))
    BY SumsExist
  <1>2. SumOf(s) = f[Len(s)]
    BY DEF SumOf, Sums
  <1> QED BY <1>1, <1>2

\* The sum of the first n elements of s.
SumTo(s, n) == SumOf(SubSeq(s, 1, n))

LEMMA SumStep ==
  ASSUME NEW s \in Seq(Nat), NEW n \in 0..(Len(s) - 1)
  PROVE  SumTo(s, n + 1) = SumTo(s, n) + s[n + 1]
  <1> DEFINE a == SubSeq(s, 1, n)
             b == SubSeq(s, 1, n + 1)
  <1>1. /\ n \in Nat /\ Len(a) = n /\ Len(b) = n + 1
        /\ \A i \in 1..n : a[i] = b[i]
        /\ b[n + 1] = s[n + 1]
    BY FirstElements
  <1> HIDE DEF a, b
  <1>2. PICK f : Sums(f, a, n) /\ SumOf(a) = f[n]
    BY <1>1, SumIsLast
  <1>3. PICK k \in Nat : k = n + 1
    BY <1>1
  <1>4. PICK g : Sums(g, b, k) /\ SumOf(b) = g[k]
    BY <1>1, <1>3, SumIsLast
  <1>5. f[n] = g[n]
    <2>1. n \in Nat /\ n <= k /\ n \in 0..n
      BY <1>1, <1>3
    <2>2. \A i \in 0..n : f[i] = g[i]
      BY ONLY <1>1, <1>2, <1>4, <2>1, k \in Nat, SumsAgree
    <2> QED BY <2>1, <2>2
  <1>6. g[k] = g[n] + b[k]
    <2>1. k \in 0..k /\ k # 0 /\ k - 1 = n
      BY <1>1, <1>3
    <2>2. g[k] = IF k = 0 THEN 0 ELSE g[k - 1] + b[k]
      BY <1>4, <2>1 DEF Sums
    <2> QED BY <2>1, <2>2
  <1> QED BY <1>1, <1>2, <1>3, <1>4, <1>5, <1>6 DEF SumTo, a, b

LEMMA SumFacts ==
  ASSUME NEW s \in Seq(Nat)
  PROVE  SumTo(s, 0) = 0 /\ \A n \in 0..Len(s) : SumTo(s, n) \in Nat
  <1> DEFINE T == {n \in Nat : n <= Len(s) => SumTo(s, n) \in Nat}
  <1>1. SumTo(s, 0) = 0
    <2> DEFINE e == SubSeq(s, 1, 0)
    <2>1. Len(e) = 0
      BY FirstElements
    <2> HIDE DEF e
    <2>2. PICK f : Sums(f, e, Len(e)) /\ SumOf(e) = f[Len(e)]
      BY <2>1, SumIsLast
    <2>3. SumOf(e) = 0
      BY <2>1, <2>2 DEF Sums
    <2> QED BY <2>3 DEF SumTo, e
  <1>2. ASSUME NEW n \in Nat, n \in T
        PROVE  n + 1 \in T
    <2> SUFFICES ASSUME n + 1 <= Len(s)
                 PROVE  SumTo(s, n + 1) \in Nat
      OBVIOUS
    <2>1. n \in 0..(Len(s) - 1) /\ SumTo(s, n) \in Nat /\ s[n + 1] \in Nat
      BY <1>2
    <2> QED BY <2>1, SumStep
  <1>3. Nat \subseteq T
    <2>1. 0 \in T
      BY <1>1
    <2> HIDE DEF T
    <2> QED BY <1>2, <2>1, Induction
  <1> QED BY <1>1, <1>3

-----------------------------------------------------------------------------
(* The pieces.                                                             *)

Buffers == [b \in 1..NBuffers |-> Buffer(b)]

\* Where buffer b ends in the output, and how far the output is written.
Ends(b) == EndOf(Buffers, b)
Position == Ends(bufNo - 1) + bufEnd

\* Where file i begins.
FileStart(i) == SumTo(split, i)

\* The files of this run are the first pos units of the output, cut at the
\* sizes asked for.
Pieces(pos) ==
  /\ outIndex > 0 => FileStart(outIndex) < Len(Written)
  /\ \A i \in 0..outIndex : FileStart(i) <= pos
  /\ \A i \in 0..(outIndex - 1) :
       files[i] = SubSeq(Written, FileStart(i) + 1, FileStart(i + 1))
  /\ files[outIndex] = SubSeq(Written, FileStart(outIndex) + 1, pos)

LayoutInv ==
  /\ phase = "create" => bufNo = 1 /\ bufEnd = 0 /\ outIndex = 0 /\ outFile = 0
  /\ phase = "write" => /\ bufNo \in 1..(NBuffers + 1)
                        /\ bufNo <= NBuffers => bufEnd \in 0..SizeOf(bufNo)
                        /\ bufNo > NBuffers => bufEnd = 0
                        /\ Pieces(Position)
  /\ Finished => Pieces(Len(Written))

\* The buffers are found again in the output.
LEMMA BufferFacts ==
  ASSUME payload \in Payloads, split \in Splits
  PROVE  /\ Written \in Seq(Units) /\ Len(Written) \in Nat
         /\ Ends(0) = 0 /\ Ends(NBuffers) = Len(Written)
         /\ \A b \in 0..NBuffers : Ends(b) \in 0..Len(Written)
         /\ \A b \in 1..NBuffers : /\ Ends(b) = Ends(b - 1) + SizeOf(b)
                                   /\ Buffer(b) = SubSeq(Written, Ends(b - 1) + 1, Ends(b))
  <1>1. Buffers \in Seq(Seq(Units)) /\ Len(Buffers) = NBuffers /\ NBuffers \in Nat
    BY InputFacts DEF Buffers
  <1>2. /\ Written \in Seq(Units)
        /\ EndOf(Buffers, 0) = 0 /\ EndOf(Buffers, NBuffers) = Len(Written)
        /\ \A n \in 0..NBuffers : EndOf(Buffers, n) \in 0..Len(Written)
        /\ \A n \in 0..(NBuffers - 1) :
             /\ EndOf(Buffers, n + 1) = EndOf(Buffers, n) + Len(Buffers[n + 1])
             /\ SubSeq(Written, EndOf(Buffers, n) + 1, EndOf(Buffers, n + 1)) = Buffers[n + 1]
    <2>1. Written = FlattenSeq(Buffers)
      BY DEF Written, Buffers
    <2> QED BY <1>1, <2>1, FlattenParts
  <1>3. ASSUME NEW b \in 1..NBuffers
        PROVE  /\ Ends(b) = Ends(b - 1) + SizeOf(b)
               /\ Buffer(b) = SubSeq(Written, Ends(b - 1) + 1, Ends(b))
    <2>1. PICK n \in 0..(NBuffers - 1) : n = b - 1 /\ n + 1 = b
      BY <1>1
    <2>2. Buffers[b] = Buffer(b) /\ Len(Buffer(b)) = SizeOf(b)
      BY InputFacts DEF Buffers
    <2> QED BY <1>2, <2>1, <2>2 DEF Ends
  <1> QED BY <1>2, <1>3 DEF Ends

\* A piece of a buffer is a piece of the output.
LEMMA BufferPiece ==
  ASSUME payload \in Payloads, split \in Splits, NEW b \in 1..NBuffers,
         NEW n \in 0..SizeOf(b), NEW m \in 0..n
  PROVE  /\ Ends(b - 1) \in Nat
         /\ Ends(b - 1) + m \in 0..(Ends(b - 1) + n) /\ Ends(b - 1) + n \in 0..Len(Written)
         /\ SubSeq(Buffer(b), m + 1, n)
              = SubSeq(Written, (Ends(b - 1) + m) + 1, Ends(b - 1) + n)
  <1>1. /\ Written \in Seq(Units) /\ Ends(b) \in 0..Len(Written) /\ Ends(b - 1) \in 0..Len(Written)
        /\ Ends(b) = Ends(b - 1) + SizeOf(b)
        /\ Buffer(b) = SubSeq(Written, Ends(b - 1) + 1, Ends(b))
        /\ SizeOf(b) \in Nat
    <2>1. b \in 0..NBuffers /\ b - 1 \in 0..NBuffers
      BY InputFacts
    <2> QED BY <2>1, BufferFacts, InputFacts
  <1> DEFINE a == Ends(b - 1)
             d == Ends(b)
             w == Written
             buffer == Buffer(b)
  <1>2. w \in Seq(Units) /\ d \in 0..Len(w) /\ a \in 0..d /\ n \in 0..(d - a)
    BY <1>1
  <1>3. buffer = SubSeq(w, a + 1, d)
    BY <1>1
  <1>4. a \in Nat /\ a + m \in 0..(a + n) /\ a + n \in 0..Len(w)
    BY <1>2
  <1> HIDE DEF a, d, w, buffer
  <1>5. SubSeq(SubSeq(w, a + 1, d), m + 1, n) = SubSeq(w, a + m + 1, a + n)
    BY <1>2, PieceOfPiece
  <1> QED BY <1>3, <1>4, <1>5 DEF a, w, buffer

\* None of this changes while the output is written and read.
LEMMA SameOutput ==
  ASSUME UNCHANGED <<payload, split>>
  PROVE  /\ NBuffers' = NBuffers /\ Written' = Written /\ Buffers' = Buffers
         /\ \A b : SizeOf(b)' = SizeOf(b) /\ Buffer(b)' = Buffer(b) /\ Ends(b)' = Ends(b)
         /\ \A i : FileStart(i)' = FileStart(i)
  BY DEF NBuffers, Written, SizeOf, Buffer, Ends, Buffers, FileStart

LEMMA CreateLayout ==
  ASSUME SplitInv, LayoutInv, CreateOutput
  PROVE  LayoutInv'
  <1>1. /\ phase' = "write" /\ files' = [files EXCEPT ![0] = <<>>]
        /\ bufNo' = 1 /\ bufEnd' = 0 /\ outIndex' = 0 /\ UNCHANGED <<payload, split>>
    BY DEF CreateOutput, LayoutInv, setup, outVars
  <1>2. /\ payload \in Payloads /\ split \in Splits /\ DOMAIN files = Indices /\ 0 \in Indices
    BY SplitAssumption DEF SplitInv, Indices
  <1>3. files'[0] = <<>>
    BY <1>1, <1>2
  <1>4. NBuffers \in Nat /\ NBuffers >= 1 /\ SizeOf(1) \in Nat /\ split \in Seq(Nat)
    BY <1>2, InputFacts
  <1>5. FileStart(0) = 0 /\ Ends(0) = 0 /\ Written \in Seq(Units)
    BY <1>2, <1>4, SumFacts, BufferFacts DEF FileStart
  <1>6. Position' = 0
    BY <1>1, <1>5, SameOutput DEF Position, Ends
  <1>7. SubSeq(Written, 0 + 1, 0) = <<>>
    BY <1>5, FirstElements
  <1>8. Pieces(0)'
    <2>1. FileStart(outIndex)' = 0 /\ \A i : FileStart(i)' = FileStart(i)
      BY <1>1, <1>5, SameOutput DEF FileStart
    <2>2. files'[outIndex'] = SubSeq(Written', FileStart(outIndex)' + 1, 0)
      BY <1>1, <1>3, <1>7, <2>1, SameOutput
    <2>3. \A i \in 0..outIndex' : FileStart(i)' <= 0
      BY <1>1, <1>5, <2>1
    <2> QED BY <1>1, <2>2, <2>3 DEF Pieces
  <1>9. Pieces(Position)'
    BY <1>6, <1>8 DEF Pieces
  <1>10. bufEnd' \in 0..SizeOf(bufNo)'
    BY <1>1, <1>4, SameOutput DEF SizeOf
  <1> QED BY <1>1, <1>4, <1>9, <1>10, SameOutput DEF LayoutInv, Finished

\* More is written to the file in hand.
LEMMA SameFile ==
  ASSUME payload \in Payloads, split \in Splits, UNCHANGED <<payload, split, outIndex>>,
         outIndex \in 0..Len(split), Pieces(Position),
         Position \in 0..Position', Position' \in 0..Len(Written),
         files'[outIndex] = files[outIndex] \o SubSeq(Written, Position + 1, Position'),
         \A i \in 0..(outIndex - 1) : files'[i] = files[i]
  PROVE  Pieces(Position)'
  <1> DEFINE W == Written
             p == Position
             q == Position'
  <1>1. /\ W \in Seq(Units) /\ split \in Seq(Nat) /\ outIndex \in Nat /\ Len(split) \in Nat
        /\ Written' = W /\ \A i : FileStart(i)' = SumTo(split, i) /\ FileStart(i) = SumTo(split, i)
    BY BufferFacts, InputFacts, SameOutput DEF FileStart
  <1>2. \A i \in 0..outIndex : SumTo(split, i) <= p /\ SumTo(split, i) \in Nat
    <2>1. \A i \in 0..outIndex : i \in 0..Len(split)
      BY <1>1
    <2> QED BY <1>1, <2>1, SumFacts DEF Pieces, FileStart
  <1>3. p \in 0..q /\ q \in 0..Len(W)
    OBVIOUS
  <1> DEFINE start == SumTo(split, outIndex)
  <1>4. /\ files[outIndex] = SubSeq(W, start + 1, p)
        /\ files'[outIndex] = files[outIndex] \o SubSeq(W, p + 1, q)
        /\ outIndex > 0 => start < Len(W)
        /\ \A i \in 0..(outIndex - 1) :
             files'[i] = SubSeq(W, SumTo(split, i) + 1, SumTo(split, i + 1))
    BY DEF Pieces, FileStart
  <1> HIDE DEF W, p, q, start
  <1>5. start \in 0..p
    BY <1>1, <1>2, <1>3 DEF start
  <1>6. files'[outIndex] = SubSeq(W, start + 1, q)
    <2>1. SubSeq(W, start + 1, p) \o SubSeq(W, p + 1, q) = SubSeq(W, start + 1, q)
      BY <1>1, <1>3, <1>5, AppendPiece
    <2> QED BY <1>4, <2>1
  <1>7. \A i \in 0..outIndex : SumTo(split, i) <= q
    BY <1>2, <1>3
  <1>8. outIndex' = outIndex /\ Position' = q
    BY DEF q
  <1>9. /\ outIndex' > 0 => FileStart(outIndex)' < Len(Written')
        /\ \A i \in 0..outIndex' : FileStart(i)' <= Position'
    BY <1>1, <1>4, <1>7, <1>8 DEF start, FileStart
  <1>10. /\ \A i \in 0..(outIndex' - 1) :
              files'[i] = SubSeq(Written', FileStart(i)' + 1, FileStart(i + 1)')
         /\ files'[outIndex'] = SubSeq(Written', FileStart(outIndex)' + 1, Position')
    BY <1>1, <1>4, <1>6, <1>8 DEF start, FileStart
  <1> QED BY <1>9, <1>10 DEF Pieces

LEMMA LoopLayout ==
  ASSUME SplitInv, LayoutInv, WriteLoop
  PROVE  LayoutInv'
  <1> DEFINE W == Written
             p == Position
             q == Ends(bufNo - 1) + bufEnd'
             start == FileStart(outIndex)
  <1>1. /\ payload \in Payloads /\ split \in Splits /\ split \in Seq(Nat)
        /\ UNCHANGED <<payload, split>>
        /\ Pieces(p) /\ FilesOfRun /\ outIndex \in Nat /\ outIndex < Len(split)
        /\ bufNo \in 1..NBuffers /\ SizeOf(bufNo) \in Nat /\ W \in Seq(Units)
    BY LoopFacts, InputFacts, BufferFacts DEF SplitInv, LayoutInv, Sized
  <1>2. /\ Piece = SubSeq(W, p + 1, q) /\ p \in 0..q /\ q \in 0..Len(W) /\ p < Len(W)
    <2>1. bufEnd \in 0..bufEnd' /\ bufEnd' \in 0..SizeOf(bufNo) /\ bufEnd < SizeOf(bufNo)
      BY LoopFacts
    <2>2. /\ Ends(bufNo - 1) \in Nat /\ Ends(bufNo - 1) + bufEnd \in 0..q
          /\ q \in 0..Len(Written)
          /\ Piece = SubSeq(Written, (Ends(bufNo - 1) + bufEnd) + 1, q)
      BY <1>1, <2>1, BufferPiece DEF Piece
    <2>3. Ends(bufNo) = Ends(bufNo - 1) + SizeOf(bufNo) /\ Ends(bufNo) \in 0..Len(Written)
      <3>1. bufNo \in 0..NBuffers
        BY <1>1
      <3> QED BY <1>1, <3>1, BufferFacts
    <2>4. Ends(bufNo - 1) + bufEnd < Len(Written)
      <3>1. Ends(bufNo - 1) + bufEnd < Ends(bufNo)
        BY <1>1, <2>1, <2>2, <2>3
      <3>2. PICK e \in 0..Len(Written) : e = Ends(bufNo)
        BY <2>3
      <3>3. Len(Written) \in Nat
        BY <1>1
      <3> QED BY <2>1, <2>2, <3>1, <3>2, <3>3
    <2> QED BY <2>2, <2>4 DEF Position
  <1>3. /\ start \in 0..p /\ files[outIndex] = SubSeq(W, start + 1, p)
        /\ FileStart(outIndex + 1) = start + split[outIndex + 1]
    <2>1. outIndex \in 0..outIndex /\ outIndex \in 0..Len(split) /\ outIndex \in 0..(Len(split) - 1)
      BY <1>1
    <2>2. start \in Nat /\ start <= p /\ files[outIndex] = SubSeq(W, start + 1, p)
      BY <1>1, <2>1, SumFacts DEF Pieces, FileStart
    <2>3. FileStart(outIndex + 1) = start + split[outIndex + 1]
      BY <1>1, <2>1, SumStep DEF FileStart
    <2> QED BY <1>2, <2>2, <2>3
  <1>4. Position' = q
    BY LoopFacts, SameOutput DEF Position, Ends
  <1>5. /\ \A i \in 0..outIndex : i \in Indices
        /\ \A i \in 0..outIndex : FileStart(i) <= p
        /\ \A i \in 0..(outIndex - 1) : /\ files[i] = SubSeq(W, FileStart(i) + 1, FileStart(i + 1))
                                        /\ i \in 0..outIndex /\ i # outIndex
    <2>1. \A i \in 0..outIndex : i \in Indices
      BY <1>1, SplitAssumption DEF FilesOfRun, Indices
    <2>2. \A i \in 0..(outIndex - 1) : i \in 0..outIndex /\ i # outIndex
      BY <1>1
    <2> QED BY <1>1, <2>1, <2>2 DEF Pieces
  <1>6. \A i \in 0..outIndex : FileStart(i) <= q
    <2> TAKE i \in 0..outIndex
    <2>1. FileStart(i) <= p /\ FileStart(i) \in Nat
      <3>1. i \in 0..Len(split)
        BY <1>1
      <3> QED BY <1>1, <1>5, <3>1, SumFacts DEF FileStart
    <2> QED BY <1>2, <2>1
  <1> HIDE DEF W, p, q, start
  <1>7. /\ Written' = W /\ Position' = q
        /\ \A i : FileStart(i)' = SumTo(split, i) /\ FileStart(i) = SumTo(split, i)
        /\ \A i \in Indices : i # outIndex' => files'[i] = files[i]
    BY <1>1, <1>4, LoopFacts, SameOutput DEF W, FileStart
  <1>8. /\ phase' = "write" /\ bufNo' \in 1..(NBuffers' + 1) /\ ~(bufNo' > NBuffers')
         /\ bufEnd' \in 0..SizeOf(bufNo)'
    <2>1. bufNo' = bufNo /\ NBuffers' = NBuffers /\ SizeOf(bufNo)' = SizeOf(bufNo)
      BY <1>1, LoopFacts DEF NBuffers, SizeOf
    <2>2. NBuffers \in Nat
      BY <1>1, InputFacts
    <2> QED BY <1>1, <2>1, <2>2, LoopFacts
  <1>9. CASE outIndex' = outIndex /\ files'[outIndex'] = files[outIndex] \o Piece
    <2>1. outIndex \in 0..Len(split) /\ \A i \in 0..(outIndex - 1) : files'[i] = files[i]
      BY <1>1, <1>5, <1>7, <1>9
    <2>2. /\ Position \in 0..Position' /\ Position' \in 0..Len(Written)
          /\ files'[outIndex] = files[outIndex] \o SubSeq(Written, Position + 1, Position')
          /\ Pieces(Position)
      BY <1>1, <1>2, <1>7, <1>9 DEF p, W
    <2>3. Pieces(Position)'
      BY <1>1, <1>9, <2>1, <2>2, SameFile
    <2> QED BY <1>8, <2>3 DEF LayoutInv, Finished
  <1>10. CASE /\ outIndex' = outIndex + 1 /\ Len(files[outIndex]) = split[outIndex + 1]
             /\ files'[outIndex'] = Piece
    <2>1. FileStart(outIndex + 1) = p
      <3>1. p \in 0..Len(W) /\ start \in Nat
        BY <1>1, <1>2, <1>3
      <3>2. Len(files[outIndex]) = p - start
        BY <1>1, <1>3, <3>1, PieceFacts
      <3> QED BY <1>3, <1>10, <3>1, <3>2
    <2>2. files'[outIndex'] = SubSeq(W, FileStart(outIndex + 1) + 1, q)
      BY <1>2, <1>10, <2>1
    <2>3. \A i \in 0..outIndex : files'[i] = SubSeq(W, FileStart(i) + 1, FileStart(i + 1))
      <3> TAKE i \in 0..outIndex
      <3>1. files'[i] = files[i]
        BY <1>1, <1>5, <1>7, <1>10
      <3>2. CASE i = outIndex
        BY <1>3, <2>1, <3>1, <3>2 DEF start
      <3>3. CASE i # outIndex
        <4>1. i \in 0..(outIndex - 1)
          BY <1>1, <3>3
        <4> QED BY <1>5, <3>1, <4>1
      <3> QED BY <3>2, <3>3
    <2>4. \A i \in 0..(outIndex + 1) : FileStart(i) <= q
      <3> TAKE i \in 0..(outIndex + 1)
      <3>1. i \in 0..outIndex \/ i = outIndex + 1
        BY <1>1
      <3> QED BY <1>2, <1>6, <2>1, <3>1
    <2>5. (outIndex + 1) - 1 = outIndex /\ FileStart(outIndex + 1) < Len(W)
      BY <1>1, <1>2, <2>1
    <2>6. Pieces(Position)'
      <3>1. outIndex' > 0 => FileStart(outIndex)' < Len(Written')
        BY <1>7, <1>10, <2>5 DEF FileStart
      <3>2. \A i \in 0..outIndex' : FileStart(i)' <= Position'
        BY <1>7, <1>10, <2>4 DEF FileStart
      <3>3. \A i \in 0..(outIndex' - 1) :
              files'[i] = SubSeq(Written', FileStart(i)' + 1, FileStart(i + 1)')
        BY <1>7, <1>10, <2>3, <2>5 DEF FileStart
      <3>4. files'[outIndex'] = SubSeq(Written', FileStart(outIndex)' + 1, Position')
        BY <1>7, <1>10, <2>2 DEF FileStart
      <3> QED BY <3>1, <3>2, <3>3, <3>4 DEF Pieces
    <2> QED BY <1>8, <2>6 DEF LayoutInv, Finished
  <1> QED BY <1>9, <1>10, LoopFacts

LEMMA UnsplitLayout ==
  ASSUME SplitInv, LayoutInv, WriteUnsplit
  PROVE  LayoutInv'
  <1>1. /\ phase = "write" /\ phase' = "write" /\ bufNo <= NBuffers /\ bufNo' = bufNo + 1
        /\ bufEnd = 0 /\ bufEnd' = 0
        /\ files' = [files EXCEPT ![outFile] = @ \o Buffer(bufNo)]
        /\ UNCHANGED <<payload, split, outIndex>>
    BY DEF WriteUnsplit, setup, outVars
  <1>2. /\ payload \in Payloads /\ split \in Splits /\ Pieces(Position)
        /\ bufNo \in 1..NBuffers /\ NBuffers \in Nat
        /\ FilesOfRun /\ DOMAIN files = Indices /\ outFile = outIndex
        /\ outIndex \in Nat /\ outIndex \in 0..Len(split)
    <2>1. /\ payload \in Payloads /\ split \in Splits /\ Pieces(Position) /\ FilesOfRun
          /\ DOMAIN files = Indices /\ bufNo \in 1..(NBuffers + 1)
      BY <1>1 DEF SplitInv, LayoutInv
    <2>2. NBuffers \in Nat /\ Len(split) \in Nat
      BY <2>1, InputFacts
    <2>3. outIndex \in Nat /\ outIndex \in 0..Len(split) /\ outFile = outIndex
      BY <2>1, <2>2 DEF FilesOfRun, Indices
    <2> QED BY <1>1, <2>1, <2>2, <2>3
  <1>3. /\ Position = Ends(bufNo - 1) /\ Position' = Ends(bufNo)
        /\ Position \in 0..Position' /\ Position' \in 0..Len(Written)
        /\ Buffer(bufNo) = SubSeq(Written, Position + 1, Position')
    <2>1. /\ Ends(bufNo - 1) \in 0..Len(Written) /\ Ends(bufNo) \in 0..Len(Written)
          /\ Ends(bufNo) = Ends(bufNo - 1) + SizeOf(bufNo) /\ SizeOf(bufNo) \in Nat
          /\ Buffer(bufNo) = SubSeq(Written, Ends(bufNo - 1) + 1, Ends(bufNo))
      <3>1. bufNo - 1 \in 0..NBuffers /\ bufNo \in 0..NBuffers
        BY <1>2
      <3> QED BY <1>2, <3>1, BufferFacts, InputFacts
    <2>2. Position = Ends(bufNo - 1)
      BY <1>1, <2>1 DEF Position
    <2>3. Position' = Ends(bufNo)
      <3>1. bufNo' - 1 = bufNo /\ Buffers' = Buffers
        BY <1>1, <1>2, SameOutput
      <3>2. Position' = Ends(bufNo) + 0
        BY <1>1, <3>1 DEF Position, Ends
      <3> QED BY <2>1, <3>2
    <2> QED BY <2>1, <2>2, <2>3
  <1>4. /\ files'[outIndex] = files[outIndex] \o SubSeq(Written, Position + 1, Position')
        /\ \A i \in 0..(outIndex - 1) : files'[i] = files[i]
    <2>1. outIndex \in Indices /\ \A i \in 0..(outIndex - 1) : i \in Indices /\ i # outIndex
      BY <1>2, SplitAssumption DEF FilesOfRun, Indices
    <2> QED BY <1>1, <1>2, <1>3, <2>1
  <1>5. Pieces(Position)'
    BY <1>1, <1>2, <1>3, <1>4, SameFile
  <1>6. /\ bufNo' \in 1..(NBuffers' + 1)
        /\ bufNo' <= NBuffers' => bufEnd' \in 0..SizeOf(bufNo)'
    <2>1. NBuffers' = NBuffers /\ SizeOf(bufNo)' = SizeOf(bufNo')
      BY <1>1 DEF NBuffers, SizeOf
    <2>2. bufNo' \in 1..(NBuffers + 1)
      BY <1>1, <1>2
    <2>3. bufNo' <= NBuffers => SizeOf(bufNo') \in Nat
      BY <1>2, <2>2, InputFacts
    <2> QED BY <1>1, <2>1, <2>2, <2>3
  <1> QED BY <1>1, <1>5, <1>6 DEF LayoutInv, Finished

LEMMA DoneLayout ==
  ASSUME SplitInv, LayoutInv, WriteDone
  PROVE  LayoutInv'
  <1>1. /\ phase = "write" /\ phase' = "write" /\ bufNo <= NBuffers /\ bufNo' = bufNo + 1
        /\ bufEnd = SizeOf(bufNo) /\ bufEnd' = 0
        /\ UNCHANGED <<payload, split, files, outIndex>>
    BY DEF WriteDone, setup, outVars
  <1>2. /\ payload \in Payloads /\ split \in Splits /\ Pieces(Position)
        /\ bufNo \in 1..NBuffers /\ NBuffers \in Nat
    <2>1. /\ payload \in Payloads /\ split \in Splits /\ Pieces(Position)
          /\ bufNo \in 1..(NBuffers + 1)
      BY <1>1 DEF SplitInv, LayoutInv
    <2>2. NBuffers \in Nat
      BY <2>1, InputFacts
    <2> QED BY <1>1, <2>1, <2>2
  <1>3. Position' = Position
    <2>1. Ends(bufNo) = Ends(bufNo - 1) + SizeOf(bufNo) /\ Ends(bufNo) \in Nat
      <3>1. bufNo \in 0..NBuffers
        BY <1>2
      <3> QED BY <1>2, <3>1, BufferFacts
    <2>2. bufNo' - 1 = bufNo /\ Buffers' = Buffers
      BY <1>1, <1>2, SameOutput
    <2>3. Position' = Ends(bufNo) + 0
      BY <1>1, <2>2 DEF Position, Ends
    <2> QED BY <1>1, <2>1, <2>3 DEF Position
  <1>4. Pieces(Position)'
    BY <1>1, <1>2, <1>3, SameOutput DEF Pieces, FileStart
  <1>5. /\ bufNo' \in 1..(NBuffers' + 1)
        /\ bufNo' <= NBuffers' => bufEnd' \in 0..SizeOf(bufNo)'
    <2>1. NBuffers' = NBuffers /\ SizeOf(bufNo)' = SizeOf(bufNo')
      BY <1>1 DEF NBuffers, SizeOf
    <2>2. bufNo' \in 1..(NBuffers + 1)
      BY <1>1, <1>2
    <2>3. bufNo' <= NBuffers => SizeOf(bufNo') \in Nat
      BY <1>2, <2>2, InputFacts
    <2> QED BY <1>1, <2>1, <2>2, <2>3
  <1> QED BY <1>1, <1>4, <1>5 DEF LayoutInv, Finished

LEMMA FinishLayout ==
  ASSUME SplitInv, LayoutInv, FinishOutput
  PROVE  LayoutInv'
  <1>1. /\ phase = "write" /\ phase' = "open" /\ bufNo > NBuffers
        /\ UNCHANGED <<payload, split, files, outIndex>>
    BY DEF FinishOutput, setup
  <1>2. /\ payload \in Payloads /\ split \in Splits /\ Pieces(Position)
        /\ bufNo \in 1..(NBuffers + 1) /\ bufEnd = 0
    BY <1>1 DEF SplitInv, LayoutInv
  <1>3. Position = Len(Written)
    <2>1. NBuffers \in Nat /\ Ends(NBuffers) = Len(Written) /\ Len(Written) \in Nat
      BY <1>2, InputFacts, BufferFacts
    <2>2. bufNo - 1 = NBuffers
      BY <1>1, <1>2, <2>1
    <2> QED BY <1>2, <2>1, <2>2 DEF Position
  <1>4. Pieces(Len(Written))'
    BY <1>1, <1>2, <1>3, SameOutput DEF Pieces, FileStart
  <1> QED BY <1>1, <1>4 DEF LayoutInv, Finished

LEMMA ReadLayout ==
  ASSUME SplitInv, LayoutInv,
         WriteError \/ OpenInput \/ ReadLoop \/ HeaderRead \/ ChunkRead \/ UNCHANGED vars
  PROVE  LayoutInv'
  <1>1. UNCHANGED <<payload, split, files, outIndex, outFile>>
    BY DEF WriteError, OpenInput, ReadLoop, HeaderRead, ChunkRead, vars, setup, outVars
  <1>2. \/ phase' = phase /\ UNCHANGED <<bufNo, bufEnd>>
        \/ Finished /\ phase' \in {"header", "read", "ok", "err"}
        \/ phase' = "err"
    <2>1. CASE WriteError
      BY <2>1 DEF WriteError, Fail
    <2>2. CASE OpenInput
      BY <2>2 DEF OpenInput, Fail, Finished
    <2>3. CASE ReadLoop
      BY <2>3 DEF ReadLoop, Finished
    <2>4. CASE HeaderRead
      BY <2>4 DEF HeaderRead, Fail, Finished
    <2>5. CASE ChunkRead
      BY <2>5 DEF ChunkRead, Finished
    <2>6. CASE UNCHANGED vars
      BY <2>6 DEF vars, setup, outVars, inVars
    <2> QED BY <2>1, <2>2, <2>3, <2>4, <2>5, <2>6
  <1>3. Pieces(Len(Written))' = Pieces(Len(Written))
    BY <1>1, SameOutput DEF Pieces, FileStart
  <1>4. ASSUME UNCHANGED <<bufNo, bufEnd>>
        PROVE  /\ Pieces(Position)' = Pieces(Position)
               /\ NBuffers' = NBuffers /\ SizeOf(bufNo)' = SizeOf(bufNo)
    <2>1. Position' = Position
      BY <1>1, <1>4, SameOutput DEF Position, Ends
    <2>2. NBuffers' = NBuffers /\ SizeOf(bufNo)' = SizeOf(bufNo)
      BY <1>1, <1>4 DEF NBuffers, SizeOf
    <2> QED BY <1>1, <2>1, <2>2, SameOutput DEF Pieces, FileStart
  <1>5. CASE phase' = phase /\ UNCHANGED <<bufNo, bufEnd>>
    BY <1>1, <1>3, <1>4, <1>5 DEF LayoutInv, Finished
  <1>6. CASE phase' \in {"header", "read", "ok", "err"} /\ (Finished \/ phase' = "err")
    BY <1>3, <1>6 DEF LayoutInv, Finished
  <1> QED BY <1>2, <1>5, <1>6

LEMMA InitLayout == Init => LayoutInv
  BY DEF Init, LayoutInv, Finished

\* LayoutInv is an invariant: the files are at every step the output so far, cut
\* at the sizes asked for.
THEOREM LayoutInvariance == Spec => []LayoutInv
  <1>1. SplitInv /\ LayoutInv /\ [Next]_vars => LayoutInv'
    BY CreateLayout, LoopLayout, UnsplitLayout, DoneLayout, FinishLayout, ReadLayout
       DEF Next, Stopped
  <1> QED BY <1>1, InitLayout, SplitInvariance, PTL DEF Spec

\* The files are the output cut into pieces: nothing is lost, repeated or moved
\* where a buffer goes across files, and none is begun without a need for it.
THEOREM SplitLayoutCorrect == Spec => []SplitLayout
  <1>1. ASSUME SplitInv, LayoutInv, Finished
        PROVE  /\ FlattenSeq([i \in 1..NWritten |-> files[i - 1]]) = Written
               /\ NWritten > 1 => SumOf(SubSeq(split, 1, NWritten - 1)) < Len(Written)
    <2> DEFINE W == Written
               N == NWritten
               s == [i \in 1..N |-> files[i - 1]]
               e == [i \in 0..N |-> IF i = N THEN Len(W) ELSE FileStart(i)]
    <2>1. /\ payload \in Payloads /\ split \in Splits /\ FilesOfRun /\ Pieces(Len(W))
          /\ outIndex \in Nat /\ N = outIndex + 1 /\ outIndex <= Len(split)
          /\ W \in Seq(Units) /\ split \in Seq(Nat)
      BY <1>1, InputFacts, BufferFacts
         DEF SplitInv, LayoutInv, FilesOfRun, Indices, NWritten
    <2>2. /\ \A i \in 0..outIndex : FileStart(i) \in 0..Len(W) /\ files[i] \in Seq(Units)
          /\ FileStart(0) = 0
      <3>1. \A i \in 0..outIndex : i \in 0..Len(split)
        BY <2>1
      <3>2. FileStart(0) = 0 /\ \A i \in 0..outIndex : FileStart(i) \in Nat
        BY <2>1, <3>1, SumFacts DEF FileStart
      <3>3. \A i \in 0..outIndex : FileStart(i) <= Len(W) /\ files[i] \in Seq(Units)
        BY <2>1 DEF Pieces, FilesOfRun
      <3> QED BY <2>1, <3>2, <3>3
    <2>3. \A i \in 1..outIndex : /\ i - 1 \in 0..outIndex /\ i \in 0..outIndex
                                 /\ files[i - 1] = SubSeq(W, FileStart(i - 1) + 1, FileStart(i))
                                 /\ FileStart(i - 1) <= FileStart(i)
      <3> TAKE i \in 1..outIndex
      <3>1. i - 1 \in 0..(outIndex - 1) /\ (i - 1) + 1 = i /\ i - 1 \in 0..(Len(split) - 1)
        BY <2>1
      <3>2. files[i - 1] = SubSeq(W, FileStart(i - 1) + 1, FileStart(i))
        <4>1. files[i - 1] = SubSeq(W, FileStart(i - 1) + 1, FileStart((i - 1) + 1))
          BY <2>1, <3>1 DEF Pieces
        <4> QED BY <3>1, <4>1
      <3>3. FileStart(i - 1) <= FileStart(i)
        <4>1. PICK k \in 0..(Len(split) - 1) : k = i - 1 /\ k + 1 = i
          BY <3>1
        <4>2. SumTo(split, k + 1) = SumTo(split, k) + split[k + 1]
          BY <2>1, SumStep
        <4>3. split[k + 1] \in Nat /\ SumTo(split, k) \in Nat
          <5>1. k \in 0..Len(split) /\ k + 1 \in 1..Len(split)
            BY <2>1
          <5> QED BY <2>1, <5>1, SumFacts
        <4> QED BY <4>1, <4>2, <4>3 DEF FileStart
      <3> QED BY <2>1, <3>1, <3>2, <3>3
    <2>4. files[outIndex] = SubSeq(W, FileStart(outIndex) + 1, Len(W))
      BY <2>1 DEF Pieces
    <2> HIDE DEF W, N
    <2>5. s \in Seq(Seq(Units)) /\ Len(s) = N
      <3>1. \A i \in 1..N : i - 1 \in 0..outIndex
        BY <2>1
      <3> QED BY <2>1, <2>2, <3>1
    <2>6. /\ e[0] = 0 /\ e[N] = Len(W)
          /\ \A i \in 0..N : e[i] \in 0..Len(W)
      <3>1. \A i \in 0..N : i = N \/ i \in 0..outIndex
        BY <2>1
      <3>2. 0 \in 0..N /\ N \in 0..N /\ 0 # N
        BY <2>1
      <3>3. Len(W) \in 0..Len(W)
        BY <2>1
      <3> QED BY <2>2, <3>1, <3>2, <3>3
    <2>7. \A i \in 1..N : e[i - 1] <= e[i] /\ s[i] = SubSeq(W, e[i - 1] + 1, e[i])
      <3> TAKE i \in 1..N
      <3>1. CASE i = N
        <4>1. i - 1 = outIndex /\ i - 1 \in 0..N /\ i - 1 # N /\ outIndex \in 0..outIndex
          BY <2>1, <3>1
        <4>2. e[i - 1] = FileStart(outIndex) /\ e[i] = Len(W) /\ s[i] = files[outIndex]
          BY <2>6, <3>1, <4>1
        <4>3. FileStart(outIndex) <= Len(W)
          BY <2>2, <4>1
        <4> HIDE DEF e, s
        <4> QED BY <2>4, <4>2, <4>3
      <3>2. CASE i # N
        <4>1. /\ i \in 1..outIndex /\ i - 1 \in 0..N /\ i \in 0..N /\ i - 1 # N
          BY <2>1, <3>2
        <4>2. e[i - 1] = FileStart(i - 1) /\ e[i] = FileStart(i) /\ s[i] = files[i - 1]
          BY <3>2, <4>1
        <4> HIDE DEF e, s
        <4> QED BY <2>3, <4>1, <4>2
      <3> QED BY <3>1, <3>2
    <2> HIDE DEF e, s
    <2>8. FlattenSeq(s) = SubSeq(W, 1, e[N])
      <3>1. /\ \A i \in 0..Len(s) : e[i] \in 0..Len(W)
            /\ \A i \in 1..Len(s) : e[i - 1] <= e[i] /\ s[i] = SubSeq(W, e[i - 1] + 1, e[i])
        BY <2>5, <2>6, <2>7
      <3>2. FlattenSeq(s) = SubSeq(W, 1, e[Len(s)])
        BY <2>1, <2>5, <2>6, <3>1, FlattenPieces
      <3> QED BY <2>5, <3>2
    <2>9. FlattenSeq(s) = Written
      BY <2>1, <2>6, <2>8, SubSeqFull DEF W
    <2>10. NWritten > 1 => SumOf(SubSeq(split, 1, NWritten - 1)) < Len(Written)
      <3>1. NWritten - 1 = outIndex /\ (NWritten > 1 => outIndex > 0)
        BY <2>1 DEF N
      <3> QED BY <2>1, <3>1 DEF Pieces, FileStart, SumTo, W
    <2> QED BY <2>9, <2>10 DEF s, N
  <1>2. SplitInv /\ LayoutInv => SplitLayout
    BY <1>1 DEF SplitLayout
  <1> QED BY <1>2, SplitInvariance, LayoutInvariance, PTL

-----------------------------------------------------------------------------
(* Reading the series back.                                                *)

Chunks == [units : Seq(Units), final : BOOLEAN]

NotRead == inIndex = 0 /\ inCount = 0 /\ bufIn = <<>> /\ chunksRead = <<>>

\* The place in the files is the place in the output, and the buffer holds what
\* is between its begin and there.
Reading ==
  /\ bufNo \in 1..NBuffers
  /\ phase = "header" <=> bufNo = 1
  /\ inSplit = SplitList
  /\ bufLen = SizeOf(bufNo) /\ bufEnd \in 0..bufLen
  /\ remaining = Len(Written) - Ends(bufNo)
  /\ phase = "read" => final = (bufNo = NBuffers)
  /\ bufIn = SubSeq(Written, Ends(bufNo - 1) + 1, Position)
  /\ inIndex \in 0..outIndex /\ inCount \in 0..Len(files[inIndex])
  /\ FileStart(inIndex) + inCount = Position
  /\ chunksRead \in Seq(Chunks)
  /\ Len(chunksRead) = IF bufNo = 1 THEN 0 ELSE bufNo - 2
  /\ ChunksAreThose

ReadInv ==
  /\ phase \in {"create", "write", "open"} => NotRead
  /\ phase \in {"header", "read"} /\ ~Leftover => Reading
  /\ phase = "ok" /\ ~Leftover => ChunksAreThose

\* Where the files begin and end in the output.
LEMMA FileFacts ==
  ASSUME SplitInv, LayoutInv, Finished
  PROVE  /\ payload \in Payloads /\ split \in Splits
         /\ outIndex \in Nat /\ outIndex <= Len(split) /\ outIndex \in Indices
         /\ Written \in Seq(Units) /\ Len(Written) \in Nat
         /\ FileStart(0) = 0
         /\ \A i \in 0..outIndex : /\ files[i] \in Seq(Units) /\ Len(files[i]) \in Nat
                                   /\ FileStart(i) \in Nat
                                   /\ FileStart(i) + Len(files[i]) \in 0..Len(Written)
                                   /\ files[i] = SubSeq(Written, FileStart(i) + 1,
                                                        FileStart(i) + Len(files[i]))
         /\ \A i \in 0..(outIndex - 1) : /\ FileStart(i + 1) = FileStart(i) + Len(files[i])
                                         /\ Len(files[i]) = split[i + 1]
         /\ FileStart(outIndex) + Len(files[outIndex]) = Len(Written)
  <1> DEFINE W == Written
  <1>1. /\ payload \in Payloads /\ split \in Splits /\ FilesOfRun /\ Pieces(Len(W))
        /\ outIndex \in Nat /\ outIndex <= Len(split) /\ outIndex \in Indices
        /\ W \in Seq(Units) /\ Len(W) \in Nat /\ split \in Seq(Nat)
    BY InputFacts, BufferFacts DEF SplitInv, LayoutInv, FilesOfRun, Indices
  <1>2. /\ \A i \in 0..outIndex : /\ FileStart(i) \in 0..Len(W) /\ FileStart(i) \in Nat
                                  /\ files[i] \in Seq(Units) /\ Len(files[i]) \in Nat
        /\ FileStart(0) = 0
    <2>1. \A i \in 0..outIndex : i \in 0..Len(split)
      BY <1>1
    <2>2. FileStart(0) = 0 /\ \A i \in 0..outIndex : FileStart(i) \in Nat
      BY <1>1, <2>1, SumFacts DEF FileStart
    <2>3. \A i \in 0..outIndex : FileStart(i) <= Len(W) /\ files[i] \in Seq(Units)
      BY <1>1 DEF Pieces, FilesOfRun
    <2> QED BY <1>1, <2>2, <2>3
  <1>3. \A i \in 0..(outIndex - 1) : /\ FileStart(i + 1) = FileStart(i) + Len(files[i])
                                     /\ Len(files[i]) = split[i + 1]
                                     /\ files[i] = SubSeq(W, FileStart(i) + 1, FileStart(i + 1))
                                     /\ i + 1 \in 0..outIndex /\ i \in 0..outIndex
    <2> TAKE i \in 0..(outIndex - 1)
    <2>1. i \in 0..(Len(split) - 1) /\ i + 1 \in 0..outIndex /\ i \in 0..outIndex
      BY <1>1
    <2>2. FileStart(i + 1) = FileStart(i) + split[i + 1]
      BY <1>1, <2>1, SumStep DEF FileStart
    <2> QED BY <1>1, <2>1, <2>2 DEF FilesOfRun, Pieces
  <1>4. /\ files[outIndex] = SubSeq(W, FileStart(outIndex) + 1, Len(W))
        /\ FileStart(outIndex) \in 0..Len(W)
    <2>1. outIndex \in 0..outIndex
      BY <1>1
    <2> QED BY <1>1, <1>2, <2>1 DEF Pieces
  <1> HIDE DEF W
  <1>5. FileStart(outIndex) + Len(files[outIndex]) = Len(W)
    <2>1. PICK a \in 0..Len(W) : a = FileStart(outIndex)
      BY <1>4
    <2>2. Len(W) \in 0..Len(W)
      BY <1>1
    <2>3. Len(SubSeq(W, a + 1, Len(W))) = Len(W) - a
      <3>1. \A y \in 0..Len(W) : \A x \in 0..y : Len(SubSeq(W, x + 1, y)) = y - x
        BY ONLY <1>1, PieceFacts
      <3>2. a \in 0..Len(W)
        BY <2>1
      <3> QED BY ONLY <2>2, <3>1, <3>2
    <2>4. Len(files[outIndex]) = Len(W) - a
      BY <1>4, <2>1, <2>3
    <2>5. a \in Nat /\ Len(W) \in Nat /\ a = FileStart(outIndex)
      BY <1>1, <2>1
    <2> QED BY <2>4, <2>5
  <1>6. ASSUME NEW i \in 0..outIndex
        PROVE  /\ FileStart(i) + Len(files[i]) \in 0..Len(W)
               /\ files[i] = SubSeq(W, FileStart(i) + 1, FileStart(i) + Len(files[i]))
    <2>1. CASE i = outIndex
      <3>1. Len(W) \in 0..Len(W)
        BY <1>1
      <3> QED BY <1>4, <1>5, <2>1, <3>1
    <2>2. CASE i # outIndex
      <3>1. i \in 0..(outIndex - 1)
        BY <1>1, <2>2
      <3> QED BY <1>2, <1>3, <3>1
    <2> QED BY <2>1, <2>2
  <1> QED BY <1>1, <1>2, <1>3, <1>5, <1>6 DEF W

\* A piece of a file is a piece of the output.
LEMMA FilePiece ==
  ASSUME SplitInv, LayoutInv, Finished, NEW i \in 0..outIndex,
         NEW n \in 0..Len(files[i]), NEW m \in 0..n
  PROVE  /\ FileStart(i) + m \in 0..(FileStart(i) + n) /\ FileStart(i) + n \in 0..Len(Written)
         /\ SubSeq(files[i], m + 1, n)
              = SubSeq(Written, (FileStart(i) + m) + 1, FileStart(i) + n)
  <1> DEFINE w == Written
             f == files[i]
             a == FileStart(i)
  <1>1. /\ w \in Seq(Units) /\ Len(f) \in Nat /\ a \in Nat /\ a + Len(f) \in 0..Len(w)
        /\ f = SubSeq(w, a + 1, a + Len(f))
    BY FileFacts
  <1>2. n \in 0..Len(f) /\ m \in 0..n
    OBVIOUS
  <1> HIDE DEF w, f, a
  <1>3. PICK d \in 0..Len(w) : d = a + Len(f)
    BY <1>1
  <1>4. a \in 0..d /\ n \in 0..(d - a) /\ f = SubSeq(w, a + 1, d)
    BY <1>1, <1>2, <1>3
  <1>5. SubSeq(SubSeq(w, a + 1, d), m + 1, n) = SubSeq(w, a + m + 1, a + n)
    BY <1>1, <1>2, <1>4, PieceOfPiece
  <1>6. a + m \in 0..(a + n) /\ a + n \in 0..Len(w)
    BY <1>1, <1>2
  <1> QED BY <1>4, <1>5, <1>6 DEF w, f, a

\* Without leftovers the files that are found are those of this run, and their
\* sizes add up to the size of the output.
LEMMA SeriesFacts ==
  ASSUME SplitInv, LayoutInv, Finished, ~Leftover
  PROVE  /\ SplitList = IF split = <<>> THEN <<>>
                                        ELSE [i \in 1..NWritten |-> Len(files[i - 1])]
         /\ split = <<>> => outIndex = 0
         /\ TotalSize = Len(Written)
         /\ SplitList = <<>> <=> split = <<>>
  <1>1. /\ outIndex \in Nat /\ outIndex <= Len(split) /\ outIndex < MaxFiles
        /\ NWritten = outIndex + 1 /\ split \in Seq(Nat) /\ Len(split) \in Nat /\ MaxFiles \in Nat
    BY FileFacts, InputFacts, SplitAssumption DEF SplitInv, FilesOfRun, NWritten, Indices
  <1>2. split = <<>> => outIndex = 0
    BY <1>1
  <1>3. ASSUME split # <<>>
        PROVE  SeriesLength = NWritten
    <2>1. \A i \in 0..outIndex : files[i] # NoFile
      BY FileFacts, SplitAssumption DEF Units
    <2>2. \A i \in Indices : i >= NWritten => files[i] = NoFile
      BY <1>3 DEF Leftover
    <2> DEFINE Is(n) == /\ \A i \in 0..(n - 1) : files[i] # NoFile
                        /\ n = MaxFiles \/ files[n] = NoFile
    <2>3. NWritten \in 0..MaxFiles /\ Is(NWritten)
      <3>1. NWritten \in 0..MaxFiles /\ NWritten - 1 = outIndex
        BY <1>1
      <3>2. NWritten = MaxFiles \/ files[NWritten] = NoFile
        BY <1>1, <2>2 DEF Indices
      <3> QED BY <2>1, <3>1, <3>2
    <2>4. ASSUME NEW n \in 0..MaxFiles, Is(n)
          PROVE  n = NWritten
      <3>1. CASE n < NWritten
        <4>1. n \in 0..outIndex /\ n # MaxFiles
          BY <1>1, <3>1
        <4> QED BY <2>1, <2>4, <4>1
      <3>2. CASE n > NWritten
        <4>1. NWritten \in 0..(n - 1) /\ NWritten \in Indices
          BY <1>1, <3>2 DEF Indices
        <4> QED BY <1>1, <2>2, <2>4, <4>1
      <3> QED BY <1>1, <3>1, <3>2
    <2>5. SeriesLength = CHOOSE n \in 0..MaxFiles : Is(n)
      BY DEF SeriesLength
    <2> HIDE DEF Is
    <2> QED BY <2>3, <2>4, <2>5
  <1>4. SplitList = IF split = <<>> THEN <<>> ELSE [i \in 1..NWritten |-> Len(files[i - 1])]
    BY <1>3 DEF SplitList
  <1>5. CASE split = <<>>
    <2>1. outIndex = 0 /\ FileStart(0) = 0
      BY <1>2, <1>5, FileFacts
    <2>2. Len(files[0]) \in Nat /\ 0 + Len(files[0]) = Len(Written)
      BY <1>1, <2>1, FileFacts
    <2>3. TotalSize = Len(Written)
      BY <1>5, <2>2 DEF TotalSize
    <2> QED BY <1>2, <1>4, <1>5, <2>3
  <1>6. CASE split # <<>>
    <2> DEFINE t == [i \in 1..NWritten |-> Len(files[i - 1])]
    <2>1. t \in Seq(Nat) /\ Len(t) = NWritten /\ t # <<>>
      <3>1. \A i \in 1..NWritten : i - 1 \in 0..outIndex
        BY <1>1
      <3>2. \A i \in 1..NWritten : Len(files[i - 1]) \in Nat
        <4>1. \A k \in 0..outIndex : Len(files[k]) \in Nat
          BY FileFacts
        <4> TAKE i \in 1..NWritten
        <4>2. i - 1 \in 0..outIndex
          BY <3>1
        <4> QED BY <4>1, <4>2, Zenon
      <3>3. NWritten \in Nat \ {0}
        BY <1>1
      <3>4. t \in Seq(Nat) /\ Len(t) = NWritten
        BY ONLY <3>2, <3>3
      <3>5. t # <<>>
        BY <3>3, <3>4
      <3> QED BY <3>4, <3>5
    <2>2. /\ \A i \in 1..outIndex : t[i] = split[i]
          /\ t[NWritten] = Len(files[outIndex])
      <3>1. \A i \in 1..outIndex : /\ i - 1 \in 0..(outIndex - 1) /\ (i - 1) + 1 = i
                                   /\ i \in 1..NWritten
        BY <1>1
      <3>2. \A i \in 1..outIndex : Len(files[i - 1]) = split[i]
        <4> TAKE i \in 1..outIndex
        <4>1. Len(files[i - 1]) = split[(i - 1) + 1]
          BY <3>1, FileFacts
        <4> QED BY <3>1, <4>1
      <3>3. NWritten \in 1..NWritten /\ NWritten - 1 = outIndex
        BY <1>1
      <3> QED BY <3>1, <3>2, <3>3
    <2> HIDE DEF t
    <2>3. SumTo(t, outIndex) = FileStart(outIndex)
      <3>1. outIndex \in 0..Len(t) /\ outIndex \in 0..Len(split)
        BY <1>1, <2>1
      <3>2. /\ SubSeq(t, 1, outIndex) \in Seq(Nat) /\ SubSeq(split, 1, outIndex) \in Seq(Nat)
            /\ Len(SubSeq(t, 1, outIndex)) = outIndex
            /\ Len(SubSeq(split, 1, outIndex)) = outIndex
            /\ \A i \in 1..outIndex : SubSeq(t, 1, outIndex)[i] = t[i]
            /\ \A i \in 1..outIndex : SubSeq(split, 1, outIndex)[i] = split[i]
        BY <1>1, <2>1, <3>1, FirstElements
      <3>3. SubSeq(t, 1, outIndex) = SubSeq(split, 1, outIndex)
        BY <2>2, <3>2, SeqEqual
      <3> QED BY <3>3 DEF SumTo, FileStart
    <2>4. SumTo(t, NWritten) = SumTo(t, outIndex) + t[NWritten]
      <3>1. outIndex \in 0..(Len(t) - 1)
        BY <1>1, <2>1
      <3>2. SumTo(t, outIndex + 1) = SumTo(t, outIndex) + t[outIndex + 1]
        BY <2>1, <3>1, SumStep
      <3> QED BY <1>1, <3>2
    <2>5. SumTo(t, NWritten) = SumOf(t)
      BY <2>1, SubSeqFull DEF SumTo
    <2>6. TotalSize = SumOf(t)
      BY <1>4, <1>6 DEF TotalSize, t
    <2>7. SumOf(t) = Len(Written)
      BY <2>2, <2>3, <2>4, <2>5, FileFacts
    <2> QED BY <1>2, <1>4, <1>6, <2>1, <2>6, <2>7 DEF t
  <1> QED BY <1>5, <1>6

\* input_sizes finds the size of the next chunk, and whether it is the last one.
LEMMA NextSizes ==
  ASSUME payload \in Payloads, split \in Splits, NEW b \in 1..(NBuffers - 1),
         remaining = Len(Written) - Ends(b)
  PROVE  InputSizes = [size |-> SizeOf(b + 1), final |-> (b + 1 = NBuffers)]
  <1> DEFINE last == payload[Len(payload)]
  <1>1. /\ payload \in Seq(Nat) /\ Len(payload) \in Nat \ {0} /\ NBuffers = Len(payload) + 1
        /\ \A i \in 1..(Len(payload) - 1) : payload[i] = ChunkSize
        /\ last \in Overhead..ChunkSize
        /\ Overhead \in Nat \ {0} /\ ChunkSize \in Nat
    <2>1. payload \in Seq(Nat) /\ payload # <<>>
      BY SplitAssumption
    <2>2. Len(payload) \in Nat \ {0}
      BY <2>1
    <2>3. Last(payload) = last
      BY DEF Last
    <2> QED BY <2>1, <2>2, <2>3, SplitAssumption DEF NBuffers
  <1>2. /\ \A c \in 0..NBuffers : Ends(c) \in Nat
        /\ \A c \in 1..NBuffers : Ends(c) = Ends(c - 1) + SizeOf(c)
        /\ Ends(NBuffers) = Len(Written)
    <2>1. \A c \in 0..NBuffers : Ends(c) \in 0..Len(Written)
      BY BufferFacts
    <2>2. \A c \in 0..NBuffers : Ends(c) \in Nat
      BY <2>1
    <2> QED BY <2>2, BufferFacts
  <1>3. /\ b + 1 \in 1..NBuffers /\ b + 1 # 1 /\ (b + 1) - 1 = b /\ b \in 1..Len(payload)
        /\ b \in 0..NBuffers /\ b + 1 \in 0..NBuffers
    BY <1>1
  <1>4. SizeOf(b + 1) = payload[b] /\ Ends(b + 1) = Ends(b) + payload[b]
    <2>1. SizeOf(b + 1) = payload[b]
      BY <1>3 DEF SizeOf
    <2>2. Ends(b + 1) = Ends((b + 1) - 1) + SizeOf(b + 1)
      BY <1>2, <1>3
    <2> QED BY <1>3, <2>1, <2>2
  <1> HIDE DEF last
  <1>5. CASE b + 1 = NBuffers
    <2>1. payload[b] = last
      BY <1>1, <1>3, <1>5 DEF last
    <2>2. remaining = last
      BY <1>1, <1>2, <1>3, <1>4, <1>5, <2>1
    <2>3. remaining <= ChunkSize
      BY <1>1, <2>2
    <2> QED BY <1>4, <1>5, <2>1, <2>2, <2>3 DEF InputSizes
  <1>6. CASE b + 1 # NBuffers
    <2>1. b \in 1..(Len(payload) - 1)
      BY <1>1, <1>3, <1>6
    <2>2. payload[b] = ChunkSize
      BY <1>1, <2>1
    <2>3. Len(Written) = Ends(NBuffers - 1) + last
      <3>1. NBuffers \in 1..NBuffers /\ NBuffers # 1 /\ NBuffers - 1 = Len(payload)
        BY <1>1
      <3>2. SizeOf(NBuffers) = last
        BY <3>1 DEF SizeOf, last
      <3>3. Ends(NBuffers) = Ends(NBuffers - 1) + SizeOf(NBuffers)
        BY <1>2, <3>1
      <3> QED BY <1>2, <3>2, <3>3
    <2>4. Ends(b + 1) <= Ends(NBuffers - 1)
      <3>1. Buffers \in Seq(Seq(Units)) /\ Len(Buffers) = NBuffers
        BY <1>1, InputFacts DEF Buffers
      <3>2. PICK m \in 0..Len(Buffers) : m = b + 1
        BY <1>3, <3>1
      <3>3. PICK n \in m..Len(Buffers) : n = NBuffers - 1
        BY <1>1, <1>3, <1>6, <3>1, <3>2
      <3>4. EndOf(Buffers, m) <= EndOf(Buffers, n)
        BY <3>1, <3>2, <3>3, EndsGrow
      <3> QED BY <3>2, <3>3, <3>4 DEF Ends
    <2>5. remaining > ChunkSize
      <3>1. PICK x \in Nat : x = Ends(b)
        BY <1>2, <1>3
      <3>2. PICK y \in Nat : y = Ends(NBuffers - 1)
        <4>1. NBuffers - 1 \in 0..NBuffers
          BY <1>1
        <4> QED BY <1>2, <4>1
      <3>3. last \in Nat /\ last > 0
        BY <1>1
      <3>4. x + ChunkSize <= y /\ remaining = (y + last) - x
        <4>1. Ends(b + 1) = x + ChunkSize
          BY <1>4, <2>2, <3>1
        <4>2. remaining = Len(Written) - x /\ Len(Written) = y + last
          BY <2>3, <3>1, <3>2
        <4> QED BY <2>4, <3>2, <4>1, <4>2
      <3> QED BY <1>1, <3>3, <3>4
    <2>6. remaining \in Int
      <3>1. Len(Written) \in Nat /\ Ends(b) \in Nat
        BY <1>2, <1>3, BufferFacts
      <3> QED BY <3>1
    <2>7. ~(remaining <= ChunkSize)
      BY <1>1, <2>5, <2>6
    <2> QED BY <1>4, <1>6, <2>2, <2>7 DEF InputSizes
  <1> QED BY <1>5, <1>6

\* The files and what was written do not change while they are read.
LEMMA SameFiles ==
  ASSUME UNCHANGED <<payload, split, files, outIndex, outFile>>
  PROVE  /\ Leftover' = Leftover /\ SplitList' = SplitList /\ TotalSize' = TotalSize
         /\ \A k : Sealed(k)' = Sealed(k)
  BY DEF Leftover, SplitList, SeriesLength, TotalSize, Sealed, Buffer, SizeOf, NWritten

LEMMA OpenRead ==
  ASSUME SplitInv, LayoutInv, ReadInv, OpenInput
  PROVE  ReadInv'
  <1>1. /\ phase = "open" /\ inSplit' = SplitList /\ bufLen' = HeaderSize /\ bufNo' = 1
        /\ bufEnd' = 0 /\ phase' \in {"header", "err"}
        /\ phase' = "header" => remaining' = TotalSize - HeaderSize
        /\ UNCHANGED <<payload, split, files, outIndex, outFile>>
        /\ UNCHANGED <<inIndex, inCount, bufIn, chunksRead>>
    BY DEF OpenInput, Fail, setup, outVars
  <1>2. NotRead /\ Finished
    BY <1>1 DEF ReadInv, Finished
  <1>3. ASSUME phase' = "header", ~Leftover
        PROVE  Reading'
    <2>1. /\ payload \in Payloads /\ split \in Splits /\ Written \in Seq(Units)
          /\ outIndex \in Nat /\ FileStart(0) = 0
          /\ Len(files[0]) \in Nat /\ Len(files[outIndex]) \in Nat /\ TotalSize = Len(Written)
      <3>1. outIndex \in Nat
        BY <1>2, FileFacts
      <3>2. 0 \in 0..outIndex /\ outIndex \in 0..outIndex
        BY <3>1
      <3> QED BY <1>2, <1>3, <3>2, FileFacts, SeriesFacts
    <2>2. /\ NBuffers \in Nat /\ 1 \in 1..NBuffers /\ Ends(0) = 0 /\ SizeOf(1) = HeaderSize
          /\ Ends(1) = HeaderSize /\ HeaderSize \in Nat
      <3>1. NBuffers \in Nat /\ 1 \in 1..NBuffers /\ 1 - 1 = 0
        BY <2>1, InputFacts
      <3>2. SizeOf(1) = HeaderSize /\ HeaderSize \in Nat
        BY SplitAssumption DEF SizeOf
      <3>3. Ends(0) = 0 /\ Ends(1) = Ends(1 - 1) + SizeOf(1)
        BY <2>1, <3>1, BufferFacts
      <3> QED BY <3>1, <3>2, <3>3
    <2>3. Position' = 0 /\ Ends(bufNo - 1)' = 0 /\ Ends(bufNo)' = HeaderSize
      BY <1>1, <2>2, SameOutput DEF Position, Ends
    <2>4. SubSeq(Written, 0 + 1, 0) = <<>>
      BY <2>1, FirstElements
    <2>5. /\ bufNo' \in 1..NBuffers' /\ (phase' = "header" <=> bufNo' = 1)
          /\ inSplit' = SplitList'
          /\ bufLen' = SizeOf(bufNo)' /\ bufEnd' \in 0..bufLen'
          /\ remaining' = Len(Written') - Ends(bufNo)'
      <3>1. NBuffers' = NBuffers /\ SizeOf(bufNo)' = SizeOf(1) /\ Written' = Written
        BY <1>1, SameOutput DEF SizeOf
      <3> QED BY <1>1, <1>3, <2>1, <2>2, <2>3, <3>1, SameFiles
    <2>6. /\ bufIn' = SubSeq(Written', Ends(bufNo - 1)' + 1, Position')
      BY <1>1, <1>2, <2>3, <2>4, SameOutput DEF NotRead
    <2>7. /\ inIndex' \in 0..outIndex' /\ inCount' \in 0..Len(files'[inIndex'])
          /\ FileStart(inIndex)' + inCount' = Position'
      <3>1. FileStart(inIndex)' = FileStart(0)
        BY <1>1, <1>2 DEF NotRead, FileStart
      <3> QED BY <1>1, <1>2, <2>1, <2>3, <3>1 DEF NotRead
    <2>8. /\ chunksRead' \in Seq(Chunks) /\ Len(chunksRead') = 0 /\ ChunksAreThose'
      BY <1>1, <1>2 DEF NotRead, ChunksAreThose
    <2>9. phase' # "read"
      BY <1>3
    <2> QED BY <1>1, <2>5, <2>6, <2>7, <2>8, <2>9 DEF Reading
  <1> QED BY <1>1, <1>3, SameFiles DEF ReadInv

\* An iteration of read_files takes the units that come next in the output.
LEMMA LoopRead ==
  ASSUME SplitInv, LayoutInv, ReadInv, ReadLoop
  PROVE  ReadInv'
  <1> DEFINE next  == inSplit # <<>> /\ inCount = inSplit[inIndex + 1]
             index == IF next THEN inIndex + 1 ELSE inIndex
             count == IF next THEN 0 ELSE inCount
             left  == IF inSplit = <<>> THEN bufLen - bufEnd ELSE inSplit[index + 1] - count
             n     == Lesser(bufLen - bufEnd, left)
             W     == Written
             p     == Position
  <1>1. /\ phase \in {"header", "read"} /\ bufEnd < bufLen
        /\ inIndex' = index /\ inCount' = count + n
        /\ bufIn' = bufIn \o SubSeq(files[index], count + 1, count + n)
        /\ bufEnd' = bufEnd + n
        /\ UNCHANGED <<payload, split, files, phase, bufNo, outIndex, outFile>>
        /\ UNCHANGED <<inSplit, remaining, bufLen, final, chunksRead>>
    BY DEF ReadLoop, setup, outVars
  <1>2. Finished
    BY <1>1 DEF Finished
  <1>3. ASSUME ~Leftover
        PROVE  Reading'
    <2>1. Reading
      BY <1>1, <1>3 DEF ReadInv
    <2>2. /\ payload \in Payloads /\ split \in Splits /\ outIndex \in Nat /\ W \in Seq(Units)
          /\ Len(W) \in Nat /\ inSplit = SplitList
          /\ inSplit = IF split = <<>> THEN <<>> ELSE [i \in 1..NWritten |-> Len(files[i - 1])]
          /\ split = <<>> => outIndex = 0
          /\ NWritten = outIndex + 1
      <3>1. NWritten = outIndex + 1
        BY <1>2 DEF SplitInv, FilesOfRun, NWritten
      <3> QED BY <1>2, <1>3, <2>1, <3>1, FileFacts, SeriesFacts DEF Reading
    <2>3. inSplit = <<>> <=> split = <<>>
      BY <1>2, <1>3, <2>2, SeriesFacts
    <2>4. /\ bufNo \in 1..NBuffers /\ NBuffers \in Nat
          /\ bufLen = SizeOf(bufNo) /\ bufLen \in Nat /\ bufEnd \in Nat /\ bufEnd < bufLen
          /\ Ends(bufNo - 1) \in Nat /\ Ends(bufNo) = Ends(bufNo - 1) + bufLen
          /\ Ends(bufNo) \in 0..Len(W) /\ p = Ends(bufNo - 1) + bufEnd
          /\ p \in Nat /\ p < Len(W)
      <3>1. bufNo \in 1..NBuffers /\ NBuffers \in Nat /\ bufLen = SizeOf(bufNo) /\ bufLen \in Nat
        BY <2>1, <2>2, InputFacts DEF Reading
      <3>2. bufEnd \in Nat /\ bufEnd < bufLen
        <4>1. bufEnd \in 0..bufLen
          BY <2>1 DEF Reading
        <4> QED BY <1>1, <3>1, <4>1
      <3>3. /\ Ends(bufNo - 1) \in 0..Len(W) /\ Ends(bufNo) = Ends(bufNo - 1) + bufLen
            /\ Ends(bufNo) \in 0..Len(W)
        <4>1. bufNo - 1 \in 0..NBuffers /\ bufNo \in 0..NBuffers
          BY <3>1
        <4> QED BY <2>2, <3>1, <4>1, BufferFacts
      <3>4. PICK e \in Nat : e = Ends(bufNo - 1)
        BY <3>3
      <3>5. PICK l \in Nat : l = Len(W)
        BY <2>2
      <3>6. p = e + bufEnd /\ e + bufLen <= l
        BY <3>3, <3>4, <3>5 DEF Position
      <3>7. p \in Nat /\ p < l
        BY <3>1, <3>2, <3>4, <3>5, <3>6
      <3> QED BY <3>1, <3>2, <3>3, <3>4, <3>5, <3>7 DEF Position
    <2>5. /\ inIndex \in 0..outIndex /\ inCount \in 0..Len(files[inIndex]) /\ inCount \in Nat
          /\ FileStart(inIndex) \in Nat /\ FileStart(inIndex) + inCount = p
      <3>1. inIndex \in 0..outIndex /\ inCount \in 0..Len(files[inIndex])
            /\ FileStart(inIndex) + inCount = p
        BY <2>1 DEF Reading
      <3>2. FileStart(inIndex) \in Nat /\ Len(files[inIndex]) \in Nat
        BY <1>2, <3>1, FileFacts
      <3> QED BY <3>1, <3>2
    <2> HIDE DEF W, p
    <2>6. split # <<>> => \A i \in 0..outIndex : inSplit[i + 1] = Len(files[i])
      <3> SUFFICES ASSUME split # <<>>, NEW i \in 0..outIndex
                   PROVE  inSplit[i + 1] = Len(files[i])
        OBVIOUS
      <3>1. i + 1 \in 1..NWritten /\ (i + 1) - 1 = i
        BY <2>2
      <3> QED BY <2>2, <3>1
    <2>7. next => inIndex < outIndex /\ inCount = Len(files[inIndex])
      <3> SUFFICES ASSUME next
                   PROVE  inIndex < outIndex /\ inCount = Len(files[inIndex])
        OBVIOUS
      <3>1. inCount = Len(files[inIndex])
        BY <2>3, <2>5, <2>6
      <3>2. inIndex # outIndex
        <4>1. FileStart(outIndex) + Len(files[outIndex]) = Len(W)
          BY <1>2, FileFacts DEF W
        <4> QED BY <2>2, <2>4, <2>5, <3>1, <4>1
      <3>3. inIndex < outIndex
        BY <2>2, <2>5, <3>2
      <3> QED BY <3>1, <3>3
    <2>8. /\ index \in 0..outIndex /\ count \in 0..Len(files[index]) /\ count \in Nat
          /\ Len(files[index]) \in Nat
          /\ FileStart(index) \in Nat /\ FileStart(index) + count = p
          /\ split # <<>> => left = Len(files[index]) - count
      <3>1. CASE next
        <4>1. /\ index = inIndex + 1 /\ count = 0 /\ inIndex \in 0..(outIndex - 1)
              /\ index \in 0..outIndex
          <5>1. index = inIndex + 1 /\ count = 0
            BY <3>1
          <5>2. inIndex < outIndex
            BY <2>7, <3>1
          <5> HIDE DEF index, count, next
          <5> QED BY <2>2, <2>5, <5>1, <5>2
        <4>2. FileStart(inIndex + 1) = FileStart(inIndex) + Len(files[inIndex])
          BY <1>2, <4>1, FileFacts
        <4>3. Len(files[index]) \in Nat /\ FileStart(index) \in Nat
          BY <1>2, <4>1, FileFacts
        <4>4. split # <<>> => left = Len(files[index]) - count
          BY <2>3, <2>6, <4>1
        <4> HIDE DEF index, count, left, next
        <4>5. FileStart(index) = FileStart(inIndex) + inCount
          BY <2>7, <3>1, <4>1, <4>2
        <4>6. FileStart(index) + count = p /\ count \in 0..Len(files[index])
          BY <2>5, <4>1, <4>3, <4>5
        <4> QED BY <4>1, <4>3, <4>4, <4>6
      <3>2. CASE ~next
        <4>1. index = inIndex /\ count = inCount
          BY <3>2
        <4>2. Len(files[inIndex]) \in Nat
          BY <1>2, <2>5, FileFacts
        <4>3. split # <<>> => left = Len(files[index]) - count
          BY <2>3, <2>5, <2>6, <4>1
        <4> HIDE DEF index, count, left, next
        <4> QED BY <2>5, <4>1, <4>2, <4>3
      <3> QED BY <3>1, <3>2
    <2>9. split = <<>> => left = bufLen - bufEnd
      BY <2>3
    <2> HIDE DEF index, count, left, next
    <2>10. n \in Nat /\ n <= bufLen - bufEnd /\ count + n <= Len(files[index])
      <3>1. PICK room \in Nat : room = bufLen - bufEnd
        BY <2>4
      <3>2. CASE split # <<>>
        <4>1. left \in Nat /\ count + left = Len(files[index])
          BY <2>8, <3>2
        <4>2. n = Lesser(room, left)
          BY <3>1
        <4> HIDE DEF n
        <4>3. \/ n = room /\ room < left
              \/ n = left /\ left <= room
          BY <3>1, <4>1, <4>2, LesserFacts
        <4> QED BY <2>8, <3>1, <4>1, <4>3
      <3>3. CASE split = <<>>
        <4>1. n = bufLen - bufEnd
          BY <2>9, <3>3 DEF Lesser
        <4>2. index = outIndex /\ FileStart(outIndex) + Len(files[outIndex]) = Len(W)
          BY <1>2, <2>2, <2>8, <3>3, FileFacts DEF W
        <4>3. p + room = Ends(bufNo)
          BY <2>4, <3>1
        <4>4. PICK f \in Nat : f = FileStart(index)
          BY <2>8
        <4>5. PICK m \in Nat : m = Len(files[index])
          BY <2>8
        <4>6. f + m = Len(W) /\ f + count = p /\ p + room <= Len(W) /\ count \in Nat
          BY <2>4, <2>8, <4>2, <4>3, <4>4, <4>5
        <4>7. PICK l \in Nat : l = Len(W)
          BY <2>2
        <4>8. count + room <= m
          BY <3>1, <4>4, <4>5, <4>6, <4>7
        <4> HIDE DEF n
        <4> QED BY <3>1, <4>1, <4>5, <4>8
      <3> QED BY <3>2, <3>3
    <2> HIDE DEF n
    <2>11. /\ SubSeq(files[index], count + 1, count + n) = SubSeq(W, p + 1, p + n)
           /\ p + n \in 0..Len(W) /\ p \in 0..(p + n)
      <3>1. PICK k \in 0..Len(files[index]) : k = count + n
        BY <2>8, <2>10
      <3>2. count \in 0..k
        BY <2>8, <2>10, <3>1
      <3>3. /\ FileStart(index) + k \in 0..Len(W)
            /\ SubSeq(files[index], count + 1, k)
                 = SubSeq(W, (FileStart(index) + count) + 1, FileStart(index) + k)
        BY <1>2, <2>8, <3>1, <3>2, FilePiece DEF W
      <3>4. FileStart(index) + k = p + n /\ FileStart(index) + count = p
        <4>1. PICK f \in Nat : f = FileStart(index)
          BY <2>8
        <4> QED BY <2>8, <2>10, <3>1, <4>1
      <3>5. SubSeq(files[index], count + 1, count + n) = SubSeq(W, p + 1, p + n)
        BY <3>1, <3>3, <3>4, Zenon
      <3>6. p + n \in 0..Len(W)
        BY <3>3, <3>4
      <3>7. p \in 0..(p + n)
        BY <2>4, <2>10
      <3> QED BY <3>5, <3>6, <3>7
    <2>12. bufIn' = SubSeq(W, Ends(bufNo - 1) + 1, p + n)
      <3>1. bufIn = SubSeq(W, Ends(bufNo - 1) + 1, p)
        BY <2>1 DEF Reading, W, p
      <3>2. Ends(bufNo - 1) \in 0..p
        BY <2>4
      <3>3. PICK c \in 0..Len(W) : c = p + n
        BY <2>11
      <3>4. PICK a \in 0..p : a = Ends(bufNo - 1)
        BY <3>2
      <3>5. p \in 0..c
        BY <2>11, <3>3
      <3>6. SubSeq(W, a + 1, p) \o SubSeq(W, p + 1, c) = SubSeq(W, a + 1, c)
        BY <2>2, <3>3, <3>4, <3>5, AppendPiece
      <3> QED BY <1>1, <2>11, <3>1, <3>3, <3>4, <3>6
    <2>13. /\ Position' = p + n /\ Ends(bufNo - 1)' = Ends(bufNo - 1) /\ Ends(bufNo)' = Ends(bufNo)
      <3>1. Buffers' = Buffers
        BY <1>1, SameOutput
      <3>2. Position' = Ends(bufNo - 1) + (bufEnd + n)
        BY <1>1, <3>1 DEF Position, Ends
      <3>3. Ends(bufNo - 1) + (bufEnd + n) = p + n
        BY <2>4, <2>10
      <3>4. Ends(bufNo - 1)' = Ends(bufNo - 1) /\ Ends(bufNo)' = Ends(bufNo)
        BY <1>1, <3>1 DEF Ends
      <3> QED BY <3>2, <3>3, <3>4
    <2>14. /\ bufNo' \in 1..NBuffers' /\ (phase' = "header" <=> bufNo' = 1)
           /\ inSplit' = SplitList'
           /\ bufLen' = SizeOf(bufNo)' /\ bufEnd' \in 0..bufLen'
           /\ remaining' = Len(Written') - Ends(bufNo)'
           /\ phase' = "read" => final' = (bufNo' = NBuffers')
      <3>1. NBuffers' = NBuffers /\ SizeOf(bufNo)' = SizeOf(bufNo) /\ Written' = Written
        BY <1>1, SameOutput DEF SizeOf
      <3>2. bufEnd' \in 0..bufLen
        BY <1>1, <2>4, <2>10
      <3> QED BY <1>1, <2>1, <2>13, <3>1, <3>2, SameFiles DEF Reading
    <2>15. bufIn' = SubSeq(Written', Ends(bufNo - 1)' + 1, Position')
      BY <1>1, <2>12, <2>13, SameOutput DEF W
    <2>16. /\ inIndex' \in 0..outIndex' /\ inCount' \in 0..Len(files'[inIndex'])
           /\ FileStart(inIndex)' + inCount' = Position'
      <3>1. FileStart(inIndex)' = FileStart(index)
        BY <1>1 DEF FileStart
      <3>2. FileStart(index) + (count + n) = p + n
        BY <2>8, <2>10
      <3>3. count + n \in 0..Len(files[index])
        BY <2>8, <2>10
      <3> QED BY <1>1, <2>8, <2>13, <3>1, <3>2, <3>3
    <2>17. /\ chunksRead' \in Seq(Chunks) /\ ChunksAreThose'
           /\ Len(chunksRead') = IF bufNo' = 1 THEN 0 ELSE bufNo' - 2
      BY <1>1, <2>1, SameFiles DEF Reading, ChunksAreThose
    <2> QED BY <2>14, <2>15, <2>16, <2>17 DEF Reading
  <1> QED BY <1>1, <1>3, SameFiles DEF ReadInv

\* When the buffer is full it is the one that was written.
LEMMA BufferRead ==
  ASSUME SplitInv, LayoutInv, Finished, Reading, bufEnd = bufLen
  PROVE  /\ bufIn = Buffer(bufNo) /\ Position = Ends(bufNo)
         /\ bufIn \in Seq(Units) /\ Ends(bufNo) \in Nat /\ NBuffers \in Nat
         /\ NBuffers = Len(payload) + 1 /\ Len(payload) \in Nat \ {0}
         /\ Len(Written) \in Nat /\ Written \in Seq(Units)
         /\ remaining = Len(Written) - Ends(bufNo)
  <1>1. payload \in Payloads /\ split \in Splits /\ bufNo \in 1..NBuffers /\ bufLen = SizeOf(bufNo)
    BY FileFacts DEF Reading
  <1>2. /\ Ends(bufNo) = Ends(bufNo - 1) + SizeOf(bufNo) /\ Ends(bufNo) \in 0..Len(Written)
        /\ Buffer(bufNo) = SubSeq(Written, Ends(bufNo - 1) + 1, Ends(bufNo))
        /\ Len(Written) \in Nat /\ Written \in Seq(Units)
    <2>1. bufNo \in 0..NBuffers
      BY <1>1, InputFacts
    <2> QED BY <1>1, <2>1, BufferFacts
  <1>3. Position = Ends(bufNo)
    BY <1>1, <1>2 DEF Position
  <1>4. bufIn = Buffer(bufNo)
    BY <1>2, <1>3 DEF Reading
  <1>5. NBuffers = Len(payload) + 1 /\ Len(payload) \in Nat \ {0}
    <2>1. payload \in Seq(Nat) /\ payload # <<>>
      BY <1>1, SplitAssumption
    <2> QED BY <2>1 DEF NBuffers
  <1>6. bufIn \in Seq(Units) /\ NBuffers \in Nat
    BY <1>1, <1>4, InputFacts
  <1>7. remaining = Len(Written) - Ends(bufNo)
    BY DEF Reading
  <1>8. Ends(bufNo) \in Nat
    BY <1>2
  <1> QED BY <1>2, <1>3, <1>4, <1>5, <1>6, <1>7, <1>8

\* The next chunk begins where the buffer before it ended.
LEMMA ChunkBegins ==
  ASSUME SplitInv, LayoutInv, Finished, ~Leftover, Reading, bufEnd = bufLen,
         bufNo # NBuffers, NextChunk, phase' = "read",
         UNCHANGED <<payload, split, files, outIndex, outFile, inSplit, inIndex, inCount>>,
         chunksRead' \in Seq(Chunks), Len(chunksRead') = bufNo - 1, ChunksAreThose'
  PROVE  Reading'
  <1>1. /\ bufNo \in 1..(NBuffers - 1) /\ NBuffers \in Nat
        /\ payload \in Payloads /\ split \in Splits
        /\ Position = Ends(bufNo) /\ Ends(bufNo) \in Nat /\ Written \in Seq(Units)
        /\ remaining = Len(Written) - Ends(bufNo) /\ Len(Written) \in Nat
    <2>1. /\ NBuffers \in Nat /\ Position = Ends(bufNo) /\ Ends(bufNo) \in Nat
          /\ Written \in Seq(Units) /\ remaining = Len(Written) - Ends(bufNo)
          /\ Len(Written) \in Nat
      BY BufferRead
    <2>2. bufNo \in 1..NBuffers
      BY DEF Reading
    <2>3. bufNo \in 1..(NBuffers - 1)
      BY <2>1, <2>2
    <2> QED BY <2>1, <2>3, FileFacts
  <1>2. InputSizes = [size |-> SizeOf(bufNo + 1), final |-> (bufNo + 1 = NBuffers)]
    BY <1>1, NextSizes
  <1>3. /\ bufLen' = SizeOf(bufNo + 1) /\ final' = (bufNo + 1 = NBuffers)
        /\ remaining' = remaining - SizeOf(bufNo + 1)
        /\ bufNo' = bufNo + 1 /\ bufEnd' = 0 /\ bufIn' = <<>>
    BY <1>2 DEF NextChunk
  <1>4. /\ bufNo + 1 \in 1..NBuffers /\ bufNo + 1 # 1 /\ (bufNo + 1) - 1 = bufNo
        /\ (bufNo + 1) - 2 = bufNo - 1
    BY <1>1
  <1>5. /\ SizeOf(bufNo + 1) \in Nat /\ Ends(bufNo + 1) = Ends(bufNo) + SizeOf(bufNo + 1)
    <2>1. SizeOf(bufNo + 1) \in Nat
      BY <1>1, <1>4, InputFacts
    <2>2. Ends(bufNo + 1) = Ends((bufNo + 1) - 1) + SizeOf(bufNo + 1)
      BY <1>1, <1>4, BufferFacts
    <2> QED BY <1>4, <2>1, <2>2
  <1>6. remaining' = Len(Written) - Ends(bufNo + 1)
    BY <1>1, <1>3, <1>5
  <1>7. /\ NBuffers' = NBuffers /\ Written' = Written /\ SizeOf(bufNo)' = SizeOf(bufNo + 1)
        /\ Ends(bufNo)' = Ends(bufNo + 1) /\ Ends(bufNo - 1)' = Ends(bufNo)
        /\ Position' = Position
    <2>1. Buffers' = Buffers /\ NBuffers' = NBuffers /\ Written' = Written
      BY SameOutput
    <2>2. SizeOf(bufNo)' = SizeOf(bufNo + 1)
      BY <1>3 DEF SizeOf
    <2>3. Ends(bufNo)' = Ends(bufNo + 1) /\ Ends(bufNo - 1)' = Ends(bufNo)
      BY <1>3, <1>4, <2>1 DEF Ends
    <2>4. Position' = Ends(bufNo) + 0
      BY <1>3, <1>4, <2>1 DEF Position, Ends
    <2> QED BY <1>1, <2>1, <2>2, <2>3, <2>4
  <1>8. /\ bufNo' \in 1..NBuffers' /\ (phase' = "header" <=> bufNo' = 1)
        /\ bufLen' = SizeOf(bufNo)' /\ bufEnd' \in 0..bufLen'
        /\ remaining' = Len(Written') - Ends(bufNo)'
        /\ final' = (bufNo' = NBuffers')
    BY <1>3, <1>4, <1>5, <1>6, <1>7
  <1>9. bufIn' = SubSeq(Written', Ends(bufNo - 1)' + 1, Position')
    <2>1. PICK b \in 0..Len(Written) : b = Ends(bufNo)
      <3>1. bufNo \in 0..NBuffers
        BY <1>1
      <3> QED BY <1>1, <3>1, BufferFacts
    <2>2. b \in 0..b /\ b = b
      BY <2>1
    <2>3. SubSeq(Written, b + 1, b) = <<>>
      BY <1>1, <2>1, <2>2, PieceFacts
    <2> QED BY <1>1, <1>3, <1>7, <2>1, <2>3
  <1>10. /\ inSplit' = SplitList'
         /\ inIndex' \in 0..outIndex' /\ inCount' \in 0..Len(files'[inIndex'])
         /\ FileStart(inIndex)' + inCount' = Position'
    BY <1>7, SameFiles DEF Reading, FileStart
  <1>11. Len(chunksRead') = IF bufNo' = 1 THEN 0 ELSE bufNo' - 2
    BY <1>3, <1>4
  <1> QED BY <1>8, <1>9, <1>10, <1>11 DEF Reading

LEMMA HeaderStep ==
  ASSUME SplitInv, LayoutInv, ReadInv, HeaderRead
  PROVE  ReadInv'
  <1>1. /\ phase = "header" /\ bufEnd = bufLen /\ phase' \in {"read", "err"}
        /\ phase' = "read" => NextChunk
        /\ UNCHANGED <<payload, split, files, outIndex, outFile>>
        /\ UNCHANGED <<inSplit, inIndex, inCount, chunksRead>>
    BY DEF HeaderRead, Fail, setup, outVars
  <1>2. ASSUME phase' = "read", ~Leftover
        PROVE  Reading'
    <2>1. Reading /\ Finished
      BY <1>1, <1>2 DEF ReadInv, Finished
    <2>2. bufNo = 1 /\ bufNo # NBuffers
      BY <1>1, <2>1, BufferRead DEF Reading
    <2>3. chunksRead' \in Seq(Chunks) /\ Len(chunksRead') = bufNo - 1 /\ ChunksAreThose'
      BY <1>1, <2>1, <2>2, SameFiles DEF Reading, ChunksAreThose
    <2> QED BY <1>1, <1>2, <2>1, <2>2, <2>3, ChunkBegins
  <1> QED BY <1>1, <1>2, SameFiles DEF ReadInv

LEMMA ChunkStep ==
  ASSUME SplitInv, LayoutInv, ReadInv, ChunkRead
  PROVE  ReadInv'
  <1> DEFINE chunk == [units |-> bufIn, final |-> final]
  <1>1. /\ phase = "read" /\ bufEnd = bufLen /\ chunksRead' = Append(chunksRead, chunk)
        /\ final => phase' = "ok"
        /\ ~final => NextChunk /\ phase' = "read"
        /\ UNCHANGED <<payload, split, files, outIndex, outFile>>
        /\ UNCHANGED <<inSplit, inIndex, inCount>>
    BY DEF ChunkRead, setup, outVars
  <1>2. ASSUME ~Leftover
        PROVE  /\ Reading /\ Finished /\ final = (bufNo = NBuffers)
               /\ chunksRead' \in Seq(Chunks) /\ Len(chunksRead') = bufNo - 1
               /\ ChunksAreThose'
    <2>1. Reading /\ Finished
      BY <1>1, <1>2 DEF ReadInv, Finished
    <2>2. /\ final = (bufNo = NBuffers) /\ bufNo # 1 /\ bufNo \in 1..NBuffers
          /\ chunksRead \in Seq(Chunks) /\ Len(chunksRead) = bufNo - 2 /\ ChunksAreThose
      BY <1>1, <2>1 DEF Reading
    <2>3. /\ bufIn = Buffer(bufNo) /\ bufIn \in Seq(Units) /\ NBuffers \in Nat
          /\ NBuffers = Len(payload) + 1 /\ Len(payload) \in Nat
      BY <1>1, <2>1, BufferRead
    <2>4. PICK k \in Nat : k = bufNo - 1
      BY <2>2, <2>3
    <2>5. k + 1 = bufNo /\ k <= Len(payload) /\ (k = Len(payload) <=> bufNo = NBuffers)
      BY <2>2, <2>3, <2>4
    <2>6. chunk = Sealed(k)
      BY <2>2, <2>3, <2>5 DEF Sealed
    <2>7. chunk \in Chunks
      BY <2>2, <2>3 DEF Chunks
    <2> HIDE DEF chunk
    <2>8. /\ chunksRead' \in Seq(Chunks) /\ Len(chunksRead') = Len(chunksRead) + 1
          /\ \A i \in 1..Len(chunksRead) : chunksRead'[i] = chunksRead[i]
          /\ chunksRead'[Len(chunksRead) + 1] = chunk
      BY <1>1, <2>2, <2>7, AppendProperties
    <2>9. Len(chunksRead') = k /\ Len(chunksRead) + 1 = k
      BY <2>2, <2>3, <2>4, <2>8
    <2>10. \A i \in 1..k : i <= Len(payload) /\ chunksRead'[i] = Sealed(i)
      <3> TAKE i \in 1..k
      <3>1. CASE i = k
        BY <2>5, <2>6, <2>8, <2>9, <3>1
      <3>2. CASE i # k
        <4>1. i \in 1..Len(chunksRead)
          BY <2>9, <3>2
        <4> QED BY <2>2, <2>8, <4>1 DEF ChunksAreThose
      <3> QED BY <3>1, <3>2
    <2>11. ChunksAreThose'
      BY <1>1, <2>9, <2>10, SameFiles DEF ChunksAreThose
    <2> QED BY <2>1, <2>2, <2>4, <2>8, <2>9, <2>11
  <1>3. ASSUME phase' = "read", ~Leftover
        PROVE  Reading'
    <2>1. ~final
      BY <1>1, <1>3
    <2> QED BY <1>1, <1>2, <1>3, <2>1, ChunkBegins
  <1> QED BY <1>1, <1>2, <1>3, SameFiles DEF ReadInv

\* Writing reads nothing.
LEMMA OtherRead ==
  ASSUME ReadInv,
         \/ CreateOutput \/ WriteUnsplit \/ WriteLoop \/ WriteDone \/ FinishOutput
         \/ WriteError \/ UNCHANGED vars
  PROVE  ReadInv'
  <1>1. CASE CreateOutput \/ WriteUnsplit \/ WriteLoop \/ WriteDone \/ FinishOutput
    <2>1. /\ phase \in {"create", "write"} /\ phase' \in {"write", "open"}
          /\ UNCHANGED <<inIndex, inCount, bufIn, chunksRead>>
      BY <1>1 DEF CreateOutput, WriteUnsplit, WriteLoop, WriteDone, FinishOutput, inVars
    <2> QED BY <2>1 DEF ReadInv, NotRead
  <1>2. CASE WriteError
    <2>1. phase' = "err"
      BY <1>2 DEF WriteError, Fail
    <2> QED BY <2>1 DEF ReadInv
  <1>3. CASE UNCHANGED vars
    <2>1. UNCHANGED <<payload, split, files, phase, bufNo, bufEnd, outIndex, outFile>>
      BY <1>3 DEF vars, setup, outVars
    <2>2. UNCHANGED <<inSplit, inIndex, inCount, remaining, bufLen, final, bufIn, chunksRead>>
      BY <1>3 DEF vars, inVars
    <2>3. NotRead' = NotRead /\ Leftover' = Leftover /\ ChunksAreThose' = ChunksAreThose
      BY <2>1, <2>2, SameFiles DEF NotRead, ChunksAreThose
    <2>4. Reading' = Reading
      <3>1. /\ NBuffers' = NBuffers /\ SizeOf(bufNo)' = SizeOf(bufNo) /\ Written' = Written
            /\ Ends(bufNo)' = Ends(bufNo) /\ Ends(bufNo - 1)' = Ends(bufNo - 1)
            /\ Position' = Position /\ FileStart(inIndex)' = FileStart(inIndex)
            /\ SplitList' = SplitList
        BY <2>1, <2>2, SameOutput, SameFiles DEF SizeOf, Ends, Position, FileStart
      <3> QED BY <2>1, <2>2, <2>3, <3>1 DEF Reading
    <2> QED BY <2>1, <2>3, <2>4 DEF ReadInv
  <1> QED BY <1>1, <1>2, <1>3

LEMMA InitRead == Init => ReadInv
  BY DEF Init, ReadInv, NotRead

\* ReadInv is an invariant: the reader is in the files where it is in the output.
THEOREM ReadInvariance == Spec => []ReadInv
  <1>1. SplitInv /\ LayoutInv /\ ReadInv /\ [Next]_vars => ReadInv'
    BY OpenRead, LoopRead, HeaderStep, ChunkStep, OtherRead DEF Next, Stopped
  <1> QED BY <1>1, InitRead, SplitInvariance, LayoutInvariance, PTL DEF Spec

\* Decryption gets the chunks encryption wrote, in order and with the final flag
\* on the last one, however the files cut through them, when no file of an
\* earlier series follows the last one.
THEOREM RoundTripCorrect == Spec => []RoundTrip
  <1>1. ReadInv => RoundTrip
    BY DEF ReadInv, RoundTrip, Finished, NotRead, ChunksAreThose, Reading
  <1> QED BY <1>1, ReadInvariance, PTL
=============================================================================
