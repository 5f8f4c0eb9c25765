# cryptcrypt in TLA+

A specification of [cryptcrypt](../src/README.md), a program that encrypts and
decrypts files and directories in a pipeline of threads. The modules model the
code in `src/src/`, and TLC checks them on small instances. TLAPS proves the
central pipeline and compressed encryption correct for every number of threads,
every channel capacity and every input, the layout of the file header and of a
split series, and the reading of that series, for all sizes, and, for any number
of runs, what a run may change before it has the secrets and what a decryption
gives back. References like `common_io.rs:360` are to `src/src/`.

## 1. The system

A run of the program handles one file or one directory and ends. Its parts:

| Part | Source | State | Operations | Hard behaviours |
|---|---|---|---|---|
| **Chunk pipeline** | `common_io.rs` `CryptIo::io_chunks`, `encrypt_pipe`, `decrypt_pipe` | two bounded channels; the writer's `pending_chunks` and `write_index`; main's `chunk_count`; the workers' chunks in hand | read a chunk, send, crypt, send, reorder, write, join, report | workers overtake each other; any thread may fail at any step and its ends of channels close; full channels; errors are collected by joins in a fixed order |
| **Compressed encryption** | `encryption.rs` `compress_buffer`, `resegment`, `encrypt_pipe` | two more channels; `resegment`'s map, `buf_out`, new numbers and flags | compress, frame with a length, cut into equal segments, number anew | two reorderings in sequence; the final flag is given in two places; a closed channel has two meanings |
| **Compressed decryption** | `decryption.rs` `resegment`, `decrypt_pipe`, `decompress_buffer` | as above, with `compressed_chunk_len` | authenticate, reorder, parse frames, decompress | frames and length fields across segment borders; consequential errors |
| **Input and output files** | `common_io.rs` `ReadInput`, `WriteOutput` | open file, split list, index and count, checksums, remaining size | create, write across split files, compute sizes and final flag, read across split files | sizes of zero, borders, files of earlier runs |
| **Archive reading** | `archive.rs` `ArchiveRead` | walker's `hard_link_files`, path channel, one data channel per worker, `channel_index`, `channel_finished`, `buf_out` | walk, detect hard links, build headers, read file data, merge into one stream, join | several files are read at once into an unframed stream; workers die in the middle of a file; files change while they are read |
| **Archive writing** | `archive.rs` `ArchiveWrite` | `buf_out`, `header_length`, open file, `file_size`, sparse segments, late lists of links and times; the file system | parse, create, write, close, link, set times; or list | the stream is cut anywhere; entries come in any order; elements exist already; permissions and times interfere with later entries |
| **Whole runs** | `encryption.rs` `encrypt`, `decryption.rs` `decrypt`, `main.rs` | the files and directories on disk; within a run the password, the two pairs of ciphers, the header parameters | prepare the directory, ask for the secrets, read or write the header, create the output, run the pipeline; one run after another on what the last has left | what has been changed when a run is given up, refused or killed; the original is deleted after an Ok |
| **File header** | `create_header`, `get_unencrypted_header_items`, `get_encrypted_header_items` | – | write and read a fixed layout with optional fields | offsets are computed twice; which flag is believed when |
| **Keys** | `common.rs` `KeyBuilder`, `CryptMemory`, `PasswordReader`, FIDO | the password, the credential of the USB key | hash the key file, ask the USB key, derive the keys of header and body | the same secrets must go into the same keys years later; how long the password is kept |
| **Paths** | `set_paths`, `exclude_file`, the names in `WriteOutput` and `decrypt` | – | pure functions on paths | the output may lie in the directory that is archived; names of split files |
| **Command line** | `main.rs` | – | option parsing | – |

How they interact. `encrypt` and `decrypt` build a source (`ReadInput` or
`ArchiveRead`, trait `ReadChunk`) and a sink (`WriteOutput` or `ArchiveWrite`,
trait `WriteFiles`) and give them to `io_chunks` together with a function
(`encrypt_pipe` or `decrypt_pipe`) that starts the crypt threads:

    source --read_chunk--> main --channel--> crypt threads --channel--> writer --write_files--> sink

The source is called by the main thread, the sink by the writer thread; all the
rest is channels. A channel is closed when all of its senders, or all of its
receivers, are dropped, which happens when the threads that own them end: this
is the only way in which an end, or an error, is communicated. `io_chunks` then
joins the source's threads, the writer and the crypt threads, in this order, and
returns the first error. `encrypt` and `decrypt` do everything that needs the
secrets before: only then is the output created, the header written or skipped,
and the pipeline started. There is no state that survives a run except the
files: a run meets what the runs before have left, whole or not.

What makes each part correct:

* pipeline: the sink gets the processed chunks in the order of the input, none
  twice and none left out; Ok means that all of them were written; a decryption
  is Ok only for the sequence that was sealed; every run ends;
* compressed pipelines: the same for the framed stream, cut and parsed back;
* files: the split files are a partition of the output with the sizes that were
  asked for, and what is read back is what was written, with the final flag in
  its place;
* archive reading: entries do not mix, none is lost without an error, the
  stream is closed only when all workers have ended, a hard link is really one,
  and nothing but the output is left out silently;
* archive writing: what is extracted is what the archive says, wherever the
  stream is cut and in whatever order its entries come, and no file that
  existed is overwritten;
* header and keys: what is read is what was written; a complete file opens with
  the secrets it was encrypted with, and only with them;
* whole runs: no file is touched before the secrets are there; Ok of a
  decryption means the original, under its name; listing changes nothing; and
  whoever deletes only what was encrypted with Ok never loses data.

## 2. The modules

| Module | Models | Extends |
|---|---|---|
| `SequenceFacts` | lemmas on pieces of sequences, on joined ones, on channels, and induction on numbers | `Channels`, `TLAPS` |
| `OrderedStream` | the abstract promise of a run: pieces in order, Ok only at the end | |
| `IoChunks` | `io_chunks`: main thread, writer thread, the two channels | |
| `Sealing` | one encrypted chunk: content, number and final flag | |
| `CryptPipe` | the plain workers of `encrypt_pipe` and `decrypt_pipe` | `IoChunks`, `Sealing`, an instance of `OrderedStream` |
| `CryptPipeInvariant` | the inductive invariant | `CryptPipe` |
| `CryptPipeProofs` | theorems on `CryptPipe` | `CryptPipeInvariant`, `TLAPS` |
| `Framing` | the byte stream between compression and encryption | |
| `EncryptPipe` | compressed encryption | `IoChunks`, `Framing`, `Sealing` |
| `Channels` | the numbers of the messages in a channel | |
| `EncryptPipeInvariant` | the inductive invariant | `EncryptPipe`, `Channels` |
| `EncryptPipeProofs` | theorems on `EncryptPipe` | `EncryptPipeInvariant`, `SequenceFacts` |
| `DecryptPipe` | compressed decryption | `IoChunks`, `Framing`, `Sealing`, an instance of `OrderedStream` |
| `DecryptPipeInvariant` | the inductive invariant | `DecryptPipe`, `Channels` |
| `DecryptPipeProofs` | theorems on `DecryptPipe` | `DecryptPipeInvariant`, `SequenceFacts` |
| `SplitFiles` | `WriteOutput` and `ReadInput` over one series of files | |
| `SplitFilesProofs` | theorems on `SplitFiles`: sizes, checksums, layout, reading back | `SplitFiles`, `SequenceFacts` |
| `Paths` | names and extensions: output, split series, `exclude_file` | |
| `ArchiveFormat` | the archive stream: units of headers and data, messages of a worker | |
| `ArchiveRead` | walker, workers, `read_chunk`, `join_threads` | `ArchiveFormat`, an instance of `Paths` |
| `ArchiveReadProofs` | theorems on `ArchiveRead`: hard links, chunks, the stream and what is left out of it | `ArchiveRead`, `SequenceFacts` |
| `ArchiveWrite` | `write_files`, `eval_header`, `write_others`, a small file system | `ArchiveFormat` |
| `ArchiveWriteProofs` | theorems on `ArchiveWrite`: what is extracted, listed, refused and left alone | `ArchiveWrite`, `SequenceFacts` |
| `FileHeader` | the layout of the header, written and read | |
| `Keys` | which secrets and salts go into which key | |
| `Session` | whole runs, one after the other | `Paths`, `FileHeader`, `Keys` |
| `SessionProofs` | theorems on `FileHeader`, and on `Session`: what opens a file, what is done before, and what a decryption gives back | `Session`, `TLAPS` |
| `MC...` | the instances for TLC | the above |

### State and actions against the code

*Threads.* The program counter of a thread has a value for each place where it
can be interrupted with effect: before a receive, before a send, with a chunk in
hand, before a join. A step is what a thread does between two of them; every
receive, send, write and join is a step of its own, so TLC interleaves them in
every way. Where a call can fail (`read_chunk`, `write_files`, `write_others`,
encryption for want of randomness, decryption, `flush` of the progress dot) the
failure is a second action with the same guard, and it does what the `?` does:
the thread ends, its locals are gone, its ends of channels close.

*Channels.* A crossbeam channel is a sequence with a capacity. Its ends are not
variables: `RxInOpen`, `TxOutOpen` and so on are derived from the threads that
own a clone and still run. A send to a channel without receiver fails; a receive
from an empty channel without sender ends the loop. When main returns, the
process ends and with it every thread that was not joined (`Alive`).

*Data.* A chunk is an identity. A sealed chunk is the record of its content,
its number and its final flag: both layers bind number and flag (nonce, or
associated data), so a chunk opens exactly for the number and the flag it was
sealed with. bzip2 is modelled by the size of its output; decompression accepts
what compression has made of one chunk and nothing else. Bytes are units that
say what they belong to, so that a property can see a byte lost, repeated or
moved. Files are sequences of units.

*`IoChunks`.* `MainRead`/`MainReadError`, `MainSend`/`MainSendClosed`/
`MainProgressError`, `MainJoinWriter`, `MainJoinCrypt`, `MainOk`, `MainExit` are
the lines 373 to 410 of `common_io.rs` in order; `WriterRecv`, `WriterWrite`,
`WriterDrained`, `WriterRecvClosed`, `WriterOthers` and the errors are the lines
357 to 370. The crypt threads are left to `CryptPipe`, `EncryptPipe` and
`DecryptPipe`, which extend the module and compose their actions with its own.

*`CryptPipe`.* A source is a file to encrypt, or, if it is in `Ciphertexts`, a
file to decrypt; `Decrypting` is derived from the source. The worker is the same
thread in both directions, `Crypted` is what it makes of a chunk, and only in
decryption can a chunk be refused.

*`EncryptPipe`, `DecryptPipe`.* `resegment` is a thread with the loops of the
code as places: receive, drain the map, cut (or parse), flush. One action is one
iteration of the innermost loop, since each sends.

*`SplitFiles`.* One action per iteration of the loops in `write_files` and
`read_files`, with their locals `buf_start` and `buf_end` as variables, as each
iteration opens, creates, reads or writes a file. Decryption in a later run
starts when writing has ended; the series is found by looking which files exist.

*`ArchiveRead`.* A tree is the sequence of entries that WalkDir yields, with
the metadata of each. A worker's `todo` are the messages of the entry in hand.
`ReadSticky` is the blocking `recv` on `channel_index`, `ReadSelected` and
`ReadDisconnected` are the three outcomes of `ready` and `try_recv` that change
something. What follows the chunks is abstracted to `SendOn`, `Stop` (the send
fails) and `ProgressError`. Entries that `ExcludeFile` accepts are left out by
the walker (`WalkExclude`).

*`ArchiveWrite`.* `Feed` is the call of `write_files` with any next part of the
stream; the other actions are the branches of its loop, one iteration each:
`WritePlain`, `WriteSegment`, `WriteHole`, `TakeHeader` (with `eval_header` as
the disjunction of its early returns), `TakeLength`, `NotEnough`. Then
`MakeLink`, `LinksMade` and `SetDirTimes` are `write_others`. The file system is
a function from paths to elements with kind, content, write permission and
time: creating an element needs the permission of its directory and changes the
directory's time, which is what the late steps of the code are for. `before` is
history: what was in the output directory when the extraction began.

*`Paths`.* A path is a sequence of names, a name the sequence of its parts
between dots, so extension and stem are its last part and the rest; only parts
that the program takes apart itself (`c07`) are spelled out.

*`FileHeader`.* A byte is a number, a header a sequence of them. `Metadata` puts
the fields together as `create_header` does, `ReadParams` cuts them out at the
offsets that the reading function computes.

*`Keys`.* A derived key is the record of what it was derived from: two keys are
equal exactly if the same secrets, salts and labels went into them, in the same
order.

*`Session`.* `pc` is the next step of the run in progress; an action is what the
code does between two points where the program can be stopped with a different
effect: `Prepare`, `ConfirmPassword`, `MakeKeys` or `MakeKeysUsb`,
`CreateEncrypted`, `WriteHeader`, `EncryptSome`, `EncryptAll` or `EncryptCut` are
`encrypt` in its order, `CheckInput`, `EnterPassword`, `RebuildKeys` or
`RebuildKeysUsb`, `MakeOutDir`, `CreateDecrypted`, `DecryptAll`, `ExtractSome` or
`DecryptRefused` are `decrypt`. `Abort` is possible between any two: an I/O
error, a refused prompt, or the user kills the program. The pipeline is only
what it leaves behind (nothing, a part, all, or a part flagged as all), as the
other modules are about how it gets there. `given` and `before` are history:
they record what the user has entered and what the run has found.

## 3. What TLC checks

Passing runs:

| Run | Instance | Properties |
|---|---|---|
| `crypt_plain` | 3 workers, capacities 2 and 1; files of 1 to 4 chunks to encrypt, and every sequence of 1 to 3 chunks sealed with any number 0 to 2 and any flag to decrypt | `IInv`, `InOrder`, `OkIsComplete`, `OneChunkOnePlace`, `VerdictIsTrue`, `Termination`, `ImplementsStream` |
| `encrypt_compressed` | 2 compressors, 2 encryptors, all capacities 1; 1 to 3 chunks of compressed size 1 or 2; segments of 2 units, length field of 1 | `IInv`, `StreamPrefix`, `OkIsExact`, `EqualSizes`, `Termination` |
| `decrypt_compressed` | 2 decryptors, 2 decompressors; intact files, files with a segment missing, exchanged or repeated, a damaged chunk | `IInv`, `OkIsWhole`, `DecryptErrorShown`, `Termination`, `ImplementsStream` |
| `split_files` | up to 3 sizes out of {0, 1, 2, 4, 5}, 1 to 3 chunks, last chunk from minimal to full, leftovers of up to 4 files | `SplitLayout`, `SplitSizes`, `ChecksumEachFile`, `RoundTrip`, `ReadBack` |
| `archive_read` | 2 workers, capacities 1, chunks of 2 units, 5 trees of 2 to 5 entries, with files of the output and files with similar names in them | `Unmixed`, `OkIsWhole`, `ChunkSizes`, `LinkIsSameFile`, `DataIsAsHeaderSays`, `ExcludedIsOutput`, `Completes` |
| `archive_write` | 5 archives of 2 to 4 entries in every order, cut into pieces of 1 to 3 units, 6 output directories, extracting and listing | `Restored`, `ErrHasCause`, `ListIsArchive`, `NoOverwrite`, `Ends` |
| `session` | 3 runs out of 16 command lines; 2 passwords, 3 key files of 1 to 3 blocks of which 2 are read, 3 USB keys of which one is not usable; a file, a directory and an encrypted file of another version | `TypeOK`, `NothingWithoutSecrets`, `OkIsOriginal`, `RightSecretsOpen`, `DataSurvives`, `ListChangesNothing` |

Every passing run includes all failures the actions allow, at every step.

Why the bounds are enough. The protocols compare neighbours: a chunk with the
next expected number, a message with the last flag before it, a position with
one border. Two workers suffice to overtake each other; three, with four chunks
and an output channel of capacity 1, also give a map of `pending_chunks` with two
elements waiting while a third is in a channel. Capacity 1 makes every channel
full with one message, so that each blocking situation occurs. Segments of two
units with frames of two or three make every alignment of frame and segment
happen: a border in the length field (between frames), within content, and at
the end of the stream. Split sizes cover a size below, equal to and above a
header of 2 and a chunk of 3, and zero. The archives have holes at the start,
in the middle and at the end, a file of nothing but a hole, empty files, links
before and after their targets, and a link without target. The output directories
are empty, have a directory where the archive has one, a file or a directory
where it has a file, and a file where it has a directory. Three runs are what it takes to
encrypt, to encrypt the result or something else, and to decrypt; the
command lines differ in every option that `Session` looks at, and two key files
are equal in what is read of them, though not in their third block. Sizes of two
for salts and three for the credential tell offsets apart that are off by one.
`MaxRuns`, `MaxFiles`, `MaxCut` and the sets in the `MC` modules are the only
bounds; no counter is cut off.

*Fairness* is weak fairness per thread: the operating system runs every thread
that is not blocked, and no thread waits for two things of which one could be
taken for ever. The main thread of `ArchiveRead` waits with `Select::ready`,
which may name a finished channel again; crossbeam starts its scan at a random
place, so it does not do so for ever, and these turns without effect are left
out. Nothing is assumed about failures: they may or may not happen.
`SplitFiles` and `ArchiveWrite` are sequential, with fairness of their only
process. `Session` states no fairness and no liveness: every run waits for a
user who may not answer.

*Deadlock* is checked in all runs but those of `ArchiveRead`, where main can
really wait for ever in `join_threads` (violation 3 below), and `session`, which
stops after `MaxRuns` runs. An ended run stutters.

Violations: what a comment or a doc of the repository says and the code does
not do. Each of these runs checks that one statement and TLC finds a
counterexample.

1. `encrypt_truncated` / `FinalIsEnd` (`encryption.rs:260`). After the failure
   of a compression thread, `resegment` takes the closed channel for the end of
   the file and flags what it has as final, while `final_chunk` is documented as
   the last chunk of the file. The run reports an error, but the file it leaves
   decrypts without one.
2. `split_leftover` / `SeriesIsTheFile` (`common_io.rs:63`). The series that is
   read includes files of an earlier, longer one.
3. `archive_stop` / `StopEnds` (`common_io.rs:392`). Main joins archive threads
   that are blocked on channels it does not read any more.
4. `archive_mounted` / `LinkIsSameFile` (`archive.rs:460`). The file id is the
   inode without the device.
5. `archive_excluded` / `ExcludedIsOutput` (`archive.rs:648`). The extension `c`
   passes for one of a split file, so the file `foo.c` is left out when `foo.c00`
   is the output beside it.

Other places where code and comment differ, read but not given a run:

* `encryption.rs:253`: `tx_e.send(..)?` makes an error of its own when the
  encryptors have failed, and it is joined first, so the cause is not shown;
  `common_io.rs:376` says why one must not. The result is an error either way.
* `encryption.rs:549`: the output directory is created before the password is
  asked for; the comment above it says after. The model has the order of
  the code, and `NothingWithoutSecrets` therefore excepts the directory of an
  encryption.
* `archive.rs:631` calls the path of an entry relative; it is absolute, since the
  walk starts at a canonical path, so `ends_with` is equality.
* `archive.rs:886` says that existing files are not overwritten. Where the
  archive has a directory and there is a file, `eval_header` goes on, and the
  file gets the permissions (`archive.rs:964`) and in the end the times of the
  directory. `NoOverwrite` excepts it; the content stays.
* `decryption.rs:423`: the check of the version cannot fail, since the version is
  in the associated data of the header that has been opened before.

The passing runs state the other properties under assumptions that a real run
may break, and the instances are chosen accordingly:

* files do not change while they are archived. `file_size` is taken from the
  metadata (`archive.rs:167`), the segments from a later scan (`archive.rs:172`),
  and the data that is sent is that of the segments. With a tree in which a file
  has grown in between, `DataIsAsHeaderSays` is violated: the reader would take
  the surplus for the next header.
* directories are writable. Their permissions are set when their entry comes
  (`archive.rs:981`), so with a read-only directory that comes before its files
  `ErrHasCause` is violated: such an archive cannot be extracted without
  privileges.
* a read of the key file returns all it can (`LeastRead = ReadSize`). The number
  of reads is limited, not that of bytes (`common.rs:173`): with `LeastRead <
  ReadSize`, `RightSecretsOpen` is violated, as another part of a long key file
  is hashed.
* the user deletes only what was encrypted with Ok (`DeleteOriginal`), and does
  not decrypt a file that is not known to be complete over something that exists
  (`Careful`): such a file may be `EncryptCut`, which decrypts with Ok.
* key files are not outputs, a split series is one file, and no output directory
  is a link to another.
* times that cannot be set are printed and not reported (`archive.rs:1139`; the
  doc at `archive.rs:1120` says otherwise). `NoTimes` has the paths to which this
  happens; `Restored` says that the others are restored all the same.

For every property of a passing run there is a mutant, an operator beside the
definition it replaces (`X_What` for `X`): a plausible slip in that code under
which TLC finds the property violated.

## 4. What is proved

Eight modules hold theorems. Each theorem is for every value of the constants
that the assumptions of the module allow; TLC evaluates the assumptions in the
runs.

### The pipeline

`CryptPipeProofs` proves for `CryptPipe`, that is for plain encryption and
plain decryption, with any number of workers, any capacities and any set of
finite sources:

| Theorem | Statement |
|---|---|
| `Invariance` | `Spec => []IInv` |
| `TypeCorrect` | `Spec => []TypeOK` |
| `InOrderCorrect` | `Spec => []InOrder` |
| `OkIsCompleteCorrect` | `Spec => []OkIsComplete` |
| `VerdictCorrect` | `Spec => []VerdictIsTrue` |
| `Implementation` | `Spec => ImplementsStream`, the refinement of `OrderedStream` |
| `OneChunkOnePlaceCorrect` | `Spec => []OneChunkOnePlace` |

The assumptions are `IoAssumption` and `PipeAssumption`: sources are not empty
(`read_chunk` is called at least once and always returns a chunk), capacities
and the number of workers are positive, every worker owns a clone of both
channel ends, and the files to decrypt are among the sources.

The argument. None of the properties is inductive: that Ok means complete
depends on where every chunk is in every state before. `IInv` has three parts.

* `Places` - each place that can hold a chunk (channels, hands, map, sink) holds
  only messages that the source produced, processed where they have been
  processed; what is written is `Crypted(InMsg(k))` at place `k`. Since a message
  is determined by its number, messages need not be told apart otherwise.
* `Control` - what the control states say of each other. In particular: main
  leaves its loop only with all chunks sent or after a failure; a worker ends
  without error only if there is nothing left to do or the writer has failed;
  the writer ends its loop only if every worker has ended and the channel is
  empty; a failure of a worker in decryption means that the file is not intact.
* `NothingLost` - unless a thread failed, each chunk that was sent is in the
  sink, the map, a channel or a hand. Only failures remove chunks.

Ok then implies that no thread failed, all workers ended, both channels are
empty and no hand is full; by `NothingLost` every chunk is in the sink or the
map, and the map has no chunk with number `write_index`: so, were `write_index`
less than the number of chunks, that chunk would be nowhere. Hence everything is
written. The induction is over the actions, one lemma per part of the
invariant and per thread where it helps, and cites facts on sequences
(`Head`, `Tail`, `Append` keep elements) proved once at the start.
The refinement maps `WriterWrite` to `Emit`, `WriterOthers` to `Seal`, `MainOk`
to `Succeed`, every error of main to `Fail`, and all other steps to stuttering.

`OneChunkOnePlace` needs an invariant of its own, `Unique`: each place holds a
number at most once (`EachOnce`), no two places hold the same (`Apart`), none
holds one below `write_index`, and, as long as main may send, none holds
`chunk_count` or more (`Fresh`), which is why the chunk it sends is a new one. A
message moves from one place to the next in five steps, with a lemma for each;
`NothingMoves` is for all the others.

### Compressed encryption

`EncryptPipeProofs` proves for `EncryptPipe` with any number of compressors and
encryptors, any capacities, any size of a segment and of the length field, and
any sizes of the compressed chunks:

| Theorem | Statement |
|---|---|
| `EncryptInvariance` | `Spec => []IInv` |
| `StreamPrefixCorrect` | `Spec => []StreamPrefix` |
| `EqualSizesCorrect` | `Spec => []EqualSizes` |
| `OkIsExactCorrect` | `Spec => []OkIsExact` |

The assumptions are `IoAssumption`, `FramingAssumption` (segments and length fields
are not empty, a compressed chunk has a size) and `EncryptAssumption` (there is a
thread of each kind, and each owns its ends of the channels).

The chunks are numbered twice, by main and by `resegment`, and put into order
twice, by `resegment` and by the writer. `IInv` has five parts:

* `Upstream`: a message before `resegment` is determined by the chunk number: it
  is the chunk that main read, or what compression makes of it.
* `Buffer`: what `resegment` has in hand is the framed stream from the last cut
  (`Cut(newCount)`) to the end of the last frame taken (`Ends(outIndex)`), so it is
  a piece of a fixed sequence, `Whole(source)`, and no history of sends is
  needed.
* `Downstream`: a message behind `resegment` is determined by the segment number.
  Only the last may be short, and only once `resegment` has ended (`Flushed`);
  its flag is true exactly if it was the last place where it could be cut.
* `Control`: as in the pipeline; in particular `resegment` ends without error
  only when all compressors have ended, so a closed channel means the end of
  the file unless a compressor failed. This is where the proof needs `~Failed`,
  and what violation 1 is about.
* `NothingLost`: unless a thread failed, each chunk that was read and not yet
  framed, and each segment that was cut and not yet written, is in a place.

`OkIsExact` follows as in the pipeline, once with chunks and once with segments.
The stream is defined by a recursive function (`FlattenSeq`), so what is needed of
it is proved by induction in `SequenceFacts`. The induction is over a set of
numbers in the place of a predicate (`Induction`, from the least-number principle
`LeastNumber`), since an operator cannot be a parameter here. `FlattenParts`
says that the beginnings of a sequence of sequences flatten to beginnings of
the whole, and `PieceFacts`, `CutPiece` and `AppendPiece` what cutting off a segment
and appending a frame make of the piece in hand. The end of a stream that fills
its last segment is the case in which the loop and the flush could both, or
neither, set the flag: `Quotient` counts the cuts.

### Compressed decryption

`DecryptPipeProofs` proves for `DecryptPipe` with any number of decryptors and
decompressors, any capacities, any sizes, and any file, intact or not:

| Theorem | Statement |
|---|---|
| `DecryptInvariance` | `Spec => []IInv` |
| `DecodedInOrderCorrect` | `Spec => []DecodedInOrder` |
| `OkIsWholeCorrect` | `Spec => []OkIsWhole` |
| `DecryptErrorShownCorrect` | `Spec => []DecryptErrorShown` |
| `DecryptImplementation` | `Spec => ImplementsStream`, the refinement of `OrderedStream` |

The assumptions are `IoAssumption`, `FramingAssumption`, `DecryptAssumption` (there
is a thread of each kind, and each owns its ends of the channels) and
`SealedAssumption`. The last one is about the files. A file is any sequence of
sealed segments; what it says is that segments which open in their places, from
the first on, are the beginning of a framed stream, and all of it if none is
missing: only encryption makes segments that open, and `StreamPrefix` and `OkIsExact`
say what it makes. That this holds also for what a failed encryption
leaves (violation 1) is because `resegment` in encryption takes whole frames only.
Nothing is assumed of the content of a frame, which may have been
damaged before it was sealed, nor of segments that are missing, moved, repeated
or flagged wrongly, nor of the stream behind the first of them.

A chunk of the content has no number in the file: the place where its frame ends
in the stream has to stand for it, and whether a place in the stream is such
an end is only known for what has been taken. `IInv` has six parts:

* `Upstream`: a message before `resegment` is determined by the segment number,
  and behind a decryptor the segment is in its place.
* `Buffer`: the segments that were taken are all in their places; `buf_out` is what
  was taken from the stream and not yet parsed, from `Position` to `Taken`; and
  parsing is between two frames, or behind the length field of one, whose size
  is `compressed_chunk_len` (`Parsed`). So the parser can never slip: the next
  length is read where a length field begins. The frames that were parsed lie one
  behind the other and cover all that was parsed, and there are
  `newCount` of them.
* `Downstream`: a message behind `resegment` is determined by the end of its frame;
  no two frames end with the same number of chunks before them (`FrameEnds`). What
  was written is the beginning of `Contents`, and every frame in it was accepted
  by bzip2.
* `Control` and `NothingLost`: as in encryption.
* `Blame`: a decryptor fails only for a segment that is not in its place, a
  decompressor only for a damaged chunk, `resegment` only in consequence of a
  failure before or behind it.

`BufferStep` is the heart of it: appending a segment (`ResegTakeFacts`), cutting off
a length field (`ParseLengthFacts`) and cutting off a frame (`ParseFrameFacts`),
wherever the borders of the segments are. That no frame ends inside a frame, by
which the new chunk is the next one, is an induction (`NoFrameEnds`). What was
parsed stays so, and what is parsed is new (`Grown`), so messages that are under
way keep their meaning.

`OkIsWhole` needs more than in encryption: `resegment` ends without error only with
an empty buffer, but without a further segment it could also have lost sight of
a frame after its length field. `WholeParsed` excludes it: the intact stream ends
with the end of a frame. That all frames up to there are those of undamaged chunks
(`Sound`) follows since all were written. `DecryptErrorShown` is `Blame` and the
order of the handles: were the error that is reported the one of `resegment`, a
decryptor would have failed before and been joined before. The refinement
maps steps as in the pipeline. `DecodedInOrder` has no run of its own: it is a
conjunct of `Downstream`, which TLC checks within `IInv`.

### The split series

`SplitFilesProofs` proves for all sequences of chunk sizes and all lists of sizes,
zeros among them:

| Theorem | Statement |
|---|---|
| `SplitInvariance` | `Spec => []SplitInv` |
| `SplitSizesCorrect` | `Spec => []SplitSizes` |
| `ChecksumsCorrect` | `Spec => []ChecksumEachFile` |
| `LayoutInvariance` | `Spec => []LayoutInv` |
| `SplitLayoutCorrect` | `Spec => []SplitLayout` |
| `ReadInvariance` | `Spec => []ReadInv` |
| `RoundTripCorrect` | `Spec => []RoundTrip` |

The assumption is `SplitAssumption` (a header and a sealed chunk are not empty,
only the last chunk may be short, the value for a missing file is not a file);
`MaxFiles` bounds the series. `SplitInv` says that
the files before the one in hand have their sizes (`FilesOfRun`) and that
`f_out_write_count` is the length of the one in hand (`Counters`). The code moves
`buf_start` only when it starts a file, so the difference `buf_end - buf_start`
that it counts would be wrong in a second turn on the same file; `Counters`
says why there is none: when the loop goes on, it has not begun, or it has just
filled a file.

`LayoutInv` adds what is in the files: together they are the first `Position` units
of the output, cut at the sums of the sizes before each (`Pieces`), where `Position`
is counted from the buffer in hand and `buf_end`. An iteration writes the next
units behind this place, into the file in hand or into a new one that begins
there. At the end all has been written, which is `SplitLayout`.

Reading has a place of its own: `FileStart(inIndex) + inCount`, file index and
count in the file. `ReadInv` says that this place in the series is the place in
the output at which the buffer under construction ends (`Reading`), and that the
buffers before are the header and the chunks that were written. An iteration of
`read_files` moves both by the same number, also over empty files. That the next
buffer is asked for with the size it was written with, and the final flag set
with the last and no other, is `NextSizes`: `remaining` counts what is left of the
output behind the chunk in hand, and only the last chunk is short. What the
series found by `open` is, is `SeriesFacts`, for the case without leftovers that
`RoundTrip` is about; with them it fails (violation 2).

### The file header

`SessionProofs` begins with the header, and proves for all sizes of salts, ids and of the field for the
credential, all parameters that `create_header` can be given (`Valid`) and all
random fillers:

| Theorem | Statement |
|---|---|
| `ClearPartRoundTrip` | the salts read from the clear part are those that were written |
| `HeaderRoundTrip` | `ReadParams` and `ReadVersion` of `Metadata` are what was put in, and its length is `MetadataSize` |

The assumption is `HeaderAssumption` (the sizes are positive); `Valid` says that
the fields have their sizes, that the credential fits (`Fits`), and that credential
and salt are there exactly with the flag of the USB key. The argument: `SliceLast`
and `SliceKept` say that a slice finds a field at the end of what has been
appended so far, and still finds it after more is appended. They are applied
field by field, so each offset of the reader is compared with the sum of the
sizes before the field. The flags are told apart by cases (`FlagsRoundTrip`).

### Whole runs

It goes on with the runs, and proves for any set of command lines, passwords, key files and USB
keys, and any number of runs:

| Theorem | Statement |
|---|---|
| `SessionInvariance` | `Spec => []SessionInv` |
| `SessionTypeCorrect` | `Spec => []TypeOK` |
| `NothingWithoutSecretsCorrect` | `Spec => []NothingWithoutSecrets` |

The assumptions are `HeaderAssumption`, `KeysAssumption` and `SessionAssumption`:
the command lines have their fields, the identities of the USB keys are numbers,
and what is on disk before the first run was not encrypted by this version.

That a decryption which has got past the header is entitled to write depends on
what encryptions long before have written. `SessionInv` says so:

* `DiskGood`: every encrypted file of this version is `WellSealed`: its header
  opens with keys made of the password it was encrypted with and the salts in
  its clear part, and the flags in it ask for the key file and the USB key if
  they were used. An encrypted file can be encrypted again, and comes out of its
  file when that is decrypted, so the same must hold for what is inside, to any
  depth: `Closed` is the set of contents closed under taking out, and stands in
  for an induction on the depth.
* `Control`: what a step knows of those before it: an early step has changed
  nothing; the ciphers in hand are those of the password that was given; the
  parameters in hand are those of the header that was read, or, in encryption,
  can be written (`Valid`); a decryption past the keys is entitled.

The step at which it is decided is `EnterPassword`: the header opens, so its keys
are equal to those made of the password that was entered; keys are records of
what went into them, so this is the password of the file. `HeaderRoundTrip` is
what makes `WriteHeader` keep `DiskGood`. `SessionInv` has a quantifier over all
sets of contents, which TLC cannot evaluate.

The second half of `SessionProofs` is about what comes out of a file:

| Theorem | Statement |
|---|---|
| `DataInvariance` | `Spec => []DataInv` |
| `ListChangesNothingCorrect` | `Spec => []ListChangesNothing` |
| `OkIsOriginalCorrect` | `FullReads` implies `Spec => []OkIsOriginal` |
| `RightSecretsOpenCorrect` | `FullReads` implies `Spec => []RightSecretsOpen` |

It needs `PathAssumption` besides: the names that are given are not empty, paths
and key files are sequences. `FullReads`, that is `LeastRead = ReadSize`, is a
premise of the two theorems that need the key file to be hashed in the same way
twice; what happens without it is said in section 3.

Both properties are about the end of a decryption, and it is encryptions before
that decide them. `DataInv` carries this over the runs in between:

* `DiskKnown`: every encrypted file of this version is `Proper`: its header says
  what its body is (file id, compression, archive or not, which secrets), its
  name without extension is the name of the original, and the keys of the body
  are `BodyKeys` of the secrets it was encrypted with. What was encrypted again
  is found, when it is decrypted, under the name that the outer body gives it;
  `Known` is therefore a set of pairs of name and content, closed under taking
  out.
* `InHand`: a run that has its keys has those which the secrets given and the
  parameters of the header make, the file it reads has not changed since it was
  opened, and so the two agree on what the body is. The output cannot be the
  input, since its name is shorter by the extension (`ExtensionRemoved`).
* `Results`: the three properties themselves, at the end of a run.

It is decided at `DecryptAll` and at the refusals: the body opens if and only if the
keys in hand are those of the file, and both are `BodyKeys`. The password has been
compared by the header before and the answer of the USB key is that of the
credential in the header, so equal keys mean equal key files (`BodyKeysDiffer`).
`CreateDecrypted` gives the name: what `DecryptedName` makes of the name of an
encrypted file is the name of the original.

### The archive stream

`ArchiveReadProofs` proves for any set of directory trees, any number of workers,
any capacities of the channels and any chunk size:

| Theorem | Statement |
|---|---|
| `ReadTypeCorrect` | `Spec => []TypeInv` |
| `ChunkSizesCorrect` | `Spec => []ChunkSizes` |
| `LinkIsSameFileCorrect` | `InodeIsFile` implies `Spec => []LinkIsSameFile` |
| `ReadInvariance` | `SizesKept` implies `Spec => []ReadInv` |
| `UnmixedCorrect` | `SizesKept` implies `Spec => []Unmixed` |
| `WholeInvariance` | `SizesKept` implies `Spec => []WholeInv` |
| `OkIsWholeCorrect` | `SizesKept` implies `Spec => []OkIsWhole` |
| `DataIsAsHeaderSaysCorrect` | `SegmentsFit` implies `Spec => []DataIsAsHeaderSays` |
| `ExcludedIsOutputCorrect` | `Canonical`, `OutputsAreFiles` and `NoOtherParts` imply `Spec => []ExcludedIsOutput` |

The assumptions are `FormatAssumption` and `ReadAssumption`: an entry has the fields
that the model reads, an element of a tree is a file, a directory or a symbolic
link, and no two elements of a tree have the same path. Some of the theorems have a
premise about the files:

* `InodeIsFile`: elements of a tree with the same inode number are on the same
  device. `hard_link_files` has the inode for its key and not the device; for a
  tree with another file system mounted in it, violation 5 shows what happens.
* `SizesKept`: a file whose metadata said that it is empty has no data, either,
  when `scan_chunks` opens it. Its header is sent with `last_chunk` because of
  `file_size == 0` (`archive.rs:541`), and if `scan_chunks` finds data in it that
  another program has written in the meantime, they are sent behind a message
  that has told main that the entry is over, so they could mix with another
  entry. A file that grows or shrinks otherwise is within the theorem.
* `SegmentsFit`: the segments that `scan_chunks` found do not end behind the size in
  the metadata, which was taken before; the file did not grow in between
  (section 3). It implies `SizesKept` (`FitIsKept`). `MCArchiveRead` assumes it of its
  trees, and TLC evaluates that.
* `Canonical`: the path of the output is absolute and has one root, as what
  `set_paths` gets from `canonicalize`. Without that, `ends_with` in `exclude_file`
  would take another path that the output's path ends with for the output.
* `OutputsAreFiles`: what lies at a path that this run writes to is a file;
  `WriteOutput` has created it.
* `NoOtherParts`, about split output only: a file of the tree with the name of the
  output and a part number is a part of this output. `exclude_file` cannot tell
  it from one of an earlier run with more parts, and leaves that out as well;
  violation 5 is a similar case.

`TypeInv` has three parts: `States`; `Links`, that `hard_link_files` has one path
for each id, which is the path of an element the walker has passed; and
`Carried`, that what is in `chPaths`, in the hands and in the queue of a worker, in
`bufOut` and in the chunks is of entries in `Sent`, those the walker has made of
elements that it has passed. `LinkFacts` needs no more than that: paths in a tree
are distinct, so the target names the element that had the id first, and that was
sent as the file it is.

`ReadInv` is `TypeInv`, `Sizes` and `OrderInv`. `Sizes` says that a channel is marked
as finished only when its worker has ended, and that main reads on only if no
chunk had the final flag; it is what `ChunkSizes` needs. `OrderInv` is about units:

* `Received` is what main has taken from the channels, in chunks and in the
  buffer. It is `Ordered`: each unit is followed by its successor in the same
  entry, or ends its entry and is followed by the first of another.
* `Between`: when main waits for no particular worker, the last entry it took is
  complete, unless a worker has failed.
* `Queued`: the queue of a worker, what is in its channel and what it has still to
  send, goes on where main stopped if main waits for this worker, and else begins
  with an entry; the entries in it lie one behind the other, and the last is
  complete, unless the worker has failed. `WorkerSend` only moves the border
  between the two parts of the queue, and `WorkerReadError` drops the second
  part.

What an entry is cut into is `MessagesChain`: the units of each message follow one
another, those of the next message follow them, only the last message has the
flag, and only the last may be empty (when the file ends with a hole). The
induction over the segments of a sparse file is in `SequenceFacts`
(`FlattenAppend`, `FlattenElements`). When main goes over to another worker
although it waited for one, the channel of that one is disconnected, its queue
is empty, and its entry is not complete; so it has failed, which is what `Unmixed`
allows.

`OkIsWhole` says that no entry is lost or there twice, of which `OrderInv` says
nothing. `WholeInv` adds two parts to `ReadInv`:

* `Placed`: each path that the walker has passed is in one place only: in the
  walker's channel, in the queue of a worker, in what main has received, or among
  those left out (`Parted`). An entry counts as being where its first unit is. If
  no worker has failed, each path is in one of these places. The steps of the
  program move one path from a place to the next (`PartMove`), add the one the
  walker comes to (`PartAdd`), or lose some with the worker that has them
  (`PartLose`). The send of the walker, whose result is ignored, fails only when
  all workers have ended, and none of them without an error before the walker.
* `Endings`: a worker that has ended without an error did so after the walker and
  with the channel of paths empty; a channel that is marked as finished is empty;
  the last chunk is made when all are marked; a handle that was joined is that of
  a thread that has ended without an error; and main gets to the joins, if
  nobody stopped it, with the last chunk sent.

When the result is ok, all threads have been joined, so nobody has anything but main
(`EndFacts`), and the paths in the stream are those of the tree but for the ones
left out. That each entry is there with all of its units, once, and in one piece is
`WholeEntries`: an entry that was begun goes on to its end (`Onward`), a unit
in the stream goes back to the first of its entry (`BackFacts`), and no unit is
twice among those of an entry (`UnitsDistinct`). The last one is about offsets in
a file: the pieces of a segment do not overlap, nor do segments (`StartFacts`).

`DataIsAsHeaderSays` holds at any time, also while the threads run and after one
of them has failed. The type says more of a unit of data than that it is one: its
offset lies in a data segment of its entry (`DataOffsets`, in `TypeInv` through
`UnitSet`). The places of the data of an entry in the stream have distinct offsets,
as no unit is there twice (`UnitsOnce`: by `BackFacts` two equal units go back to the
same first unit, and that is there once by `Placed`). So there are no more of them
than offsets in data segments, and these and the bytes in the holes
(`HoleFacts`, `HolesApart`) are disjoint parts of `0..(size - 1)` (`ApartCount`).

`ExcludedIsOutput` is about two pieces of code that must agree on names: those that
`WriteOutput` gives to the files of a series and those that `exclude_file`
recognises. `SeriesExcluded` shows that they do, for any number of parts; from part
100 on the extension has more than three characters, which `SplitPartFacts` covers
(`Decimal` is a recursive function; `DecimalFacts` shows that it exists and gives
digits). In
the other direction, `EndsWithFacts` makes `ends_with` an equality for
absolute paths (`OutputsAreSeries`). The rest is `OutputInv`: what was left out is
excluded, and `Carried`, which is a part of `TypeInv` for all entries, holds for the
entries that are not of the output, too, so nothing of the output is on its way
to the stream.

### The extraction

`ArchiveWriteProofs` proves for all archives, all ways to cut them and all
contents of the output directory:

| Theorem | Statement |
|---|---|
| `NoOverwriteCorrect` | `Spec => NoOverwrite` |
| `WriteInvariance` | `TruthfulArchives` implies `Spec => []WriteInv` |
| `ListIsArchiveCorrect` | `TruthfulArchives` implies `Spec => []ListIsArchive` |
| `RestoredCorrect` | `TruthfulArchives` implies `Spec /\ NoFileAtDir /\ LinksToFiles => []Restored` |
| `ErrHasCauseCorrect` | `TruthfulArchives` implies `Spec /\ TreeShaped /\ LinksToFiles /\ DirsWritable => []ErrHasCause` |

The assumptions are `FormatAssumption` and `WriteAssumption`: an entry has a kind, a
path that no other entry has, a size and segments that are not empty (`IsArchive`),
and what is there before are elements at paths (`IsBefore`). The premises say more
of the archive and of the output directory, and are no assumptions of the model:

* `TruthfulArchives`: the files did not change while they were archived, so the
  segments that `scan_chunks` found end where the file ends, and a hole is not
  followed by another (they are as `lseek` reports them, as long as they can
  be). `parse_header` makes its segments of the holes alone, and puts one data
  segment between two of them (`archive.rs:321`). `MCArchiveWrite` assumes it of
  its archives, and TLC evaluates that.
* `LinksToFiles`: the walker looks for links among files only (`archive.rs:484`), so
  what a hard link names is a file if it is in the archive at all. For the stream
  that `ArchiveRead` produces this is the second part of `LinkIsSameFile`.
* `TreeShaped`: what is above an entry is a directory, as in the tree that was
  walked.
* `NoFileAtDir`: where the archive has a directory there was nothing or a directory.
  Otherwise `eval_header` goes on (`archive.rs:902`), and there is still a
  file in the end, with the times and permission of the directory.
* `DirsWritable`: see section 3.

`NoOverwrite` is a property of steps: each action creates an element where there
is none, or changes the open file, a directory, or a path in `dirTimes`. The
invariant that it needs is only that `dirTimes` is a sequence, so that what is in it
stays in it (`DirList`).

The other three need to know where in the archive the loop is, which the code
does not: it has counters of what is still to come. `WriteInv` says that for some
`k` the loop is at entry `k` (`Parsing`) and the entries up to there are dealt with
(`Listed` when listing, else `Extracted`).

* `Parsing(k)`: what is in `bufOut` and not yet given, joined, is the stream from a place
  on (`Here`): before the length field that follows entry `k`, behind that field
  and before the header (`headerKnown`), or in the data of entry `k`. In the data,
  `fileSize`, `segIndex` and `dataSize` together give the offset in the file, and, as
  holes take no data, another one in the stream (`InSparse`). Between two calls
  (`recv`) the loop has taken all it could; without that it might stop too early.
* The segments are those of the sender: `SegmentsBack` shows that `parse_header`, from
  the holes in the header and the size, finds the segments that `build_header` had.
  `HolesForm` and `Parity` are why: data and holes alternate, so the holes are every
  second segment, from the first or the second on. `SparseFacts` says which part of
  the data and of the content a segment is. With it `SegmentWrites` and `HoleWrites`
  show that what is appended to the file is the next part of its content (`Wrote`),
  and that the loop moves to the next segment, or out of the file, exactly at
  the end of this one. A hole at the end of a file, which comes with no data at all,
  is `StreamEnds`: the stream cannot end before it is written.
* `Extracted(k)`: each of the first `k` entries is `Placed` but for the open file, which
  has the beginning of its content; a hard link is placed, or in `pendingLinks`. The
  time of a directory is only claimed at `ok`, when `SetDirTimes` has set it, as
  every element that is created in it changes it before. `Made` says what is in the
  output directory besides what was there: entries, and directories on the way
  to them. It is needed for `ErrHasCause`: what is in the way of an entry is none of
  the elements that the extraction itself has made (`TakenBefore`, `DeniedBefore`),
  whatever came first. `Pending` says that each link is pending once; `MakeLink` needs it
  to find nothing at its path.

When write_others ends, all entries are placed and nothing is pending, which is
`Restored` (`InvRestored`). For listing, `Parsing` alone does the work: the counters
skip the data of each file without opening one.

### Only model-checked

Liveness (TLAPS proves no `ENABLED`), also `ReadBack`; and `DataSurvives` of
`Session`. The latter depends on the command lines as well as on the program: an
encryption truncates what is at the path of its output, so of two inputs of the
same name in different directories, encrypted to one output directory, the
second takes the place of the first. The commands of `MCSession` have no such
pair. A theorem would need that as a premise, for outputs of encryptions, of
decryptions and of extractions, and a statement that looks as deep into files of
files as runs have nested them, not only two levels as three runs can.

## 5. What is not modelled

* Panics. A thread that panics closes its channels like one that returns an
  error, and its join gives an error; the models do not tell the two apart.
* `chunk_count` as a `u32`, and the growth of `pending_chunks`: beyond any
  instance TLC can look at; neither is claimed to be bounded in the code.
* The parsing of archive headers field by field (`ArchiveHeader`): a header is
  its length and the fields that a property is about. Path conversion between
  Windows and Unix, `drill_hole`, the sparse attribute and the volume serial
  number on Windows are left out.
* Cryptography, and the dialogue with the USB key (attestation, assertion, PIN):
  a key answers for the credentials it has issued, and to no others. That the
  password is kept encrypted in memory (`CryptMemory`) is left out; when it is
  there is modelled.
* Prefixes of Windows paths, names that are not UTF-8, symbolic links in the
  path of the output, or as elements of the output directory (`exists` at
  `archive.rs:887` follows them).
* The command line and the parser of sizes: declarative use of crates.
* A change of the output directory by other programs during an extraction.

## 6. Plan

Order of work, the core first:

1. done: `IoChunks`, `CryptPipe` with `OrderedStream`, its invariant and proofs;
2. done: `EncryptPipe`, `DecryptPipe`, `SplitFiles`;
3. done: `ArchiveFormat`, `ArchiveRead`, `ArchiveWrite`;
4. done: `Paths`, `FileHeader`, `Keys`, `Session`, with their proofs;
5. the composition of `ArchiveRead` with `IoChunks`, so that the stop of the
   pipeline is not a choice any more, and of `ArchiveRead` with `ArchiveWrite`
   through an abstract archive: the tree that is extracted is the tree that was
   read;
6. done for `DecryptPipe`: `OrderedStream` as its abstract specification; for
   `EncryptPipe` it does not hold in this form, as what `resegment` makes of the
   rest after a failure is no beginning of the expected file (violation 1).

Theorem planned: `DataSurvives` of `Session`, with a `Holds` of any depth and a premise
about the names of the outputs.
