------------------------------ MODULE Session ------------------------------
(***************************************************************************)
(* Whole runs of the program, one after the other, on the same directory:  *)
(* main::run, Encryption::encrypt and Decryption::decrypt, in the order of *)
(* their steps.  A run can fail or be killed at every step and leaves what *)
(* it has done so far.  Between the runs, the user may delete what an      *)
(* encryption has returned Ok for.                                         *)
(*                                                                         *)
(* The pipeline of io_chunks is here only what it leaves in its output:    *)
(* nothing, a part, all, or (EncryptPipe, FinalIsEnd) a part that is       *)
(* flagged as all.  A split series is one file, its first (SplitFiles).    *)
(***************************************************************************)
EXTENDS Paths, FileHeader, Keys

CONSTANTS
  MaxRuns,      \* bound on the number of runs
  Commands,     \* the command lines
  Passwords,
  Keyfiles,     \* the blocks of each key file; no run writes to one
  Devices,      \* the USB keys the user has
  Version,      \* FILE_FORMAT_VERSION
  Cwd,          \* the working directory
  FirstDisks    \* the possible directory contents before the first run

VARIABLES
  disk,         \* what there is at each path where there is something
  dirs,         \* the directories for output
  runs,         \* the number of runs so far, also the source of randomness
  cmd, pc,      \* the run in progress and its next step; "idle" between runs
  result,       \* of the last run: "none", "ok", "refused" or "failed"
  password,     \* KeyBuilder::password; None, or Some(password)
  headerKeys, bodyKeys,   \* the two pairs of ciphers
  params,       \* EncHeaderParams
  given,        \* history: the secrets that were given to this run
  before        \* history: disk and dirs before this run

keyVars == <<password, headerKeys, bodyKeys, params, given>>
vars == <<disk, dirs, runs, cmd, pc, result, keyVars, before>>

(***************************************************************************)
(* What is found at a path: data of the user (kind "data", or "tree" for a *)
(* directory), an encrypted file, or something that was not written to its *)
(* end.  amount tells how much of its body an encrypted file has; with     *)
(* records the secrets for the properties.                                 *)
(***************************************************************************)
Broken == [kind |-> "broken"]
NoCommand == [op |-> "none"]
NoSecrets == [password |-> None, keyfile |-> None, device |-> None]

Sealed(header, body, amount, with) ==
  [kind |-> "sealed", header |-> header, body |-> body, amount |-> amount, with |-> with]
IsSealed(c) == c.kind = "sealed"

\* What this version has not encrypted.
Foreign(c) ==
  \/ "kind" \in DOMAIN c /\ c.kind \in {"data", "tree"}
  \/ /\ c = Sealed(c.header, c.body, c.amount, c.with)
     /\ c.header.version # Version /\ c.body.version # Version

ASSUME SessionAssumption ==
  /\ MaxRuns \in Nat /\ Version \in Nat
  /\ \A c \in Commands :
       /\ c.op \in {"encrypt", "decrypt"} /\ c.usb \in BOOLEAN /\ c.compress \in BOOLEAN
       /\ c.list \in BOOLEAN
  /\ \A device \in Devices : device.id \in Nat
  /\ \A first \in FirstDisks : \A p \in DOMAIN first : Foreign(first[p])

\* Paths and names are sequences, the name of an input is not the empty string,
\* and a key file is a sequence of blocks.
IsSequence(s) == Len(s) \in Nat /\ s = [i \in 1..Len(s) |-> s[i]]
ASSUME PathAssumption ==
  /\ IsSequence(Cwd) /\ Cwd # <<>>
  /\ \A c \in Commands :
       /\ c.out # None => IsSequence(c.out[1]) /\ c.out[1] # <<>>
       /\ IsSequence(FileName(c.in)) /\ FileName(c.in) \notin {<<>>, <<<<>>>>}
       /\ c.keyfile # None => IsSequence(Keyfiles[c.keyfile[1]])

Exists(p) == p \in DOMAIN disk
IsDir(p) == Exists(p) /\ disk[p].kind = "tree"
Written(p, c) == [q \in DOMAIN disk \cup {p} |-> IF q = p THEN c ELSE disk[q]]

OutDir == IF cmd.out = None THEN Cwd ELSE cmd.out[1]

\* Where the output of an encryption goes.
EncOut == Join(OutDir, OutName(cmd.in, IsDir(cmd.in), ~cmd.split))
\* Where the output of the decryption of a single file goes.
DecOut == Join(OutDir, DecryptedName(FileName(cmd.in)))

Init ==
  /\ disk \in FirstDisks /\ dirs = {Cwd} /\ runs = 0
  /\ cmd = NoCommand /\ pc = "idle" /\ result = "none"
  /\ password = None /\ headerKeys = None /\ bodyKeys = None /\ params = None
  /\ given = NoSecrets /\ before = [disk |-> disk, dirs |-> dirs]

\* The user does not let a decryption overwrite something unless the encrypted
\* file is known to be complete.
Careful(c) ==
  c.op = "decrypt" /\ IsSealed(disk[c.in]) /\ disk[c.in].amount # "whole" =>
    ~Exists(Join(IF c.out = None THEN Cwd ELSE c.out[1], DecryptedName(FileName(c.in))))

\* main::run; canonicalize has found the input.  Nobody encrypts broken files.
Begin(c) ==
  /\ pc = "idle" /\ runs < MaxRuns
  /\ Exists(c.in) /\ (c.op = "encrypt" => disk[c.in].kind # "broken") /\ Careful(c)
  /\ cmd' = c /\ runs' = runs + 1 /\ result' = "none"
  /\ pc' = IF c.op = "encrypt" THEN "prepare" ELSE "check"
  /\ before' = [disk |-> disk, dirs |-> dirs]
  /\ given' = [NoSecrets EXCEPT !.keyfile = c.keyfile]
  /\ UNCHANGED <<disk, dirs, password, headerKeys, bodyKeys, params>>

\* The run returns: everything in memory is dropped.
Return(how) ==
  /\ pc' = "idle" /\ result' = how
  /\ password' = None /\ headerKeys' = None /\ bodyKeys' = None /\ params' = None

\* An I/O error, an error of the USB key, or the user kills the program.
Abort ==
  /\ pc # "idle"
  /\ Return("failed")
  /\ UNCHANGED <<disk, dirs, runs, cmd, given, before>>

-----------------------------------------------------------------------------
(* Encryption.                                                             *)

\* create_salt, create_file_id
Salt(use) == [i \in 1..SaltSize |-> 100 * runs + 10 * use + i]
FileId == [i \in 1..FileIdSize |-> 100 * runs + 60 + i]
Filler == [salt |-> Salt(5), pad |-> [i \in 1..MaxCredentialSize |-> 9]]

\* set_paths, create_dir_all and canonicalize.
Prepare ==
  /\ pc = "prepare"
  /\ dirs' = dirs \cup {OutDir}
  /\ pc' = "confirm"
  /\ UNCHANGED <<disk, runs, cmd, result, keyVars, before>>

\* The password is entered twice; then the keys of the header are made.
ConfirmPassword ==
  /\ pc = "confirm"
  /\ \E first, second \in Passwords :
       IF first = second
         THEN /\ password' = Some(first)
              /\ headerKeys' = Some(HeaderCiphers(first, Salt(1), Salt(2)))
              /\ given' = [given EXCEPT !.password = Some(first)]
              /\ pc' = "bodykeys"
              /\ UNCHANGED <<result, bodyKeys, params>>
         ELSE Return("refused") /\ UNCHANGED given
  /\ UNCHANGED <<disk, dirs, runs, cmd, before>>

Hashes ==
  IF cmd.keyfile = None THEN {<<>>}
                        ELSE {<<h>> : h \in KeyfileHashes(Keyfiles[cmd.keyfile[1]])}

EncParams(credential) ==
  [compress |-> cmd.compress, archive |-> IsDir(cmd.in), keyfile |-> cmd.keyfile # None,
   usbKey |-> cmd.usb, saltBodyPw |-> Salt(3), saltBodyEnc |-> Salt(4), fileId |-> FileId,
   saltBodyFido |-> IF cmd.usb THEN Some(Salt(5)) ELSE None, credential |-> credential]

\* Mutant: the password is not erased.
KeysMade_Kept(keys, with) ==
  /\ bodyKeys' = Some(keys) /\ given' = with
  /\ UNCHANGED <<disk, dirs, runs, cmd, result, headerKeys, password, before>>

\* create_body_ciphers erases the password.
KeysMade(keys, with) ==
  /\ bodyKeys' = Some(keys) /\ password' = None /\ given' = with
  /\ UNCHANGED <<disk, dirs, runs, cmd, result, headerKeys, before>>

\* Without a USB key.
MakeKeys ==
  /\ pc = "bodykeys" /\ cmd.op = "encrypt" /\ ~cmd.usb
  /\ \E hash \in Hashes :
       KeysMade(BodyCiphers(hash, <<>>, password[1], Salt(3), Salt(4)), given)
  /\ params' = Some(EncParams(None))
  /\ pc' = "create"

\* With the one that is connected: it issues a credential and answers for it.
MakeKeysUsb ==
  /\ pc = "bodykeys" /\ cmd.op = "encrypt" /\ cmd.usb
  /\ \E hash \in Hashes, connected \in SUBSET Devices, device \in Devices :
       LET credential == <<device.id, runs>>
           hmac == HmacSecret(device, credential, Salt(5))
       IN  /\ OnlyDevice(connected, device) /\ Fits(credential)
           /\ KeysMade(BodyCiphers(hash, <<hmac>>, password[1], Salt(3), Salt(4)),
                       [given EXCEPT !.device = Some(device.id)])
           /\ params' = Some(EncParams(Some(credential)))
  /\ pc' = "create"

\* The source is opened (for a directory, the archive threads are started), then
\* WriteOutput::new truncates the output.
CreateEncrypted ==
  /\ pc = "create" /\ cmd.op = "encrypt"
  /\ disk' = Written(EncOut, Broken)
  /\ pc' = "header"
  /\ UNCHANGED <<dirs, runs, cmd, result, keyVars, before>>

\* create_header.  Both layers have the version in their associated data.
Header ==
  [clear |-> ClearPart(Salt(1), Salt(2)), keys |-> headerKeys[1], version |-> Version,
   sealed |-> Metadata(Version, params[1], Filler)]

Body ==
  [keys |-> bodyKeys[1], version |-> Version, fileId |-> FileId, compress |-> cmd.compress,
   root |-> FileName(cmd.in), content |-> disk[cmd.in]]

WriteHeader ==
  /\ pc = "header"
  /\ disk' = Written(EncOut, Sealed(Header, Body, "nothing", given))
  /\ pc' = "body"
  /\ UNCHANGED <<dirs, runs, cmd, result, keyVars, before>>

EncryptSome ==
  /\ pc = "body" /\ cmd.op = "encrypt" /\ disk[EncOut].amount = "nothing"
  /\ disk' = [disk EXCEPT ![EncOut].amount = "part"]
  /\ UNCHANGED <<dirs, runs, cmd, pc, result, keyVars, before>>

EncryptAll ==
  /\ pc = "body" /\ cmd.op = "encrypt"
  /\ disk' = [disk EXCEPT ![EncOut].amount = "whole"]
  /\ Return("ok")
  /\ UNCHANGED <<dirs, runs, cmd, given, before>>

\* A compression thread fails, and the segment in hand is flagged as the last.
EncryptCut ==
  /\ pc = "body" /\ cmd.op = "encrypt" /\ cmd.compress
  /\ disk' = [disk EXCEPT ![EncOut].amount = "cut"]
  /\ Return("failed")
  /\ UNCHANGED <<dirs, runs, cmd, given, before>>

-----------------------------------------------------------------------------
(* Decryption.                                                             *)

Input == disk[cmd.in]

\* The name, the size, and a header, which a file that is not encrypted lacks.
Acceptable ==
  /\ ~IsDir(cmd.in) /\ Decryptable(FileName(cmd.in))
  /\ IsSealed(Input) /\ Input.amount # "nothing"

CheckInput ==
  /\ pc = "check"
  /\ IF Acceptable THEN pc' = "password" /\ UNCHANGED <<result, keyVars>>
                   ELSE Return("refused") /\ UNCHANGED given
  /\ UNCHANGED <<disk, dirs, runs, cmd, before>>

\* Mutant: the header is not authenticated.
HeaderOpens_Any(keys) == Input.header.version = Version

\* Both layers of the header open.
HeaderOpens(keys) == Input.header.keys = keys /\ Input.header.version = Version

\* Then the version is looked at, and whether a key file is needed.
Supported(meta) == ReadVersion(meta) = Version
KeyfileGiven(meta) == ReadParams(meta).keyfile => cmd.keyfile # None

\* The password is entered once, and the header decrypted.
EnterPassword ==
  /\ pc = "password"
  /\ \E entered \in Passwords :
       LET clear == Input.header.clear
           keys  == HeaderCiphers(entered, ReadSaltPw(clear), ReadSaltEnc(clear))
           meta  == Input.header.sealed
       IN  /\ given' = [given EXCEPT !.password = Some(entered)]
           /\ IF HeaderOpens(keys) /\ Supported(meta) /\ KeyfileGiven(meta)
                THEN /\ password' = Some(entered) /\ headerKeys' = Some(keys)
                     /\ params' = Some(ReadParams(meta))
                     /\ pc' = "bodykeys"
                     /\ UNCHANGED <<result, bodyKeys>>
                ELSE Return("refused")
  /\ UNCHANGED <<disk, dirs, runs, cmd, before>>

\* A key file that is given is used, whether or not one is needed.
RebuildKeys ==
  /\ pc = "bodykeys" /\ cmd.op = "decrypt" /\ params[1].saltBodyFido = None
  /\ \E hash \in Hashes :
       KeysMade(BodyCiphers(hash, <<>>, password[1], params[1].saltBodyPw,
                            params[1].saltBodyEnc), given)
  /\ pc' = "mkdir"
  /\ UNCHANGED params

\* The USB key that is connected, if it has issued the credential.
Issued(device, credential) == device.id = credential[1]

RebuildKeysUsb ==
  /\ pc = "bodykeys" /\ cmd.op = "decrypt" /\ params[1].saltBodyFido # None
  /\ \E hash \in Hashes, connected \in SUBSET Devices, device \in Devices :
       LET credential == params[1].credential[1]
           hmac == HmacSecret(device, credential, params[1].saltBodyFido[1])
       IN  /\ OnlyDevice(connected, device)
           /\ IF Issued(device, credential)
                THEN /\ KeysMade(BodyCiphers(hash, <<hmac>>, password[1], params[1].saltBodyPw,
                                             params[1].saltBodyEnc),
                                 [given EXCEPT !.device = Some(device.id)])
                     /\ pc' = "mkdir" /\ UNCHANGED params
                ELSE /\ Return("refused")
                     /\ given' = [given EXCEPT !.device = Some(device.id)]
                     /\ UNCHANGED <<disk, dirs, runs, cmd, before>>

Listing == cmd.list /\ params[1].archive

\* Mutant: the option is forgotten.
MakeOutDir_Always ==
  /\ pc = "mkdir"
  /\ dirs' = dirs \cup {OutDir}
  /\ pc' = "create"
  /\ UNCHANGED <<disk, runs, cmd, result, keyVars, before>>

MakeOutDir ==
  /\ pc = "mkdir"
  /\ dirs' = IF Listing THEN dirs ELSE dirs \cup {OutDir}
  /\ pc' = "create"
  /\ UNCHANGED <<disk, runs, cmd, result, keyVars, before>>

\* WriteOutput::new truncates the output; ArchiveWrite::new does nothing.
CreateDecrypted ==
  /\ pc = "create" /\ cmd.op = "decrypt"
  /\ disk' = IF params[1].archive THEN disk ELSE Written(DecOut, Broken)
  /\ pc' = "body"
  /\ UNCHANGED <<dirs, runs, cmd, result, keyVars, before>>

\* Mutant: the keys of the body are not bound to the key file and the USB key.
BodyOpens_Any == IsSealed(Input) /\ Input.body.fileId = params[1].fileId

\* Every chunk of the body opens.
BodyOpens ==
  /\ IsSealed(Input)
  /\ Input.body.keys = bodyKeys[1] /\ Input.body.version = Version
  /\ Input.body.fileId = params[1].fileId /\ Input.body.compress = params[1].compress

\* The last of them has the final flag.
Ends == Input.amount \in {"whole", "cut"}

Content == IF Input.amount = "whole" THEN Input.body.content ELSE Broken
Target == IF params[1].archive THEN Join(OutDir, Input.body.root) ELSE DecOut

DecryptAll ==
  /\ pc = "body" /\ cmd.op = "decrypt" /\ BodyOpens /\ Ends
  /\ \/ Listing /\ UNCHANGED disk
     \/ /\ ~Listing /\ (params[1].archive => ~Exists(Target))
        /\ disk' = Written(Target, Content)
  /\ Return("ok")
  /\ UNCHANGED <<dirs, runs, cmd, given, before>>

\* The extraction of an archive fails half-way.
ExtractSome ==
  /\ pc = "body" /\ cmd.op = "decrypt" /\ BodyOpens
  /\ params[1].archive /\ ~Listing /\ ~Exists(Target)
  /\ disk' = Written(Target, Broken)
  /\ Return("failed")
  /\ UNCHANGED <<dirs, runs, cmd, given, before>>

\* A chunk does not open, be it the first, or the last for want of the flag.
DecryptRefused ==
  /\ pc = "body" /\ cmd.op = "decrypt" /\ ~(BodyOpens /\ Ends)
  /\ Return("refused")
  /\ UNCHANGED <<disk, dirs, runs, cmd, given, before>>

-----------------------------------------------------------------------------
\* The user deletes what has been encrypted.
DeleteOriginal ==
  /\ pc = "idle" /\ result = "ok" /\ cmd.op = "encrypt" /\ Exists(cmd.in)
  /\ disk' = [p \in DOMAIN disk \ {cmd.in} |-> disk[p]]
  /\ UNCHANGED <<dirs, runs, cmd, pc, result, keyVars, before>>

Encrypt ==
  \/ Prepare \/ ConfirmPassword \/ MakeKeys \/ MakeKeysUsb \/ CreateEncrypted \/ WriteHeader
  \/ EncryptSome \/ EncryptAll \/ EncryptCut

Decrypt ==
  \/ CheckInput \/ EnterPassword \/ RebuildKeys \/ RebuildKeysUsb \/ MakeOutDir
  \/ CreateDecrypted \/ DecryptAll \/ ExtractSome \/ DecryptRefused

Next ==
  \/ \E c \in Commands : Begin(c)
  \/ Encrypt \/ Decrypt \/ Abort \/ DeleteOriginal

Spec == Init /\ [][Next]_vars

-----------------------------------------------------------------------------
(* Properties.                                                             *)

\* The variables have their types.  The password is in memory only between its
\* entry and the derivation of the keys, not while the file is processed.
TypeOK ==
  /\ pc \in {"idle", "prepare", "confirm", "bodykeys", "create", "header", "body",
             "check", "password", "mkdir"}
  /\ result \in {"none", "ok", "refused", "failed"}
  /\ runs \in 0..MaxRuns
  /\ IF pc = "bodykeys" THEN password \in {Some(p) : p \in Passwords} ELSE password = None
  /\ cmd \in Commands \cup {NoCommand}
  /\ \A p \in DOMAIN disk : disk[p].kind \in {"data", "tree", "sealed", "broken"}

Encrypting == cmd.op = "encrypt"
Decrypting == cmd.op = "decrypt"
Source == before.disk[cmd.in]

\* What a run is entitled to change something for: an encryption has a confirmed
\* password; a decryption has the password of the file and, if it needs one, a
\* key file (any) and the USB key it was encrypted with.
Entitled ==
  /\ Encrypting => given.password # None
  /\ Decrypting =>
       /\ IsSealed(Source) /\ Source.header.version = Version
       /\ given.password = Source.with.password
       /\ Source.with.keyfile # None => cmd.keyfile # None
       /\ Source.with.device # None => given.device = Source.with.device

\* A run that is given up, refused, fails or is killed before it had the secrets
\* leaves all files as they were; a decryption leaves the directories, too.
\* (What the user deletes afterwards is not a change of the run.)
NothingWithoutSecrets ==
  /\ (\E p \in DOMAIN disk : p \notin DOMAIN before.disk \/ disk[p] # before.disk[p])
       => Entitled
  /\ Decrypting /\ dirs # before.dirs => Entitled

\* The contents of key files that make a difference.
KeyBlocks(keyfile) ==
  IF keyfile = None THEN <<>>
    ELSE LET b == Keyfiles[keyfile[1]]
         IN  SubSeq(b, 1, Minimum(Len(b), MaxKeyfileReads * ReadSize))

RightSecrets ==
  /\ given.password = Source.with.password
  /\ (cmd.keyfile = None) = (Source.with.keyfile = None)
  /\ KeyBlocks(cmd.keyfile) = KeyBlocks(Source.with.keyfile)
  /\ Source.with.device # None => given.device = Source.with.device

\* Decryption returns Ok only with all the secrets of the encryption, and what
\* it has written is what was encrypted, under its name; unless the encryption
\* had failed (EncryptCut).
RestoredTo(p) == Exists(p) /\ disk[p] = Source.body.content
OkIsOriginal ==
  pc = "idle" /\ Decrypting /\ result = "ok" =>
    /\ RightSecrets
    /\ \/ cmd.list /\ Source.body.content.kind = "tree"
       \/ Source.amount = "cut"
       \/ RestoredTo(Join(OutDir, Source.body.root))

\* With the secrets of the encryption, a complete file is never refused.
RightSecretsOpen ==
  /\ pc = "idle" /\ Decrypting /\ result = "refused"
  /\ IsSealed(Source) /\ Source.amount = "whole" /\ Source.header.version = Version
  /\ Decryptable(FileName(cmd.in))
  => ~RightSecrets

\* No sequence of runs loses data, wherever they are killed, if the user deletes
\* only what was encrypted with Ok: there is always the data itself or a
\* complete encrypted file of it (or one of that).
Complete(c) == IsSealed(c) /\ c.amount = "whole"
Holds(c, d) ==
  \/ c = d
  \/ Complete(c) /\ c.body.content = d
  \/ Complete(c) /\ Complete(c.body.content) /\ c.body.content.body.content = d
UserData == UNION {{fd[p] : p \in DOMAIN fd} : fd \in FirstDisks}
DataSurvives ==
  \A d \in UserData : d.kind \in {"data", "tree"} =>
    \E p \in DOMAIN disk : Holds(disk[p], d)

\* Listing an archive changes nothing.
ListChangesNothing ==
  Decrypting /\ cmd.list /\ IsSealed(Source) /\ Source.body.content.kind = "tree" =>
    disk = before.disk /\ dirs = before.dirs
=============================================================================
