----------------------------- MODULE MCSession -----------------------------
(* A file, a directory and an encrypted file of another version; plain     *)
(* encryption, encryption with every option, and to another directory; any *)
(* decryption of what there is.  Two passwords, two key files of which one *)
(* is longer than what is read of it, two USB keys and one without PIN.    *)
EXTENDS Session, TLC

Home == <<Root, <<<<"home">>>>>>
Out  == <<Root, <<<<"out">>>>>>
New  == <<Root, <<<<"new">>>>>>
Foo  == Join(Home, <<<<"foo">>>>)
Bar  == Join(Home, <<<<"bar">>>>)
Old  == Join(Home, <<<<"old">>, Cce>>)
FooCce == Join(Home, <<<<"foo">>, Cce>>)
FooC00 == Join(Home, <<<<"foo">>, C00>>)
BarCce == Join(Out, <<<<"bar">>, Cce>>)

Enc(in, out, keyfile, usb, compress, split) ==
  [op |-> "encrypt", in |-> in, out |-> out, keyfile |-> keyfile, usb |-> usb,
   compress |-> compress, split |-> split, list |-> FALSE]
Dec(in, out, keyfile, list) ==
  [op |-> "decrypt", in |-> in, out |-> out, keyfile |-> keyfile, usb |-> FALSE,
   compress |-> FALSE, split |-> FALSE, list |-> list]

MCCommands ==
  { Enc(Foo, None, None, FALSE, FALSE, FALSE), Enc(Foo, None, Some(2), TRUE, TRUE, TRUE),
    Enc(FooCce, None, None, FALSE, FALSE, FALSE), Enc(Bar, Some(Out), Some(1), FALSE, FALSE, FALSE),
    Dec(Foo, None, None, FALSE), Dec(Old, None, None, FALSE), Dec(Bar, None, None, FALSE) }
  \cup {Dec(FooCce, out, k, FALSE) : out \in {None, Some(Out)}, k \in {None, Some(1)}}
  \cup {Dec(FooC00, out, k, FALSE) : out \in {None, Some(Out)}, k \in {None, Some(1), Some(2), Some(3)}}
  \cup {Dec(BarCce, out, Some(1), list) : out \in {None, Some(New)}, list \in BOOLEAN}

MCKeyfiles == <<<<7>>, <<7, 8, 9>>, <<7, 8, 8>>>>

Device(id, pin) == [id |-> id, hmacSecret |-> TRUE, alwaysUv |-> TRUE, clientPin |-> pin]
MCDevices == {Device(1, TRUE), Device(2, TRUE), Device(3, FALSE)}

\* The file of another version.
OldSalt(use) == [i \in 1..SaltSize |-> 1000 + 10 * use + i]
OldParams ==
  [compress |-> FALSE, archive |-> FALSE, keyfile |-> FALSE, usbKey |-> FALSE,
   saltBodyPw |-> OldSalt(3), saltBodyEnc |-> OldSalt(4),
   fileId |-> [i \in 1..FileIdSize |-> 1060 + i], saltBodyFido |-> None, credential |-> None]
OldKeys(part) == Ciphers(<<PasswordPart("p")>>, OldSalt(1), OldSalt(2), part)
OldFile ==
  Sealed([clear |-> ClearPart(OldSalt(1), OldSalt(2)), keys |-> OldKeys("header"),
          version |-> Version - 1,
          sealed |-> Metadata(Version - 1, OldParams,
                       [salt |-> OldSalt(5), pad |-> [i \in 1..MaxCredentialSize |-> 9]])],
         [keys |-> OldKeys("body"), version |-> Version - 1, fileId |-> OldParams.fileId,
          compress |-> FALSE, root |-> <<<<"old">>>>, content |-> [kind |-> "data", id |-> "o"]],
         "whole", [NoSecrets EXCEPT !.password = Some("p")])

MCFirstDisks ==
  { (Foo :> [kind |-> "data", id |-> "f"]) @@ (Bar :> [kind |-> "tree", id |-> "b"])
      @@ (Old :> OldFile) }
=============================================================================
