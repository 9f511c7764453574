------------------------------ MODULE Tegrasign ------------------------------
(***************************************************************************)
(* tegrasign_v3.py in one working directory: the calls that tegraflash or  *)
(* a user makes one after the other, each on what the earlier ones and the *)
(* user left there.  An action is a stage of tegrasign(): taking the keys, *)
(* signing one child of the list, signing a single file, and so on.        *)
(*                                                                         *)
(* A file's contents are a sequence of cells, two to an AES block; a cell  *)
(* is what it was in the input and the key it is encrypted with.  A        *)
(* signature, MAC or digest says what it is, by which key and over what.   *)
(* Files whose names differ in the suffix alone, which share a .sha, are   *)
(* left out: the input files are of different stems.                       *)
(*                                                                         *)
(* tegraopenssl, openssl and xmss-sign, which are not in the repository,   *)
(* do what they are asked to, fail, with part of the result written or     *)
(* none, or end without an error and without a result.  The program then   *)
(* takes what it finds under the result's name: what an earlier run left.  *)
(***************************************************************************)
EXTENDS TegrasignKeys, TLC

CONSTANTS
    Files,        \* input files
    Size,         \* cells of each
    Calls,        \* argument records to explore
    MaxCalls,     \* bound: calls made
    MaxVersion    \* bound: how often the user makes an input file anew

VARIABLES
    disk,         \* contents of the working directory, by kind and input file
    xml,          \* X_signed.xml
    call,         \* arguments of the call
    pc,           \* stage it is at
    keys,         \* p_keylist
    at,           \* child of the list to be signed next
    ret,          \* how the last call ended
    calls,        \* calls made
    left,         \* tools of which an earlier run's result is still there
    xmss,         \* the XMSS key pair: which one it is, what of it is lost
    taken         \* history: products of this call that are not of its making,
                  \* a tool having left none and there being one

outside == <<left, xmss, taken>>
vars == <<disk, xml, call, pc, keys, at, ret, calls, outside>>

Block == 2                       \* cells of an AES block: 16 bytes in the code
MaxKeyList == 3
Kinds == {"in", "enc", "hash", "sig", "signed", "sha", "tag", "iv",
          "pk", "pk_v3", "pkh", "mode", "random"}
General == "general"             \* files that do not belong to an input
Names == Kinds \X (Files \cup {General})
Outcomes == {"ok", "failed", "part", "silent"}

Cell(f, ver, i) == [of |-> <<f, ver, i>>, by |-> NoKey]
Data(cells) == [how |-> "data", cells |-> cells, by |-> NoKey]
Seal(how, by, cells) == [how |-> how, cells |-> cells, by |-> by]
Absent == Seal("absent", NoKey, <<>>)
Emptied == Seal("emptied", NoKey, <<>>)    \* opened for writing, nothing written
Leftover == Seal("leftover", NoKey, <<>>)  \* made of an earlier run's result
Exists(name) == disk[name].how # "absent"
Fresh(f, ver) == Data([i \in 1..Size[f] |-> Cell(f, ver, i)])
Cells(f) == disk[<<"in", f>>].cells

\* Children of a list: a range of a file, a key and what is to be done with
\* it.  A digest is asked for over a range of its own, and looked for under a
\* name of its own.
NoSha == [file |-> General, off |-> 0, len |-> 0]
Nodes == [file : Files, off : Nat, len : Nat, key : Nat,
          tags : SUBSET {"sbk", "pkc", "ec", "eddsa", "xmss"},
          encrypt : BOOLEAN, sign : BOOLEAN,
          sha : {NoSha} \cup [file : Files, off : Nat, len : Nat]]
XmssKey == KeyFile("xmss", 1)    \* the one XMSS key file there is

ASSUME FilesAssumption == General \notin Files /\ Size \in [Files -> Nat \ {0}]
\* A list names each file once; it is given by --list, a single file by --file.
ASSUME CallsAssumption == \A a \in Calls :
    /\ a.off \in Nat /\ a.len \in Nat /\ a.block \in Nat /\ a.list \in Seq(Nodes)
    /\ \A i, j \in DOMAIN a.list : a.list[i].file = a.list[j].file => i = j
    /\ \A i \in DOMAIN a.keys : a.keys[i].type = "xmss" => a.keys[i] = XmssKey
    /\ a.what = "list" => a.isList
    /\ a.what = "file" => /\ ~a.isList /\ a.file \in Files
                          /\ a.enc \in {"no", "skip", "aescbc", "aesgcm"}

Hsm(a) == a.hsm # "off"
Whole(len) == (len \div Block) * Block
First(buf, n) == SubSeq(buf, 1, IF n < Len(buf) THEN n ELSE Len(buf))
Until(buf, off, len) == SubSeq(buf, off + 1, off + len)

-----------------------------------------------------------------------------
(* The tools.  Each writes its raw input, runs and reads its result.       *)

Encrypted(buf, key) == [i \in DOMAIN buf |-> [buf[i] EXCEPT !.by = key]]
AesCbc(buf, len, p) == Encrypted(First(buf, len), p.key)
AesGcmHsm(buf, len, p) == Encrypted(First(buf, len), SbkKeyContent(p))
AesGcm(buf, len, p, hsm) == IF hsm THEN AesGcmHsm(buf, len, p) ELSE Encrypted(First(buf, len), p.key)
AesCmac(buf, len, p) == Seal("cmac", p.key, First(buf, len))
HmacSha256Hsm(buf, p) == Seal("hmac", SbkKeyContent(p), buf)
HmacSha256(buf, len, p, hsm) == IF hsm THEN HmacSha256Hsm(buf, p) ELSE Seal("hmac", p.key, First(buf, len))
RsaPssHsm(buf, p) == Seal("rsa", KeyIn(p.file), buf)
RsaPss(buf, p, hsm) == IF hsm THEN RsaPssHsm(buf, p) ELSE Seal("rsa", KeyIn(p.file), buf)
Ecc(buf, p) == Seal("ecc", KeyIn(p.file), buf)
Ed25519Hsm(buf, p) == Seal("eddsa", KeyIn(p.file), buf)
Ed25519(buf, p, hsm) == IF hsm THEN Ed25519Hsm(buf, p) ELSE Seal("eddsa", KeyIn(p.file), buf)
\* The key that the file of that name holds in a pair.
Holds(pair, kf) == IF kf.type = "xmss" THEN KeyFile("xmss", pair.key) ELSE kf
Xmss(buf, p, pair) == Seal("xmss", KeyIn(Holds(pair, p.file)), buf)
Signature(buf, p, hsm, pair) == CASE p.mode = "PKC" -> RsaPss(buf, p, hsm)
                                  [] p.mode = "ECC" -> Ecc(buf, p)
                                  [] p.mode = "EDDSA" -> Ed25519(buf, p, hsm)
                                  [] p.mode = "XMSS" -> Xmss(buf, p, pair)

\* Length 0 is up to the end of the file.
Length(size, off, len) == IF len > 0 THEN len ELSE size - off
RangeFits(size, off, len) == off <= size /\ off + Length(size, off, len) <= size

\* do_sha() gives the name of its result, written or not.  A range that does
\* not fit ends the program when it is one, and is only reported otherwise.
ShaRange(d, f, off, len) ==
    LET buf == d[<<"in", f>>].cells IN Until(buf, off, Length(Len(buf), off, len))
ShaOf(d, f, off, len, o) ==
    IF RangeFits(Size[f], off, len) /\ o \in {"ok", "part"}
    THEN [d EXCEPT ![<<"sha", f>>] = IF o = "ok" THEN Seal("sha", NoKey, ShaRange(d, f, off, len)) ELSE Emptied]
    ELSE d
ShaRaises(a, f, off, len, o) ==
    IF RangeFits(Size[f], off, len) THEN o \in {"failed", "part"} ELSE a.standalone

-----------------------------------------------------------------------------
(* Results of the tools.  Their names carry the process's id, except on    *)
(* the HSM's route, where the names are fixed.                             *)

Tool(alg, hsm) == <<alg, IF hsm /\ alg \in {"hmac", "rsa", "eddsa"} THEN "hsm" ELSE "native">>
Fixed(ts) == {t \in ts : t[2] = "hsm"}
SignTool(p, hsm) == Tool(CASE p.mode = "PKC" -> "rsa" [] p.mode = "ECC" -> "ecc"
                           [] p.mode = "EDDSA" -> "eddsa" [] p.mode = "XMSS" -> "xmss", hsm)

\* The HSM's route opens the result of openssl whether there is one or not, and
\* exit_routine() only returns when tegrasign is not a program of its own.
Opened == {<<"hmac", "hsm">>, <<"rsa", "hsm">>}
Run(t, wanted) ==
    CASE ~wanted -> {"none"}
      [] wanted /\ t \in Opened /\ ~call.standalone -> {"ok", "failed", "old"}
      [] OTHER -> {"ok", "failed", "part", IF t \in left THEN "old" ELSE IF t \in Opened THEN "failed" ELSE "silent"}
\* A result that was read is removed.
After(t, o, ts) == CASE o \in {"ok", "old"} -> ts \ {t} [] o = "part" -> ts \cup {t} [] OTHER -> ts
Good == {"none", "ok", "old"}
OldOf(o, names) == IF o = "old" THEN names ELSE {}
Misread(d, names) == [n \in Names |-> IF n \in names THEN Leftover ELSE d[n]]

-----------------------------------------------------------------------------
(* Ends of a call.  exit_routine() ends the program with status 1 or       *)
(* returns 1; an exception that tegrasign() catches does the same.         *)

Ends(r) == pc' = "idle" /\ ret' = r /\ at' = 1 /\ UNCHANGED <<xml, call, keys, calls>>
Failed(d, l) == Ends("error") /\ disk' = d /\ left' = l /\ UNCHANGED taken
ErrorWith(d) == Failed(d, left) /\ UNCHANGED xmss
Succeeds(d, l, old) == Ends("ok") /\ disk' = d /\ left' = l /\ taken' = taken \cup old
GoesTo(stage) == pc' = stage /\ UNCHANGED <<call, ret, calls>>

-----------------------------------------------------------------------------
(* Taking the keys.                                                        *)

NeedsKeys(a) == a.keys # <<>> \/ Hsm(a) \/ a.kdf = "file"
\* An XMSS key that could not be made anew is not there any more.
Present(kf) == IF kf.type = "xmss" /\ xmss.key = 0 THEN KeyFile("missing", 0) ELSE kf
GivenKey(a) == IF a.keys = <<>> THEN NoKeyFile ELSE Present(a.keys[1])

KeysOfList(a) == [i \in DOMAIN a.keys |-> ExtractKey(FreshSignKey, Present(a.keys[i]), Hsm(a))]
\* The type is that of --hsm, or is set to the mode found and the key taken
\* again, now on the HSM route.
SingleKey(a) ==
    LET typed == IF Hsm(a) THEN ParseHsm(FreshSignKey, a.hsm, "HSM") ELSE FreshSignKey
        found == IF a.kdf = "file" THEN ParseKdfFile(typed, GivenKey(a), a.hsm)
                 ELSE ExtractKey(typed, GivenKey(a), Hsm(a))
        set == ParseHsm(found, a.hsm, found.mode)
    IN IF Hsm(a) \/ found.mode = "Unknown" THEN found
       ELSE IF a.keys # <<>> THEN ExtractKey(set, GivenKey(a), FALSE) ELSE set
KeyList(a) == IF a.isList THEN KeysOfList(a) ELSE <<SingleKey(a)>>

KeysFit(a, ps) == /\ Len(ps) <= MaxKeyList
                  /\ \A i \in DOMAIN ps : ps[i].mode \notin {"Unknown"}
                  /\ a.isList \/ HsmModeValid(ps[1])
                  /\ \A i \in DOMAIN ps : ps[i].mode = ps[1].mode

WithPublic(d, kf) == [d EXCEPT ![<<"pk", General>>] = Seal("pk", KeyIn(Holds(xmss, kf)), <<>>)]
\* What recognises a key writes its public part, too, or copies it.
HasPublicPart(mode) == \/ mode \in {"PKC", "ECC", "EDDSA"}
                       \/ mode = "XMSS" /\ xmss.lost # "pub"
WithPublicPart(d, a, ps) ==
    IF a.pkh # "no" /\ HasPublicPart(ps[1].mode) THEN WithPublic(d, ps[Len(ps)].file) ELSE d

ExtractKeys ==
    /\ pc = "keys"
    /\ \/ /\ KeysFit(call, KeyList(call))
          /\ keys' = KeyList(call)
          /\ disk' = WithPublicPart(disk, call, KeyList(call))
          /\ GoesTo("prepare") /\ UNCHANGED <<xml, at, outside>>
       \/ ErrorWith(disk)    \* a key that does not fit, or the tool fails
       \/ \E i \in DOMAIN call.keys : call.pkh # "no" /\ ErrorWith(WithPublic(disk, Present(call.keys[i])))

ModeStr(p) == CASE p.mode = "PKC" -> "pkc" [] p.mode = "ECC" -> "ec" [] p.mode = "EDDSA" -> "eddsa"
                [] p.mode = "XMSS" -> "xmss" [] OTHER -> "sbk"
ModeTxt(p) == IF ModeStr(p) = "sbk" /\ p.key = Zero THEN "zerosbk" ELSE ModeStr(p)

GetMode(d, a) == IF a.getmode THEN [d EXCEPT ![<<"mode", General>>] = Seal(ModeTxt(keys[1]), NoKey, <<>>)] ELSE d
IvName(a) == <<"iv", IF a.what = "file" THEN a.file ELSE General>>
RandomIv(d, a) == IF a.iv = "random" THEN [d EXCEPT ![IvName(a)] = Seal("iv", NoKey, <<>>)] ELSE d

Prepare ==
    /\ pc = "prepare"
    /\ disk' = RandomIv(GetMode(disk, call), call)
    /\ GoesTo(IF call.what \in {"list", "file"} THEN call.what ELSE "hash")
    /\ UNCHANGED <<xml, keys, at, outside>>

-----------------------------------------------------------------------------
(* --list: children of the XML file, each with the tags of the modes it    *)
(* can be signed in.                                                       *)

Child == call.list[at]
ChildLen(nd) == Length(Len(Cells(nd.file)), nd.off, nd.len)
ToSign(nd) == Until(Cells(nd.file), nd.off, ChildLen(nd))
Tag == [SBK |-> "sbk", FSKP |-> "sbk", PKC |-> "pkc", ECC |-> "ec", EDDSA |-> "eddsa", XMSS |-> "xmss"]
ChildKeyFirst(nd) == keys[1]
ChildKey(nd) == keys[nd.key + 1]
ChildFits(nd) == /\ Exists(<<"in", nd.file>>)
                 /\ RangeFits(Len(Cells(nd.file)), nd.off, nd.len)
                 /\ nd.key + 1 \in DOMAIN keys
                 /\ Tag[ChildKey(nd).mode] \in nd.tags
NextChild(d, l, old) == /\ disk' = d /\ left' = l /\ taken' = taken \cup old
                        /\ at' = at + 1 /\ GoesTo("list") /\ UNCHANGED <<xml, keys>>

\* What is encrypted is the blocks that are whole, what is left as it is is
\* not cut: it is followed by all that comes after the last whole block.
Buffer(nd, p) == IF ~nd.encrypt \/ p.key = Zero THEN ToSign(nd)
                 ELSE AesCbc(ToSign(nd), Whole(ChildLen(nd)), p)
Splice(buf, off, len, part) == First(buf, off) \o part \o Until(buf, off + len, Len(buf) - off - len)

WithEnc(d, nd, p) ==
    [d EXCEPT ![<<"enc", nd.file>>] = Data(Splice(Cells(nd.file), nd.off, Whole(ChildLen(nd)), Buffer(nd, p)))]
WithHash(d, nd, p) ==
    [d EXCEPT ![<<"hash", nd.file>>] = AesCmac(Buffer(nd, p), Whole(ChildLen(nd)), p)]

\* The digest asked for.  That there is one under the name in the list is all
\* that is looked at; that the range does not fit is not heard of.
PerformSha(d, l, old, nd, o) ==
    LET sha == nd.sha
        made == ShaOf(d, nd.file, sha.off, sha.len, o)
        writes == o = "ok" /\ RangeFits(Size[nd.file], sha.off, sha.len)
    IN IF sha = NoSha THEN NextChild(d, l, old)
       ELSE IF ShaRaises(call, nd.file, sha.off, sha.len, o) \/ made[<<"sha", sha.file>>] = Absent THEN Failed(made, l)
       ELSE NextChild(made, l, old \cup IF writes THEN {} ELSE {<<"sha", nd.file>>})

\* A result that is missing is a string of zeros, which cannot be written to
\* a binary file: by then the file is open and empty.  So is the hash of a
\* child that is not to be signed.
SignSymmetricChild ==
    /\ pc = "list" /\ at \in DOMAIN call.list /\ ChildFits(Child) /\ UNCHANGED xmss
    /\ LET p == ChildKey(Child)
           enc == <<"enc", Child.file>>
           hash == <<"hash", Child.file>>
           written == WithEnc(disk, Child, p)
           encrypts == Child.encrypt /\ p.key # Zero
           Cbc == Tool("cbc", FALSE)
           Cmac == Tool("cmac", FALSE)
       IN /\ p.mode \in {"SBK", "FSKP"}
          /\ \E cbc \in Run(Cbc, encrypts), cmac \in Run(Cmac, Child.sign), sha \in Outcomes :
               LET l == After(Cmac, cmac, After(Cbc, cbc, left))
                   old == OldOf(cbc, {enc, hash}) \cup OldOf(cmac, {hash})
               IN IF cbc \notin Good THEN Failed(disk, After(Cbc, cbc, left))
                  ELSE IF cmac \in {"failed", "part"} THEN Failed(disk, l)
                  ELSE IF cmac \in {"none", "silent"}
                  THEN Failed([Misread(written, old) EXCEPT ![hash] = Emptied], l)
                  ELSE PerformSha(Misread(WithHash(written, Child, p), old), l, old, Child, sha)

\* do_xmss() makes the pair anew if a file of it is missing, for which it
\* removes the others.
Gone == [key |-> 0, lost |-> "all"]
Pairs(p) == IF p.mode = "XMSS" /\ xmss.lost # "none" THEN {[key |-> xmss.key + 1, lost |-> "none"], Gone} ELSE {xmss}
\* The native tool that signs writes the public key as well; of an XMSS key it
\* is copied before.
PublicOf(p, pair, o) ==
    IF call.pkh # "no" /\ (p.mode = "XMSS" \/ (o = "ok" /\ SignTool(p, Hsm(call))[2] = "native"))
    THEN [disk EXCEPT ![<<"pk", General>>] = Seal("pk", KeyIn(Holds(pair, p.file)), <<>>)] ELSE disk

SignPublicChild ==
    /\ pc = "list" /\ at \in DOMAIN call.list /\ ChildFits(Child)
    /\ LET p == ChildKey(Child)
           sig == <<"sig", Child.file>>
           tool == SignTool(p, Hsm(call))
       IN /\ p.mode \notin {"SBK", "FSKP"}
          /\ \E pair \in Pairs(p), o \in Run(tool, TRUE) :
               LET d == PublicOf(p, pair, o)
                   l == After(tool, o, left)
                   old == OldOf(o, {sig})
               IN /\ xmss' = pair
                  /\ IF p.mode = "XMSS" /\ pair = Gone THEN Failed(disk, left)
                     ELSE IF o \in {"failed", "part"} \/ (o = "silent" /\ p.mode = "XMSS") THEN Failed(d, l)
                     ELSE IF o = "silent" THEN Failed([d EXCEPT ![sig] = Emptied], l)
                     ELSE NextChild(Misread([d EXCEPT ![sig] = Signature(ToSign(Child), p, Hsm(call), pair),
                                                      ![<<"signed", Child.file>>] = disk[<<"in", Child.file>>]], old),
                                    l, old)

RejectChild ==
    /\ pc = "list" /\ at \in DOMAIN call.list /\ ~ChildFits(Child)
    /\ ErrorWith(disk)

SignedXml ==
    /\ pc = "list" /\ at \notin DOMAIN call.list
    /\ xml' = [mode |-> ModeStr(keys[1]), list |-> call.list]
    /\ at' = 1 /\ GoesTo("hash") /\ UNCHANGED <<disk, keys, outside>>

-----------------------------------------------------------------------------
(* --file: a single file, in place of a list.                              *)

EncHow(a) == IF a.sign = "no" /\ a.enc = "no" THEN "aescbc" ELSE a.enc
SignHow(a) == IF a.sign = "no" THEN "aescmac" ELSE a.sign
FileLen(a) == Length(Len(Cells(a.file)), a.off, a.len)
FileToSign(a) == Until(Cells(a.file), a.off, FileLen(a))
FileFits(a) == RangeFits(Len(Cells(a.file)), a.off, a.len)

\* An FSKP is not looked at for zeros when there is an HSM.
EncryptsWith(a, p) ==
    IF EncHow(a) \in {"no", "skip"} THEN "no"
    ELSE IF p.key = Zero /\ ~(p.mode = "FSKP" /\ Hsm(a)) THEN "no" ELSE EncHow(a)
FileBuffer(a, p) ==
    LET len == Whole(FileLen(a))
    IN CASE EncryptsWith(a, p) = "no" -> FileToSign(a)
         [] EncryptsWith(a, p) = "aescbc" -> AesCbc(FileToSign(a), len, p)
         [] EncryptsWith(a, p) = "aesgcm" -> AesGcm(FileToSign(a), len, p, Hsm(a))
FileMacOfInput(a, p) ==
    IF SignHow(a) = "hmacsha256" THEN HmacSha256(FileToSign(a), Whole(FileLen(a)), p, Hsm(a))
    ELSE AesCmac(FileToSign(a), Whole(FileLen(a)), p)
FileMac(a, p) ==
    IF SignHow(a) = "hmacsha256" THEN HmacSha256(FileBuffer(a, p), Whole(FileLen(a)), p, Hsm(a))
    ELSE AesCmac(FileBuffer(a, p), Whole(FileLen(a)), p)
MacsFile(a) == SignHow(a) = "hmacsha256" \/ EncHow(a) # "aesgcm"
NeedsHsmKey(a, p) == Hsm(a) /\ (SignHow(a) = "hmacsha256" \/ EncryptsWith(a, p) = "aesgcm")

FileMade(d, l, old) == /\ disk' = d /\ left' = l /\ taken' = taken \cup old
                       /\ GoesTo("hash") /\ UNCHANGED <<xml, keys, at>>

SignSymmetricFile ==
    /\ pc = "file" /\ call.kdf = "no" /\ FileFits(call) /\ keys[1].mode \in {"SBK", "FSKP"} /\ UNCHANGED xmss
    /\ LET p == keys[1]
           f == call.file
           enc == <<"enc", f>>
           hash == <<"hash", f>>
           how == EncryptsWith(call, p)
           Cipher == Tool(IF how = "aesgcm" THEN "gcm" ELSE "cbc", FALSE)
           Mac == IF SignHow(call) = "hmacsha256" THEN Tool("hmac", Hsm(call)) ELSE Tool("cmac", FALSE)
           tagged == IF how = "aesgcm" THEN [disk EXCEPT ![<<"tag", f>>] = Seal("tag", NoKey, FileBuffer(call, p))]
                     ELSE disk
           written == [tagged EXCEPT ![enc] =
                         Data(Splice(Cells(f), call.off, Whole(FileLen(call)), FileBuffer(call, p)))]
       IN \E cipher \in Run(Cipher, how # "no"), mac \in Run(Mac, MacsFile(call)) :
            LET l == After(Mac, mac, After(Cipher, cipher, left))
                old == OldOf(cipher, {enc, hash}) \cup OldOf(mac, {hash})
            IN IF NeedsHsmKey(call, p) /\ ~CanReadSbk(p) THEN Failed(disk, left)
               ELSE IF cipher \notin Good THEN Failed(disk, After(Cipher, cipher, left))
               ELSE IF mac \in {"failed", "part"} THEN Failed(tagged, l)
               ELSE IF mac = "silent" THEN Failed([Misread(written, old) EXCEPT ![hash] = Emptied], l)
               ELSE FileMade(Misread(IF MacsFile(call) THEN [written EXCEPT ![hash] = FileMac(call, p)] ELSE written, old),
                             l, old)

SignPublicFile ==
    /\ pc = "file" /\ call.kdf = "no" /\ FileFits(call) /\ keys[1].mode \notin {"SBK", "FSKP"}
    /\ LET p == keys[1]
           sig == <<"sig", call.file>>
           tool == SignTool(p, Hsm(call))
       IN \E pair \in Pairs(p), o \in Run(tool, TRUE) :
            LET d == PublicOf(p, pair, o)
                l == After(tool, o, left)
                old == OldOf(o, {sig})
            IN /\ xmss' = pair
               /\ IF p.mode = "XMSS" /\ pair = Gone THEN Failed(disk, left)
                  ELSE IF o \in {"failed", "part"} \/ (o = "silent" /\ p.mode = "XMSS") THEN Failed(d, l)
                  ELSE IF o = "silent" THEN Failed([d EXCEPT ![sig] = Emptied], l)
                  ELSE FileMade(Misread([d EXCEPT ![sig] = Signature(FileToSign(call), p, Hsm(call), pair)], old), l, old)

RejectFile == pc = "file" /\ call.kdf = "no" /\ ~FileFits(call) /\ ErrorWith(disk)

-----------------------------------------------------------------------------
(* --kdf with a file of parameters: a chain of derivations, then AES-GCM.  *)

\* A range that does not fit was only reported; a slice takes what there is.
KdfSource(a) ==
    LET size == Len(Cells(a.file))
        last == IF a.off + FileLen(a) < size THEN a.off + FileLen(a) ELSE size
    IN SubSeq(Cells(a.file), a.off + 1, last)

\* With a block size the HSM is asked once for each block.  The last one is
\* what the length leaves over: nothing, if it is a multiple.
BlockCount(len, bs) == len \div bs + (IF len % bs # 0 THEN 1 ELSE 0)
BlockEnd(i, len, bs) == i * bs + (IF i + 1 = BlockCount(len, bs) THEN len % bs ELSE bs)
HsmBlocks(buf, bs, key) ==
    IF bs = 0 THEN Encrypted(buf, key)
    ELSE [j \in DOMAIN buf |->
            IF j <= BlockEnd((j - 1) \div bs, Len(buf), bs) THEN [buf[j] EXCEPT !.by = key] ELSE buf[j]]

KdfOem(a, dk, m) ==
    IF Hsm(a) THEN HsmBlocks(KdfSource(a), a.block, KdfOemHsmKey(m, a.flag))
    ELSE Encrypted(KdfSource(a), KdfOemKey(m, a.flag))

\* With flag DEV the parameters come from a module that may not be there.
DerivesDev(a) == a.flag = "DEV" /\ NvLoad
DerivesOem(a) == a.flag # "DEV" /\ (Hsm(a) => CanReadSbk(HsmSignKey))
Derived(a, dk) == IF a.flag = "DEV" THEN Encrypted(KdfSource(a), DevKey(dk, a.ver))
                  ELSE KdfOem(a, dk, KdfParamsOem(dk, a.ver, keys[1]))
WithDerived(d, a, part) ==
    [d EXCEPT ![<<"tag", a.file>>] = Seal("tag", NoKey, part),
              ![<<"enc", a.file>>] = Data(Splice(Cells(a.file), a.off, Len(part), part))]

\* The HSM derives with HMACs and encrypts with AES-GCM; tegraopenssl does all.
HsmDerives(a) == Hsm(a) /\ a.flag # "DEV"
KdfTool(a) == Tool(IF a.flag = "DEV" THEN "kdf" ELSE IF Hsm(a) THEN "gcm" ELSE "aeskdf", FALSE)
KdfProducts(a) == {<<"enc", a.file>>, <<"tag", a.file>>}

KeyDerivation ==
    /\ pc = "file" /\ call.kdf = "file" /\ UNCHANGED xmss
    /\ \/ /\ DerivesDev(call) \/ DerivesOem(call)
          /\ \E dk \in MapBinToDk(call.words, call.dk, call.magic) \cap DOMAIN DkTable,
                hmac \in Run(Tool("hmac", TRUE), HsmDerives(call)), last \in Run(KdfTool(call), TRUE) :
               LET between == After(Tool("hmac", TRUE), hmac, left)
                   l == After(KdfTool(call), last, between)
                   old == OldOf(hmac, KdfProducts(call)) \cup OldOf(last, KdfProducts(call))
               IN IF hmac \notin Good THEN Failed(disk, between)
                  ELSE IF last \notin Good THEN Failed(disk, l)
                  ELSE Succeeds(Misread(WithDerived(disk, call, Derived(call, dk)), old), l, old)
       \/ Failed(disk, left)    \* no DK or no parameters

-----------------------------------------------------------------------------
(* --kdf with a label and a context: one derivation.  With only one of the *)
(* two there is no flag to look at.                                        *)

Label(a) == <<"label", a.ver>>
Kdf2Key(a, p) == IF Hsm(a) THEN KdfKdf2Hsm(p, Label(a)) ELSE KdfKdf2(p, Label(a))
Kdf2Ready(a) == pc = "file" /\ a.kdf = "two" /\ (Hsm(a) => CanReadSbk(keys[1]))

DeriveAesgcm ==
    /\ Kdf2Ready(call) /\ call.enc = "aesgcm" /\ UNCHANGED xmss
    /\ LET part == Encrypted(KdfSource(call), Kdf2Key(call, keys[1]))
           Hmac == Tool("hmac", Hsm(call))
           Gcm == Tool("gcm", FALSE)
       IN \E hmac \in Run(Hmac, TRUE), gcm \in Run(Gcm, TRUE) :
            LET l == After(Gcm, gcm, After(Hmac, hmac, left))
                old == OldOf(hmac, KdfProducts(call)) \cup OldOf(gcm, KdfProducts(call))
            IN IF hmac \notin Good THEN Failed(disk, After(Hmac, hmac, left))
               ELSE IF gcm \notin Good THEN Failed(disk, l)
               ELSE Succeeds(Misread(WithDerived(disk, call, part), old), l, old)

\* Two runs of the same tool: for the key, and with it.
DeriveHmacsha ==
    /\ Kdf2Ready(call) /\ call.enc # "aesgcm" /\ SignHow(call) = "hmacsha256" /\ UNCHANGED xmss
    /\ LET hash == <<"hash", call.file>>
           Hmac == Tool("hmac", Hsm(call))
           made == [disk EXCEPT ![hash] = Seal("hmac", Kdf2Key(call, keys[1]), KdfSource(call))]
       IN \E o \in Run(Hmac, TRUE) :
            LET l == After(Hmac, o, left)
            IN \/ IF o \in Good THEN Succeeds(Misread(made, OldOf(o, {hash})), l, OldOf(o, {hash}))
                  ELSE Failed(disk, l)
               \/ o \in Good /\ Failed(disk, l)
               \/ o \in Good /\ ~Hsm(call) /\ Failed([disk EXCEPT ![hash] = Emptied], l)

\* The tool writes the output file; that there is one is all that is looked at.
DeriveCbc ==
    /\ pc = "file" /\ call.kdf = "two" /\ call.enc # "aesgcm" /\ SignHow(call) # "hmacsha256" /\ UNCHANGED xmss
    /\ LET enc == <<"enc", call.file>>
       IN \E o \in Outcomes :
            CASE o = "ok" -> Succeeds([disk EXCEPT ![enc] = Data(Encrypted(KdfSource(call), KdfKdf2(keys[1], Label(call))))], left, {})
              [] o = "failed" -> Failed(disk, left)
              [] o = "part" -> Failed([disk EXCEPT ![enc] = Emptied], left)
              [] o = "silent" -> IF Exists(enc) THEN Succeeds(disk, left, {enc})
                                 ELSE Ends("false") /\ UNCHANGED <<disk, left, taken>>

RejectKdf == /\ pc = "file"
             /\ \/ call.kdf = "one"
                \/ call.kdf = "two" /\ Hsm(call) /\ ~CanReadSbk(keys[1])
             /\ ErrorWith(disk)

-----------------------------------------------------------------------------
(* The public key's hash, at the end; and the calls without a key.         *)

\* pcp.bin is hashed into pcp.sha, which is renamed.
SavePublicKeyHash(d, pk) ==
    \/ d[pk].how # "absent" /\ Succeeds([d EXCEPT ![<<"pkh", General>>] = Seal("pkh", d[pk].by, <<>>)], left, {})
    \/ Failed(d, left)

Finish ==
    /\ pc = "hash" /\ UNCHANGED xmss
    /\ IF call.pkh = "pair" THEN SavePublicKeyHash(disk, <<"pk", General>>) ELSE Succeeds(disk, left, {})

Randomize ==
    /\ pc = "nokey" /\ call.what = "random" /\ UNCHANGED xmss
    /\ Succeeds([disk EXCEPT ![<<"random", General>>] = Seal("random", NoKey, <<>>)], left, {})

\* A public key that tegrasign wrote is hashed as it is, one that openssl
\* wrote is converted first.  An algorithm that is not known is reported; what
\* is hashed then is what an earlier conversion left, if there was one.
ConvertedKey(d, a) == IF a.algo = "openssl" THEN [d EXCEPT ![<<"pk_v3", General>>] = Seal("pk", KeyIn(KeyFile("openssl", 0)), <<>>)]
                      ELSE d
HashPublicKey ==
    /\ pc = "nokey" /\ call.what = "pubkey" /\ UNCHANGED xmss
    /\ SavePublicKeyHash(ConvertedKey(disk, call),
                         <<IF call.algo = "tegrasign" THEN "pk" ELSE "pk_v3", General>>)

ComputeSha ==
    /\ pc = "nokey" /\ call.what = "sha" /\ UNCHANGED xmss
    /\ \E o \in Outcomes :
         LET made == ShaOf(disk, call.file, call.off, call.len, o)
         IN IF ShaRaises(call, call.file, call.off, call.len, o) THEN Failed(made, left)
            ELSE Succeeds(made, left, IF made # disk THEN {} ELSE {<<"sha", call.file>>})

-----------------------------------------------------------------------------

\* A call may come from the process that made the last one.
Invoke(a) ==
    /\ pc = "idle" /\ calls < MaxCalls
    /\ call' = a /\ keys' = <<>> /\ at' = 1 /\ ret' = "running" /\ calls' = calls + 1
    /\ pc' = IF NeedsKeys(a) THEN "keys" ELSE "nokey"
    /\ left' \in IF call.standalone \/ a.standalone THEN {Fixed(left)} ELSE {left, Fixed(left)}
    /\ taken' = {}
    /\ UNCHANGED <<disk, xml, xmss>>

\* flash.sh and tegraflash make the images anew between two calls.
Regenerate(f) ==
    /\ pc = "idle" /\ Cells(f)[1].of[2] < MaxVersion
    /\ disk' = [disk EXCEPT ![<<"in", f>>] = Fresh(f, Cells(f)[1].of[2] + 1)]
    /\ ret' = "none"
    /\ UNCHANGED <<xml, call, pc, keys, at, calls, outside>>

\* Of the XMSS pair the cache or the public key is lost: it is not in the
\* directory that tegrasign is called in.
LosePart(part) ==
    /\ pc = "idle" /\ xmss.lost = "none"
    /\ xmss' = [xmss EXCEPT !.lost = part]
    /\ ret' = "none"
    /\ UNCHANGED <<disk, xml, call, pc, keys, at, calls, left, taken>>

\* With the process, what is under names of its own is out of reach.
Kill ==
    /\ pc # "idle" /\ Ends("killed") /\ UNCHANGED <<disk, xmss, taken>>
    /\ \/ left' = Fixed(left)
       \/ \E alg \in {"hmac", "rsa", "eddsa"} :
            pc \in {"list", "file"} /\ Hsm(call) /\ left' = Fixed(left) \cup {Tool(alg, TRUE)}

Init ==
    /\ disk = [n \in Names |-> IF n[1] = "in" /\ n[2] # General THEN Fresh(n[2], 1) ELSE Absent]
    /\ xml = [mode |-> "absent", list |-> <<>>]
    /\ call \in Calls
    /\ pc = "idle" /\ keys = <<>> /\ at = 1 /\ ret = "none" /\ calls = 0
    /\ left = {} /\ taken = {} /\ xmss = [key |-> XmssKey.id, lost |-> "none"]

Next == \/ \E a \in Calls : Invoke(a)
        \/ \E f \in Files : Regenerate(f)
        \/ \E part \in {"cache", "pub"} : LosePart(part)
        \/ ExtractKeys \/ Prepare
        \/ SignSymmetricChild \/ SignPublicChild \/ RejectChild \/ SignedXml
        \/ SignSymmetricFile \/ SignPublicFile \/ RejectFile
        \/ KeyDerivation \/ DeriveAesgcm \/ DeriveHmacsha \/ DeriveCbc \/ RejectKdf
        \/ Finish \/ Randomize \/ HashPublicKey \/ ComputeSha
        \/ Kill

Spec == Init /\ [][Next]_vars

-----------------------------------------------------------------------------
(* Properties.                                                             *)

Succeeded(what) == pc = "idle" /\ ret = "ok" /\ call.what = what
\* The key that a key file stands for; one that cannot be read is zeros.
Intended(kf) == IF kf.type \in {"sbk", "fskp"} THEN KeyIn(kf) ELSE Zero
Symmetric(kf) == kf.type \in {"sbk", "fskp", "zero", "missing", "None"}
\* f's input, with the range encrypted.
WithRange(f, off, len, key) ==
    [j \in DOMAIN Cells(f) |-> IF key # Zero /\ j \in off + 1 .. off + len
                               THEN [Cells(f)[j] EXCEPT !.by = key] ELSE Cells(f)[j]]

\* A digest is of this call: over its range of the input as it is now.
DigestDone(nd) ==
    nd.sha # NoSha /\ nd.sha.file = nd.file =>
        disk[<<"sha", nd.file>>] = Seal("sha", NoKey, ShaRange(disk, nd.file, nd.sha.off, nd.sha.len))

ChildDone(nd, kf) ==
    LET len == ChildLen(nd)
        enc == <<"enc", nd.file>>
        hash == <<"hash", nd.file>>
        sig == <<"sig", nd.file>>
    IN IF Symmetric(kf)
       THEN /\ len % Block = 0 =>
                 /\ enc \notin taken =>
                      disk[enc] = Data(WithRange(nd.file, nd.off, len, IF nd.encrypt THEN Intended(kf) ELSE Zero))
                 /\ enc \notin taken /\ hash \notin taken =>
                      disk[hash] = Seal("cmac", Intended(kf), Until(disk[enc].cells, nd.off, len))
            /\ <<"sha", nd.file>> \notin taken => DigestDone(nd)
       ELSE /\ sig \notin taken => /\ disk[sig].by = KeyIn(Holds(xmss, kf))
                                  /\ disk[sig].cells = Until(Cells(nd.file), nd.off, len)
            /\ disk[<<"signed", nd.file>>] = disk[<<"in", nd.file>>]

\* When a call with a list says that it succeeded, X_signed.xml is of that
\* list, and what each child has on the disk is of this call: made from the
\* input as it is now, with the key of the child's key_index, over its range,
\* the rest unchanged; the digest over the range asked for; an XMSS signature
\* by the pair that there is now.  That is so whatever earlier calls, failures
\* and kills left, but for what tegrasign takes from there: if a tool ends
\* without an error and without a result, an earlier one is taken for it.
\* A range is a whole number of blocks, as callers align it; keys of an HSM
\* are not used for AES-CBC and CMAC at all.
ListSigned ==
    Succeeded("list") /\ ~Hsm(call) =>
        /\ xml.list = call.list
        /\ \A i \in DOMAIN call.list : ChildDone(call.list[i], Present(call.keys[call.list[i].key + 1]))

\* The same without that exception, for the digests: what is wrong with
\* looking only whether there is a file (perform_sha()).
DigestsAreOfThisCall == Succeeded("list") /\ ~Hsm(call) => \A i \in DOMAIN call.list :
    keys[call.list[i].key + 1].mode \in {"SBK", "FSKP"} => DigestDone(call.list[i])

FileDone(a) ==
    LET f == a.file
        kf == Present(a.keys[1])
        len == FileLen(a)
        enc == <<"enc", f>>
        hash == <<"hash", f>>
        sig == <<"sig", f>>
    IN IF Symmetric(kf)
       THEN len % Block = 0 =>
              /\ enc \notin taken =>
                   disk[enc] = Data(WithRange(f, a.off, len,
                                        IF EncHow(a) \in {"aescbc", "aesgcm"} THEN Intended(kf) ELSE Zero))
              /\ MacsFile(a) /\ enc \notin taken /\ hash \notin taken =>
                   disk[hash].by = Intended(kf) /\ disk[hash].cells = Until(disk[enc].cells, a.off, len)
       ELSE sig \notin taken => /\ disk[sig].by = KeyIn(Holds(xmss, kf))
                              /\ disk[sig].cells = Until(Cells(f), a.off, len)

\* The same for a single file: the encrypted file is the input with the range
\* encrypted, and the MAC is over what was written, not over what was read.
FileSigned == Succeeded("file") /\ call.kdf = "no" /\ ~Hsm(call) => FileDone(call)

\* The SBK at the root of a chain: the one named with --key, or the HSM's.
RootSbk(a) == IF Hsm(a) THEN KeyIn(KeyFile("sbk", 0))
              ELSE IF ExtractAesKey(GivenKey(a)) THEN AesKeyOf(GivenKey(a)) ELSE KeyIn(KeyFile("plain", 0))
WholeBlocksOfHsm(a) == Hsm(a) /\ a.block # 0 /\ Len(KdfSource(a)) % a.block = 0

\* When a call with a file of derivation parameters says that it succeeded, the
\* range is encrypted with the key that the table gives for the image, derived
\* from the root down through every KDK above it - natively and by the HSM.
\* Not so with SBK_FW_KDK in the chain, whose message is lost, with an HSM
\* whose blocks fill the range, the last of which stays as it was, and with a
\* tool's earlier result taken for one that it did not leave.
KdfFollowsTable ==
    (/\ Succeeded("file") /\ call.kdf = "file" /\ call.flag # "DEV"
     /\ ~WholeBlocksOfHsm(call) /\ <<"enc", call.file>> \notin taken) =>
        \E dk \in MapBinToDk(call.words, call.dk, call.magic) :
            "SBK_FW_KDK" \notin Visited(dk) =>
                disk[<<"enc", call.file>>] =
                    Data(WithRange(call.file, call.off, FileLen(call),
                                   RefDkKey(dk, call.ver, Unwrapped(RootSbk(call), call.flag))))
=============================================================================
