--------------------------- MODULE TegrasignProofs ---------------------------
(***************************************************************************)
(* What a call of tegrasign leaves when it says that it succeeded, for     *)
(* any input files, any keys and any arguments.                            *)
(***************************************************************************)
EXTENDS Tegrasign, SequenceTheorems, TLAPS

-----------------------------------------------------------------------------
(* Keys, without an HSM.                                                   *)

PublicModes == {"PKC", "ECC", "EDDSA", "XMSS"}
KeyFitsFile(p, kf) ==
    /\ Symmetric(kf) => p.mode \in {"SBK", "FSKP"} /\ p.key = Intended(kf)
    /\ ~Symmetric(kf) => /\ p.mode \in PublicModes /\ p.file = kf
                         /\ p.mode = "XMSS" <=> kf.type = "xmss"

\* extract_key() of a key of a list.
LEMMA ExtractedFits ==
  ASSUME NEW kf, ExtractKey(FreshSignKey, kf, FALSE).mode # "Unknown"
  PROVE  KeyFitsFile(ExtractKey(FreshSignKey, kf, FALSE), kf)
  BY DEF ExtractKey, FreshSignKey, ExtractNone, ExtractNative, ExtractAesKey, AesKeys, AesKeyOf,
         AesMode, PublicMode, IsPkcKey, IsEccKey, IsEd25519Key, IsXmssKey, KeyFitsFile, Symmetric,
         Intended, PublicModes

\* The key of a single file, which is extracted twice.
LEMMA SingleFits ==
  ASSUME NEW a, ~Hsm(a), a.kdf = "no", a.keys # <<>>, SingleKey(a).mode # "Unknown"
  PROVE  KeyFitsFile(SingleKey(a), GivenKey(a))
<1> DEFINE kf == GivenKey(a)
           found == ExtractKey(FreshSignKey, kf, FALSE)
           set == [found EXCEPT !.type = found.mode]
<1>1. SingleKey(a) = IF found.mode = "Unknown" THEN found ELSE ExtractKey(set, kf, FALSE)
  BY DEF SingleKey, Hsm, ParseHsm
<1>2. found.mode # "Unknown" /\ SingleKey(a) = ExtractKey(set, kf, FALSE)
  BY <1>1
<1>3. KeyFitsFile(found, kf)
  BY <1>2, ExtractedFits
<1>4. set = [mode |-> found.mode, key |-> found.key, file |-> found.file, type |-> found.mode, algo |-> found.algo]
  <2>1. found = [mode |-> found.mode, key |-> found.key, file |-> found.file, type |-> found.type, algo |-> found.algo]
    BY DEF ExtractKey, FreshSignKey, ExtractNone, ExtractNative
  <2> HIDE DEF found
  <2> QED
    BY <2>1
<1>5. kf.type = "None" => Symmetric(kf) /\ Intended(kf) = Zero
  BY DEF Symmetric, Intended
<1>6. found.mode \in {"SBK", "FSKP"} \cup PublicModes
  BY <1>3 DEF KeyFitsFile
<1> HIDE DEF found
<1>7. kf.type = "None" => KeyFitsFile(ExtractKey(set, kf, FALSE), kf)
  BY <1>4, <1>5 DEF ExtractKey, ExtractNone, KeyFitsFile
<1>8. kf.type # "None" => ExtractKey(set, kf, FALSE) = ExtractHsm(set, kf, FALSE)
  BY <1>4, <1>6 DEF ExtractKey, PublicModes
<1>9. CASE kf.type # "None" /\ found.mode \in {"SBK", "FSKP"}
  <2>1. ExtractHsm(set, kf, FALSE).mode = found.mode /\ ExtractHsm(set, kf, FALSE).key = found.key
    BY <1>4, <1>9 DEF ExtractHsm
  <2>2. Symmetric(kf)
    BY <1>3, <1>9 DEF KeyFitsFile, PublicModes
  <2> QED
    BY <1>2, <1>3, <1>8, <1>9, <2>1, <2>2 DEF KeyFitsFile
<1>10. CASE kf.type # "None" /\ found.mode \in PublicModes
  <2>1. ExtractHsm(set, kf, FALSE).mode = PublicMode(kf, FALSE) /\ ExtractHsm(set, kf, FALSE).file = kf
    BY <1>4, <1>10 DEF ExtractHsm, PublicModes
  <2>2. ~Symmetric(kf)
    BY <1>3, <1>10 DEF KeyFitsFile, PublicModes
  <2>3. /\ PublicMode(kf, FALSE) \in PublicModes \cup {"Unknown"}
        /\ PublicMode(kf, FALSE) # "XMSS"
        /\ kf.type = "xmss" => PublicMode(kf, FALSE) = "Unknown"
    BY DEF PublicMode, PublicModes, IsPkcKey, IsEccKey, IsEd25519Key
  <2> QED
    BY <1>2, <1>8, <1>10, <2>1, <2>2, <2>3 DEF KeyFitsFile
<1> QED
  BY <1>2, <1>6, <1>7, <1>9, <1>10

\* Only what is an XMSS key is taken for one.
LEMMA XmssMode ==
  ASSUME NEW p, p = [mode |-> p.mode, key |-> p.key, file |-> p.file, type |-> p.type, algo |-> p.algo],
         NEW kf, NEW hsm, ExtractKey(p, kf, hsm).mode = "XMSS"
  PROVE  kf.type = "xmss"
<1>1. CASE kf.type = "None"
  BY <1>1 DEF ExtractKey, ExtractNone
<1>2. CASE kf.type # "None" /\ p.type # "UNKNOWN"
  BY <1>2 DEF ExtractKey, ExtractHsm, PublicMode
<1>3. CASE kf.type # "None" /\ p.type = "UNKNOWN"
  BY <1>3 DEF ExtractKey, ExtractNative, PublicMode, IsXmssKey, AesMode
<1> QED
  BY <1>1, <1>2, <1>3

LEMMA FreshIsRecord ==
  FreshSignKey = [mode |-> FreshSignKey.mode, key |-> FreshSignKey.key, file |-> FreshSignKey.file,
                  type |-> FreshSignKey.type, algo |-> FreshSignKey.algo]
BY DEF FreshSignKey

\* What is still the pair, another one or not, leaves the keys what they were.
StillPair == xmss.key = 0 <=> xmss'.key = 0

LEMMA PresentKept ==
  ASSUME StillPair, NEW kf
  PROVE  Present(kf)' = Present(kf)
BY DEF StillPair, Present

-----------------------------------------------------------------------------
(* Ranges of a file.                                                       *)

\* A part put in the place of a range of its length.
LEMMA SpliceProperties ==
  ASSUME NEW S, NEW buf \in Seq(S), NEW off \in Nat, NEW len \in Nat, off + len <= Len(buf),
         NEW part \in Seq(S), Len(part) = len
  PROVE  /\ Splice(buf, off, len, part) \in Seq(S)
         /\ Len(Splice(buf, off, len, part)) = Len(buf)
         /\ \A j \in 1..Len(buf) : Splice(buf, off, len, part)[j] =
                IF j \in off + 1 .. off + len THEN part[j - off] ELSE buf[j]
<1> DEFINE n == Len(buf)
           head == SubSeq(buf, 1, off)
           tail == SubSeq(buf, off + len + 1, n)
<1>1. n \in Nat /\ \A i \in 1..n : buf[i] \in S
  BY LenProperties
<1>2. First(buf, off) = head
  BY <1>1 DEF First
<1>3. Until(buf, off + len, n - off - len) = tail
  BY <1>1 DEF Until
<1>4. head \in Seq(S) /\ Len(head) = off /\ \A i \in 1..off : head[i] = buf[i]
  BY <1>1, SubSeqProperties
<1>5. tail \in Seq(S) /\ Len(tail) = n - off - len
      /\ \A i \in 1 .. n - off - len : tail[i] = buf[off + len + i]
  BY <1>1, SubSeqProperties
<1>8. Splice(buf, off, len, part) = (head \o part) \o tail
  BY <1>2, <1>3 DEF Splice
<1> HIDE DEF n, head, tail
<1> DEFINE front == head \o part
<1>6. front \in Seq(S) /\ Len(front) = off + len
      /\ \A i \in 1 .. off + len : front[i] = IF i <= off THEN head[i] ELSE part[i - off]
  BY <1>4, ConcatProperties, ZenonT(60)
<1> HIDE DEF front
<1>7. front \o tail \in Seq(S) /\ Len(front \o tail) = n
      /\ \A i \in 1..n : (front \o tail)[i] = IF i <= off + len THEN front[i] ELSE tail[i - (off + len)]
  <2>0. front \in Seq(S) /\ tail \in Seq(S)
    BY <1>5, <1>6
  <2>1. front \o tail \in Seq(S) /\ Len(front \o tail) = Len(front) + Len(tail)
        /\ \A i \in 1 .. Len(front) + Len(tail) : (front \o tail)[i] =
               IF i <= Len(front) THEN front[i] ELSE tail[i - Len(front)]
    BY <2>0, ConcatProperties
  <2>2. Len(front) = off + len /\ Len(front) + Len(tail) = n
    BY <1>1, <1>5, <1>6
  <2> QED
    BY <2>1, <2>2
<1> DEFINE whole == front \o tail
<1>9. \A j \in 1..n : whole[j] = IF j \in off + 1 .. off + len THEN part[j - off] ELSE buf[j]
  <2> SUFFICES ASSUME NEW j \in 1..n
               PROVE  whole[j] = IF j \in off + 1 .. off + len THEN part[j - off] ELSE buf[j]
    OBVIOUS
  <2>1. CASE j <= off
    BY <1>1, <1>4, <1>6, <1>7, <2>1, SMTT(30)
  <2>2. CASE j \in off + 1 .. off + len
    BY <1>1, <1>6, <1>7, <2>2, SMTT(30)
  <2>3. CASE j > off + len
    <3>1. j - (off + len) \in 1 .. n - off - len /\ off + len + (j - (off + len)) = j
      BY <1>1, <2>3
    <3> QED
      BY <1>1, <1>5, <1>7, <2>3, <3>1
  <2>4. j <= off \/ j \in off + 1 .. off + len \/ j > off + len
    BY <1>1
  <2> QED
    BY <2>1, <2>2, <2>3, <2>4
<1> QED
  BY <1>7, <1>8, <1>9 DEF front, n

\* What was put there is read there.
LEMMA UntilOfSplice ==
  ASSUME NEW S, NEW buf \in Seq(S), NEW off \in Nat, NEW len \in Nat, off + len <= Len(buf),
         NEW part \in Seq(S), Len(part) = len
  PROVE  Until(Splice(buf, off, len, part), off, len) = part
<1> DEFINE s == Splice(buf, off, len, part)
           u == SubSeq(s, off + 1, off + len)
<1>1. s \in Seq(S) /\ Len(s) = Len(buf) /\ Len(buf) \in Nat
      /\ \A j \in 1..Len(buf) : s[j] = IF j \in off + 1 .. off + len THEN part[j - off] ELSE buf[j]
  BY SpliceProperties, LenProperties, SMTT(60)
<1> HIDE DEF s
<1>2. \A i \in off + 1 .. off + len : s[i] \in S
  BY <1>1, ElementOfSeq
<1>3. u \in Seq(S) /\ Len(u) = len /\ \A i \in 1..len : u[i] = s[off + i]
  BY <1>2, SubSeqProperties
<1>4. \A i \in 1..len : u[i] = part[i]
  <2> SUFFICES ASSUME NEW i \in 1..len PROVE u[i] = part[i]
    OBVIOUS
  <2>1. off + i \in off + 1 .. off + len /\ off + i \in 1..Len(buf) /\ (off + i) - off = i
    BY <1>1
  <2> QED
    BY <1>1, <1>3, <2>1
<1>5. u = part
  BY <1>3, <1>4, SeqEqual
<1> QED
  BY <1>5 DEF Until, s

\* The cells of a range, encrypted if there is a key; buf with them in it.
SealedPart(buf, off, len, key) ==
    IF key # Zero THEN Encrypted(First(Until(buf, off, len), len), key) ELSE Until(buf, off, len)
SealedWhole(buf, off, len, key) ==
    [j \in DOMAIN buf |-> IF key # Zero /\ j \in off + 1 .. off + len
                         THEN [buf[j] EXCEPT !.by = key] ELSE buf[j]]

\* A range, encrypted or not, put back in its place.
LEMMA SealedRange ==
  ASSUME NEW S, NEW buf \in Seq(S), NEW off \in Nat, NEW len \in Nat, off + len <= Len(buf),
         NEW key, NEW part, part = SealedPart(buf, off, len, key)
  PROVE  /\ Splice(buf, off, len, part) = SealedWhole(buf, off, len, key)
         /\ Until(Splice(buf, off, len, part), off, len) = part
         /\ First(part, len) = part
<1> DEFINE u == Until(buf, off, len)
           T == S \cup {[x EXCEPT !.by = key] : x \in S}
           n == Len(buf)
           w == Splice(buf, off, len, part)
<1>1. n \in Nat /\ DOMAIN buf = 1..n /\ \A i \in 1..n : buf[i] \in S
  BY LenProperties
<1>2. buf \in Seq(T)
  BY SeqMonotonic
<1>3. u \in Seq(S) /\ Len(u) = len /\ \A i \in 1..len : u[i] = buf[off + i]
  <2>1. \A i \in off + 1 .. off + len : buf[i] \in S
    BY <1>1
  <2>2. /\ u \in Seq(S)
        /\ Len(u) = IF off + 1 <= off + len THEN off + len - (off + 1) + 1 ELSE 0
        /\ \A i \in 1 .. off + len - (off + 1) + 1 : u[i] = buf[off + 1 + i - 1]
    BY <2>1, SubSeqProperties DEF Until
  <2> HIDE DEF u
  <2>3. off + len - (off + 1) + 1 = len
    OBVIOUS
  <2>4. Len(u) = len
    BY <2>2, <2>3
  <2>5. ASSUME NEW i \in 1..len
        PROVE  u[i] = buf[off + i]
    <3>1. off + 1 + i - 1 = off + i
      OBVIOUS
    <3> QED
      BY <2>2, <2>3, <3>1
  <2> QED
    BY <2>2, <2>4, <2>5
<1>4. u \in Seq(T) /\ DOMAIN u = 1..len
  BY <1>3, SeqMonotonic, LenProperties
<1>5. First(u, len) = u
  BY <1>3, SubSeqFull DEF First
<1>6. part = IF key # Zero THEN [i \in 1..len |-> [u[i] EXCEPT !.by = key]] ELSE u
  BY <1>4, <1>5 DEF Encrypted, SealedPart
<1>7. part \in Seq(T) /\ Len(part) = len
  <2>1. CASE key = Zero
    BY <1>3, <1>4, <1>6, <2>1
  <2>2. CASE key # Zero
    <3>1. \A i \in 1..len : u[i] \in S
      BY <1>3, ElementOfSeq
    <3>2. part \in [1..len -> T]
      BY <1>6, <2>2, <3>1
    <3>3. part \in Seq(T)
      BY <3>2, SeqDef
    <3>4. Len(part) \in Nat /\ 1..Len(part) = 1..len
      BY <3>2, <3>3, LenProperties
    <3> QED
      BY <3>3, <3>4
  <2> QED
    BY <2>1, <2>2
<1> HIDE DEF u, T, n
<1>8. w \in Seq(T) /\ Len(w) = n
      /\ \A j \in 1..n : w[j] = IF j \in off + 1 .. off + len THEN part[j - off] ELSE buf[j]
  BY <1>2, <1>7, SpliceProperties DEF n
<1>9. Until(w, off, len) = part
  BY <1>2, <1>7, UntilOfSplice
<1>10. First(part, len) = part
  BY <1>7, SubSeqFull DEF First
<1>11. \A j \in 1..n : w[j] = IF key # Zero /\ j \in off + 1 .. off + len THEN [buf[j] EXCEPT !.by = key] ELSE buf[j]
  <2> SUFFICES ASSUME NEW j \in 1..n
               PROVE  w[j] = IF key # Zero /\ j \in off + 1 .. off + len THEN [buf[j] EXCEPT !.by = key] ELSE buf[j]
    OBVIOUS
  <2>1. CASE j \in off + 1 .. off + len
    <3>1. j - off \in 1..len /\ off + (j - off) = j
      BY <2>1
    <3>2. w[j] = part[j - off] /\ u[j - off] = buf[j]
      BY <1>3, <1>8, <2>1, <3>1
    <3> QED
      BY <1>6, <2>1, <3>1, <3>2
  <2>2. CASE j \notin off + 1 .. off + len
    BY <1>8, <2>2
  <2> QED
    BY <2>1, <2>2
<1>12. w = [j \in 1..n |-> w[j]]
  BY <1>8, LenProperties
<1> HIDE DEF w
<1>13. w = SealedWhole(buf, off, len, key)
  BY <1>1, <1>11, <1>12 DEF SealedWhole
<1> QED
  BY <1>9, <1>10, <1>13 DEF w

-----------------------------------------------------------------------------
(* The working directory and the stage of a call.                          *)

\* What a child or a single file has is made from, or is.
Products == {"in", "enc", "hash", "sig", "signed", "sha"}
\* Of those files of that kind, e has what d has.
IsDir(d) == d = [n \in Names |-> d[n]]
Same(d, e, kinds, files) == IsDir(e) /\ \A k \in kinds, f \in files : e[<<k, f>>] = d[<<k, f>>]

\* An input file is as it was made last.
Inputs == /\ IsDir(disk)
          /\ \A f \in Files : \E v \in Nat : disk[<<"in", f>>] = Fresh(f, v)
StageInv ==
    /\ call \in Calls /\ at \in Nat \ {0}
    /\ pc # "list" => at = 1
    /\ pc \notin {"idle", "nokey"} => NeedsKeys(call)
    /\ pc \in {"prepare", "list", "file", "hash"} => keys = KeyList(call) /\ KeysFit(call, keys)
    /\ pc \in {"list", "file"} => call.what = pc
    /\ xmss \in [key : Nat, lost : {"none", "cache", "pub", "all"}]

\* do_list(), do_file(): the results that the properties speak of.  When an
\* XMSS child has been signed, the pair is whole: it is not made anew for
\* another, which would leave the first one's signature by a pair that is gone.
KeyOf(i) == Present(call.keys[call.list[i].key + 1])
ListDone == xml.list = call.list /\ \A i \in DOMAIN call.list : ChildDone(call.list[i], KeyOf(i))
ListInv == call.what = "list" /\ ~Hsm(call) =>
    /\ pc = "list" => \A i \in DOMAIN call.list :
           i < at => ChildDone(call.list[i], KeyOf(i)) /\ (KeyOf(i).type = "xmss" => xmss.lost = "none")
    /\ pc = "hash" \/ (pc = "idle" /\ ret = "ok") => ListDone

LEMMA CellsOfInput ==
  ASSUME Inputs, NEW f \in Files
  PROVE  \E S : Cells(f) \in Seq(S) /\ Len(Cells(f)) = Size[f] /\ Size[f] \in Nat
<1>1. PICK v \in Nat : disk[<<"in", f>>] = Fresh(f, v)
  BY DEF Inputs
<1>2. Size[f] \in Nat
  BY FilesAssumption
<1> DEFINE S == {Cell(f, v, i) : i \in 1..Size[f]}
<1>3. Cells(f) = [i \in 1..Size[f] |-> Cell(f, v, i)]
  BY <1>1 DEF Cells, Fresh, Data
<1>4. Cells(f) \in [1..Size[f] -> S]
  BY <1>3
<1>5. Cells(f) \in Seq(S)
  BY <1>2, <1>4, SeqDef
<1>6. Len(Cells(f)) \in Nat /\ 1..Len(Cells(f)) = 1..Size[f]
  BY <1>4, <1>5, LenProperties
<1>7. Len(Cells(f)) = Size[f]
  BY <1>2, <1>6
<1> QED
  BY <1>2, <1>5, <1>7

\* Of f's products a tool made as many as it had before.
SameTaken(f) == \A k \in Products : <<k, f>> \in taken' <=> <<k, f>> \in taken

\* A stage that writes none of the products of a list changes nothing of it.
LEMMA ChildKept ==
  ASSUME NEW nd \in Nodes, NEW kf, Same(disk, disk', Products, {nd.file}), SameTaken(nd.file),
         kf.type = "xmss" => UNCHANGED xmss, ChildDone(nd, kf)
  PROVE  ChildDone(nd, kf)'
<1>1. \A k \in Products : disk'[<<k, nd.file>>] = disk[<<k, nd.file>>]
  BY DEF Same
<1>2. Holds(xmss, kf)' = Holds(xmss, kf)
  BY DEF Holds
<1>3. DigestDone(nd)' <=> DigestDone(nd)
  BY <1>1 DEF DigestDone, ShaRange, Products
<1> QED
  BY <1>1, <1>2, <1>3, Zenon DEF Products, SameTaken, ChildDone, ChildLen, Cells, WithRange

LEMMA NodesOfList ==
  ASSUME NEW a \in Calls
  PROVE  /\ DOMAIN a.list = 1..Len(a.list) /\ Len(a.list) \in Nat
         /\ \A i \in DOMAIN a.list : a.list[i] \in Nodes
  BY CallsAssumption, LenProperties, ElementOfSeq

\* One file written.
LEMMA PutSame ==
  ASSUME NEW d, IsDir(d), NEW kinds, NEW files, NEW k, NEW g, k \notin kinds \/ g \notin files, NEW x
  PROVE  Same(d, [d EXCEPT ![<<k, g>>] = x], kinds, files)
<1> DEFINE e == [d EXCEPT ![<<k, g>>] = x]
<1>1. DOMAIN d = Names /\ e = [n \in Names |-> IF n = <<k, g>> THEN x ELSE d[n]]
  BY DEF IsDir
<1>2. \A n : n # <<k, g>> => e[n] = d[n]
  OBVIOUS
<1> QED
  BY <1>1, <1>2 DEF Same, IsDir

\* Two files written.
LEMMA PutTwoSame ==
  ASSUME NEW d, IsDir(d), NEW kinds, NEW files, NEW x, NEW y,
         NEW k, NEW g, k \notin kinds \/ g \notin files,
         NEW l, NEW h, l \notin kinds \/ h \notin files
  PROVE  Same(d, [d EXCEPT ![<<k, g>>] = x, ![<<l, h>>] = y], kinds, files)
<1> DEFINE m == [d EXCEPT ![<<k, g>>] = x]
           e == [m EXCEPT ![<<l, h>>] = y]
<1>1. Same(d, m, kinds, files)
  BY PutSame
<1>2. IsDir(m)
  BY <1>1 DEF Same
<1>3. [d EXCEPT ![<<k, g>>] = x, ![<<l, h>>] = y] = e
  OBVIOUS
<1> HIDE DEF m
<1>4. Same(m, e, kinds, files)
  BY <1>2, PutSame
<1>5. Same(d, e, kinds, files)
  BY <1>1, <1>4 DEF Same
<1> HIDE DEF e
<1> QED
  BY <1>3, <1>5, Zenon

LEMMA SameSelf ==
  ASSUME NEW d, IsDir(d), NEW kinds, NEW files
  PROVE  Same(d, d, kinds, files)
  BY DEF Same

LEMMA SameTransitive ==
  ASSUME NEW c, NEW d, NEW e, NEW kinds, NEW files, Same(c, d, kinds, files), Same(d, e, kinds, files)
  PROVE  Same(c, e, kinds, files)
  BY DEF Same

\* The inputs stay what they are when only other files are written.
LEMMA InputsKept ==
  ASSUME Inputs, Same(disk, disk', {"in"}, Files)
  PROVE  Inputs'
  BY DEF Inputs, Same

\* A tool's earlier result read in the place of what it should have left.
LEMMA MisreadSame ==
  ASSUME NEW d, IsDir(d), NEW names, NEW kinds \in SUBSET Kinds, NEW files \in SUBSET Files,
         \A k \in kinds, g \in files : <<k, g>> \notin names
  PROVE  Same(d, Misread(d, names), kinds, files)
BY DEF Same, IsDir, Misread, Names

LEMMA MisreadKeeps ==
  ASSUME NEW d, NEW names, NEW n \in Names, n \notin names
  PROVE  Misread(d, names)[n] = d[n]
BY DEF Misread

-----------------------------------------------------------------------------
(* What each stage writes.                                                 *)

Quiet == Same(disk, disk', Products, Files)

LEMMA QuietKeys == ASSUME Inputs, ExtractKeys PROVE Quiet
<1>1. \A x : Same(disk, [disk EXCEPT ![<<"pk", General>>] = x], Products, Files)
  BY PutSame DEF Inputs, Products
<1>2. Same(disk, disk, Products, Files)
  BY SameSelf DEF Inputs
<1> QED
  BY <1>1, <1>2 DEF ExtractKeys, WithPublicPart, WithPublic, ErrorWith, Failed, Quiet

LEMMA QuietPrepare == ASSUME Inputs, Prepare PROVE Quiet
<1> DEFINE d == GetMode(disk, call)
<1>1. IsDir(disk) /\ Same(disk, disk, Products, Files)
  BY SameSelf DEF Inputs
<1>2. \A x : Same(disk, [disk EXCEPT ![<<"mode", General>>] = x], Products, Files)
  BY <1>1, PutSame DEF Products
<1>3. Same(disk, d, Products, Files)
  BY <1>1, <1>2 DEF GetMode
<1>4. IsDir(d)
  BY <1>3 DEF Same
<1> HIDE DEF d
<1>5. \A x, g : Same(d, [d EXCEPT ![<<"iv", g>>] = x], Products, Files)
  BY <1>4, PutSame DEF Products
<1>6. Same(d, RandomIv(d, call), Products, Files)
  BY <1>4, <1>5, SameSelf DEF RandomIv, IvName
<1>7. disk' = RandomIv(d, call)
  BY DEF Prepare, d
<1> QED
  BY <1>3, <1>6, <1>7, SameTransitive DEF Quiet

LEMMA QuietHash == ASSUME Inputs, HashPublicKey \/ Finish PROVE Quiet
<1> DEFINE d == ConvertedKey(disk, call)
<1>1. IsDir(disk) /\ Same(disk, disk, Products, Files)
  BY SameSelf DEF Inputs
<1>2. \A c : IsDir(c) => \A x : Same(c, [c EXCEPT ![<<"pkh", General>>] = x], Products, Files)
  BY PutSame DEF Products
<1>3. CASE Finish
  <2>1. disk' = disk \/ \E x : disk' = [disk EXCEPT ![<<"pkh", General>>] = x]
    BY <1>3 DEF Finish, SavePublicKeyHash, Failed, Succeeds
  <2> QED
    BY <1>1, <1>2, <2>1 DEF Quiet
<1>4. CASE HashPublicKey
  <2>1. \A x : Same(disk, [disk EXCEPT ![<<"pk_v3", General>>] = x], Products, Files)
    BY <1>1, PutSame DEF Products
  <2>2. Same(disk, d, Products, Files)
    BY <1>1, <2>1 DEF ConvertedKey
  <2>3. IsDir(d)
    BY <2>2 DEF Same
  <2>4. disk' = d \/ \E x : disk' = [d EXCEPT ![<<"pkh", General>>] = x]
    BY <1>4 DEF HashPublicKey, SavePublicKeyHash, Failed, Succeeds
  <2> HIDE DEF d
  <2> QED
    BY <1>2, <2>2, <2>3, <2>4, SameTransitive DEF Quiet
<1> QED
  BY <1>3, <1>4

LEMMA QuietOthers ==
  ASSUME Inputs,
         \/ RejectChild \/ SignedXml \/ RejectFile \/ RejectKdf \/ Randomize \/ Kill
         \/ \E a \in Calls : Invoke(a)
         \/ \E part \in {"cache", "pub"} : LosePart(part)
  PROVE  Quiet
<1>1. IsDir(disk) /\ Same(disk, disk, Products, Files)
  BY SameSelf DEF Inputs
<1>2. \A k, g : k \notin Products => \A x : Same(disk, [disk EXCEPT ![<<k, g>>] = x], Products, Files)
  BY <1>1, PutSame
<1>3. "random" \notin Products
  BY DEF Products
<1>4. CASE Randomize
  BY <1>2, <1>3, <1>4 DEF Randomize, Succeeds, Quiet
<1>5. CASE \/ RejectChild \/ SignedXml \/ RejectFile \/ RejectKdf \/ Kill
           \/ \E a \in Calls : Invoke(a)
           \/ \E part \in {"cache", "pub"} : LosePart(part)
  <2>1. disk' = disk
    BY <1>5 DEF RejectChild, SignedXml, RejectFile, RejectKdf, Kill, Invoke, LosePart, ErrorWith, Failed
  <2> QED
    BY <1>1, <2>1 DEF Quiet
<1> QED
  BY <1>4, <1>5

LEMMA ShaInputs == ASSUME Inputs, ComputeSha PROVE Same(disk, disk', {"in"}, Files)
<1>1. IsDir(disk) /\ Same(disk, disk, {"in"}, Files)
  BY SameSelf DEF Inputs
<1>2. \A g, x : Same(disk, [disk EXCEPT ![<<"sha", g>>] = x], {"in"}, Files)
  BY <1>1, PutSame
<1> QED
  BY <1>1, <1>2 DEF ComputeSha, ShaOf, Failed, Succeeds

\* Signing f writes no input and nothing of another file's products.
Elsewhere(d, e, f) == Same(d, e, {"in"}, Files) /\ Same(d, e, Products, Files \ {f})

LEMMA PutElsewhere ==
  ASSUME NEW d, IsDir(d), NEW f, NEW k, k # "in", NEW x
  PROVE  Elsewhere(d, [d EXCEPT ![<<k, f>>] = x], f)
<1>1. k \notin {"in"} /\ f \notin Files \ {f}
  OBVIOUS
<1>2. Same(d, [d EXCEPT ![<<k, f>>] = x], {"in"}, Files)
  BY <1>1, PutSame
<1>3. Same(d, [d EXCEPT ![<<k, f>>] = x], Products, Files \ {f})
  BY <1>1, PutSame
<1> QED
  BY <1>2, <1>3 DEF Elsewhere

LEMMA ElsewhereTransitive ==
  ASSUME NEW c, NEW d, NEW e, NEW f, Elsewhere(c, d, f), Elsewhere(d, e, f)
  PROVE  Elsewhere(c, e, f)
  BY SameTransitive DEF Elsewhere

LEMMA ElsewhereSelf ==
  ASSUME NEW d, IsDir(d), NEW f
  PROVE  Elsewhere(d, d, f)
  BY SameSelf DEF Elsewhere

LEMMA MisreadElsewhere ==
  ASSUME NEW d, IsDir(d), NEW f, NEW names,
         names \subseteq {<<"enc", f>>, <<"hash", f>>, <<"sig", f>>}
  PROVE  Elsewhere(d, Misread(d, names), f)
<1>1. {"in"} \in SUBSET Kinds /\ Products \in SUBSET Kinds
  BY DEF Kinds, Products
<1>2. Same(d, Misread(d, names), {"in"}, Files)
  BY <1>1, MisreadSame
<1>3. Same(d, Misread(d, names), Products, Files \ {f})
  BY <1>1, MisreadSame
<1> QED
  BY <1>2, <1>3 DEF Elsewhere

\* What a tool did not make is of f alone.
TakenOf(f) == \A k, g : g # f => (<<k, g>> \in taken' <=> <<k, g>> \in taken)

LEMMA ChildIsNode ==
  ASSUME StageInv, at \in DOMAIN call.list
  PROVE  Child \in Nodes /\ Child.file \in Files
  BY NodesOfList DEF StageInv, Child, Nodes

LEMMA ChildKeyFits ==
  ASSUME StageInv, pc = "list", ~Hsm(call), at \in DOMAIN call.list, ChildFits(Child)
  PROVE  KeyFitsFile(ChildKey(Child), KeyOf(at))
<1>1. call.what = "list" /\ call.isList
  BY CallsAssumption DEF StageInv
<1>2. keys = [i \in DOMAIN call.keys |-> ExtractKey(FreshSignKey, Present(call.keys[i]), FALSE)]
  <2>1. Hsm(call) = FALSE
    BY DEF Hsm
  <2> QED
    BY <1>1, <2>1 DEF StageInv, KeyList, KeysOfList
<1> DEFINE k == Child.key + 1
<1>3. k \in DOMAIN call.keys
  BY <1>2 DEF ChildFits
<1>4. keys[k] = ExtractKey(FreshSignKey, Present(call.keys[k]), FALSE) /\ keys[k].mode # "Unknown"
  BY <1>2, <1>3 DEF StageInv, KeysFit
<1>5. KeyFitsFile(keys[k], Present(call.keys[k]))
  BY <1>4, ExtractedFits
<1> QED
  BY <1>5 DEF ChildKey, KeyOf, Child

\* A child is signed with the XMSS key only when there is one.
LEMMA XmssChild ==
  ASSUME StageInv, pc = "list", at \in DOMAIN call.list, ChildFits(Child), ChildKey(Child).mode = "XMSS"
  PROVE  xmss.key # 0
<1>1. call.what = "list" /\ call.isList
  BY CallsAssumption DEF StageInv
<1>2. keys = [i \in DOMAIN call.keys |-> ExtractKey(FreshSignKey, Present(call.keys[i]), Hsm(call))]
  BY <1>1 DEF StageInv, KeyList, KeysOfList
<1> DEFINE k == Child.key + 1
           kf == Present(call.keys[k])
<1>3. k \in DOMAIN call.keys
  BY <1>2 DEF ChildFits
<1>4. ExtractKey(FreshSignKey, kf, Hsm(call)).mode = "XMSS"
  BY <1>2, <1>3 DEF ChildKey
<1> HIDE DEF kf
<1>5. kf.type = "xmss"
  BY <1>4, FreshIsRecord, XmssMode
<1> QED
  BY <1>5 DEF kf, Present, KeyFile

\* The length of a child's range, and the cells it is of.
LEMMA ChildRange ==
  ASSUME Inputs, NEW nd \in Nodes, ChildFits(nd)
  PROVE  /\ ChildLen(nd) \in Nat /\ nd.off \in Nat /\ nd.off + ChildLen(nd) <= Len(Cells(nd.file))
         /\ \E S : Cells(nd.file) \in Seq(S)
  BY CellsOfInput DEF Nodes, ChildFits, ChildLen, RangeFits, Length

-----------------------------------------------------------------------------
(* The children of a list.                                                 *)

LEMMA WholeBlocks ==
  ASSUME NEW n \in Nat, n % Block = 0
  PROVE  Whole(n) = n
  BY DEF Whole, Block

\* What an AES key leaves of a range that is a whole number of blocks.
LEMMA SymmetricDone ==
  ASSUME Inputs, NEW nd \in Nodes, ChildFits(nd),
         NEW p, NEW kf, KeyFitsFile(p, kf), p.mode \in {"SBK", "FSKP"},
         disk'[<<"in", nd.file>>] = disk[<<"in", nd.file>>],
         <<"enc", nd.file>> \notin taken' =>
             disk'[<<"enc", nd.file>>] =
                 Data(Splice(Cells(nd.file), nd.off, Whole(ChildLen(nd)), Buffer(nd, p))),
         <<"hash", nd.file>> \notin taken' =>
             disk'[<<"hash", nd.file>>] = AesCmac(Buffer(nd, p), Whole(ChildLen(nd)), p),
         <<"sha", nd.file>> \notin taken' => DigestDone(nd)'
  PROVE  ChildDone(nd, kf)'
<1> DEFINE buf == Cells(nd.file)
           len == ChildLen(nd)
           part == Buffer(nd, p)
           whole == Splice(buf, nd.off, len, part)
           key == IF nd.encrypt THEN Intended(kf) ELSE Zero
<1>1. Symmetric(kf) /\ p.key = Intended(kf)
  BY DEF KeyFitsFile, PublicModes
<1>2. Cells(nd.file)' = buf /\ ChildLen(nd)' = len
  BY DEF Cells, ChildLen
<1>3. PICK S : buf \in Seq(S)
  BY ChildRange
<1>4. len \in Nat /\ nd.off \in Nat /\ nd.off + len <= Len(buf) /\ nd.encrypt \in BOOLEAN
  BY ChildRange DEF Nodes
<1>5. CASE len % Block = 0
  <2>1. Whole(len) = len
    BY <1>4, <1>5, WholeBlocks
  <2>2. part = SealedPart(buf, nd.off, len, key)
    BY <1>1, <2>1 DEF Buffer, AesCbc, ToSign, SealedPart
  <2>3. <<"enc", nd.file>> \notin taken' => disk'[<<"enc", nd.file>>] = Data(whole)
    BY <2>1
  <2>4. WithRange(nd.file, nd.off, ChildLen(nd), key)' = SealedWhole(buf, nd.off, len, key)
    BY <1>2 DEF WithRange, SealedWhole
  <2> HIDE DEF part, len, buf, key
  <2>5. /\ whole = SealedWhole(buf, nd.off, len, key)
        /\ Until(whole, nd.off, len) = part
        /\ First(part, len) = part
    BY <1>3, <1>4, <2>2, SealedRange
  <2>6. <<"hash", nd.file>> \notin taken' => disk'[<<"hash", nd.file>>] = Seal("cmac", Intended(kf), part)
    BY <1>1, <2>1, <2>5 DEF AesCmac, part, len
  <2> HIDE DEF whole
  <2>7. Data(whole).cells = whole
    BY DEF Data
  <2>8. Data(whole) = Data(WithRange(nd.file, nd.off, ChildLen(nd), key)')
    BY <2>4, <2>5
  <2> QED
    BY <1>1, <1>2, <2>3, <2>5, <2>6, <2>7, <2>8, Zenon DEF ChildDone, len, key
<1>6. CASE len % Block # 0
  BY <1>1, <1>2, <1>6, Zenon DEF ChildDone
<1> QED
  BY <1>5, <1>6

\* The digest asked for, in a directory like d.
LEMMA ShaWrites ==
  ASSUME StageInv, pc = "list", at \in DOMAIN call.list,
         NEW d, IsDir(d), d[<<"in", Child.file>>] = disk[<<"in", Child.file>>],
         NEW l, NEW old, NEW o, PerformSha(d, l, old, Child, o)
  PROVE  /\ disk' = d \/ \E x : disk' = [d EXCEPT ![<<"sha", Child.file>>] = x]
         /\ \/ pc' = "idle" /\ ret' = "error" /\ at' = 1 /\ UNCHANGED call
            \/ /\ pc' = "list" /\ at' = at + 1 /\ UNCHANGED <<call, xml, keys>>
               /\ taken' = taken \cup old \/ taken' = taken \cup old \cup {<<"sha", Child.file>>}
               /\ <<"sha", Child.file>> \notin taken' => \A c : c = Child => DigestDone(c)'
<1> DEFINE nd == Child
           f == nd.file
           sha == nd.sha
           range == ShaRange(d, f, sha.off, sha.len)
           made == ShaOf(d, f, sha.off, sha.len, o)
           writes == o = "ok" /\ RangeFits(Size[f], sha.off, sha.len)
<1>1. CASE sha = NoSha
  <2>1. NextChild(d, l, old)
    BY <1>1 DEF PerformSha
  <2>2. \A c : c = nd => DigestDone(c)'
    BY <1>1 DEF DigestDone
  <2> QED
    BY <2>1, <2>2 DEF NextChild, GoesTo
<1>2. CASE sha # NoSha
  <2>1. \/ Failed(made, l)
        \/ NextChild(made, l, old \cup IF writes THEN {} ELSE {<<"sha", f>>})
    BY <1>2 DEF PerformSha
  <2>2. made = d \/ \E x : made = [d EXCEPT ![<<"sha", f>>] = x]
    BY DEF ShaOf
  <2>3. writes => made = [d EXCEPT ![<<"sha", f>>] = Seal("sha", NoKey, range)]
    BY DEF ShaOf
  <2> HIDE DEF made, range
  <2>4. CASE Failed(made, l)
    BY <2>2, <2>4 DEF Failed, Ends
  <2>5. CASE NextChild(made, l, old \cup IF writes THEN {} ELSE {<<"sha", f>>})
    <3>1. /\ disk' = made /\ pc' = "list" /\ at' = at + 1 /\ UNCHANGED <<call, xml, keys>>
          /\ taken' = old \cup taken \cup IF writes THEN {} ELSE {<<"sha", f>>}
      BY <2>5 DEF NextChild, GoesTo
    <3>2. ASSUME <<"sha", f>> \notin taken', NEW c, c = nd PROVE DigestDone(c)'
      <4>1. writes
        BY <3>1, <3>2
      <4>2. f \in Files /\ <<"sha", f>> \in Names
        BY ChildIsNode DEF Names, Kinds
      <4>5. disk' = [d EXCEPT ![<<"sha", f>>] = Seal("sha", NoKey, range)]
        BY <2>3, <3>1, <4>1
      <4>6. DOMAIN d = Names /\ <<"sha", f>> # <<"in", f>>
        BY DEF IsDir
      <4>3. disk'[<<"sha", f>>] = Seal("sha", NoKey, range) /\ disk'[<<"in", f>>] = d[<<"in", f>>]
        <5> HIDE DEF f, range
        <5> QED
          BY <4>2, <4>5, <4>6
      <4>4. ShaRange(disk', f, sha.off, sha.len) = range
        BY <4>3 DEF range, ShaRange
      <4> HIDE DEF nd
      <4> QED
        BY <3>2, <4>3, <4>4 DEF DigestDone
    <3> QED
      BY <2>2, <3>1, <3>2
  <2> QED
    BY <2>1, <2>4, <2>5
<1> QED
  BY <1>1, <1>2

\* The files that an AES key gives: encrypted, MAC, and a digest if asked for.
LEMMA SymmetricChildWrites ==
  ASSUME Inputs, StageInv, SignSymmetricChild
  PROVE  /\ Elsewhere(disk, disk', Child.file)
         /\ pc' = "list" \/ (pc' = "idle" /\ ret' = "error" /\ at' = 1 /\ UNCHANGED call)
         /\ UNCHANGED xmss
         /\ pc' = "list" =>
              /\ at' = at + 1 /\ UNCHANGED <<call, xml, keys>>
              /\ TakenOf(Child.file)
              /\ ChildKey(Child).mode \in {"SBK", "FSKP"}
              /\ <<"enc", Child.file>> \notin taken' =>
                    disk'[<<"enc", Child.file>>] =
                      Data(Splice(Cells(Child.file), Child.off, Whole(ChildLen(Child)), Buffer(Child, ChildKey(Child))))
              /\ <<"hash", Child.file>> \notin taken' =>
                    disk'[<<"hash", Child.file>>] =
                      AesCmac(Buffer(Child, ChildKey(Child)), Whole(ChildLen(Child)), ChildKey(Child))
              /\ <<"sha", Child.file>> \notin taken' => \A c : c = Child => DigestDone(c)'
<1> DEFINE nd == Child
           f == nd.file
           p == ChildKey(nd)
           Enc == <<"enc", f>>
           Hash == <<"hash", f>>
           enc == WithEnc(disk, nd, p)
           d == WithHash(enc, nd, p)
           code == Data(Splice(Cells(f), nd.off, Whole(ChildLen(nd)), Buffer(nd, p)))
           mac == AesCmac(Buffer(nd, p), Whole(ChildLen(nd)), p)
<1>0. /\ f \in Files /\ IsDir(disk) /\ Elsewhere(disk, disk, f) /\ pc = "list" /\ UNCHANGED xmss
      /\ at \in DOMAIN call.list /\ Enc \in Names /\ Hash \in Names /\ <<"in", f>> \in Names
      /\ <<"sha", f>> \in Names /\ p.mode \in {"SBK", "FSKP"}
  BY ChildIsNode, ElsewhereSelf DEF SignSymmetricChild, Inputs, Names, Kinds
<1>1. enc = [disk EXCEPT ![Enc] = code] /\ d = [enc EXCEPT ![Hash] = mac]
  BY DEF WithEnc, WithHash
<1>2. PICK cbc, cmac, sha, l0, l, old :
        /\ old \in SUBSET {Enc, Hash}
        /\ \/ Failed(disk, l0)
           \/ Failed([Misread(enc, old) EXCEPT ![Hash] = Emptied], l)
           \/ PerformSha(Misread(d, old), l, old, nd, sha)
  <2> DEFINE Cbc == Tool("cbc", FALSE)
             Cmac == Tool("cmac", FALSE)
             L0(c) == After(Cbc, c, left)
             L(c, m) == After(Cmac, m, L0(c))
             Old(c, m) == OldOf(c, {Enc, Hash}) \cup OldOf(m, {Hash})
  <2>1. \E cbc \in Run(Cbc, nd.encrypt /\ p.key # Zero), cmac \in Run(Cmac, nd.sign), sha \in Outcomes :
          IF cbc \notin Good THEN Failed(disk, L0(cbc))
          ELSE IF cmac \in {"failed", "part"} THEN Failed(disk, L(cbc, cmac))
          ELSE IF cmac \in {"none", "silent"}
          THEN Failed([Misread(enc, Old(cbc, cmac)) EXCEPT ![Hash] = Emptied], L(cbc, cmac))
          ELSE PerformSha(Misread(d, Old(cbc, cmac)), L(cbc, cmac), Old(cbc, cmac), nd, sha)
    BY DEF SignSymmetricChild
  <2> HIDE DEF L0, L, nd, p, Cbc, Cmac, d, enc
  <2>2. PICK cbc, cmac, sha :
          \/ Failed(disk, L0(cbc))
          \/ Failed(disk, L(cbc, cmac))
          \/ Failed([Misread(enc, Old(cbc, cmac)) EXCEPT ![Hash] = Emptied], L(cbc, cmac))
          \/ PerformSha(Misread(d, Old(cbc, cmac)), L(cbc, cmac), Old(cbc, cmac), nd, sha)
    BY <2>1, Zenon
  <2>3. Old(cbc, cmac) \in SUBSET {Enc, Hash}
    BY DEF OldOf
  <2> HIDE DEF Old
  <2> QED
    BY <2>2, <2>3, Zenon
<1> HIDE DEF enc, code, mac
<1>3. Elsewhere(disk, enc, f)
  BY <1>0, <1>1, PutElsewhere
<1>4. IsDir(enc)
  BY <1>3 DEF Elsewhere, Same
<1> HIDE DEF d
<1>5. Elsewhere(disk, d, f) /\ IsDir(d)
  <2>1. Elsewhere(enc, d, f)
    BY <1>1, <1>4, PutElsewhere
  <2> QED
    BY <1>3, <2>1, ElsewhereTransitive DEF Elsewhere, Same
<1>6. d[Enc] = code /\ d[Hash] = mac
  <2>1. enc[Enc] = code /\ Enc # Hash
    BY <1>0, <1>1 DEF IsDir
  <2> QED
    BY <1>0, <1>1, <1>4, <2>1 DEF IsDir
<1> DEFINE m == Misread(d, old)
           n == Misread(enc, old)
<1>7. Elsewhere(disk, m, f) /\ IsDir(m) /\ Elsewhere(disk, n, f) /\ IsDir(n)
  <2>1. old \subseteq {<<"enc", f>>, <<"hash", f>>, <<"sig", f>>}
    BY <1>2
  <2>2. Elsewhere(d, m, f) /\ Elsewhere(enc, n, f)
    BY <1>4, <1>5, <2>1, MisreadElsewhere
  <2> QED
    BY <1>3, <1>5, <2>2, ElsewhereTransitive DEF Elsewhere, Same
<1>8. (Enc \notin old => m[Enc] = code) /\ (Hash \notin old => m[Hash] = mac)
  BY <1>0, <1>6, MisreadKeeps
<1> HIDE DEF m, n
<1>9. m[<<"in", f>>] = disk[<<"in", f>>]
  BY <1>0, <1>7 DEF Elsewhere, Same
<1>10. \A x : /\ Elsewhere(disk, [n EXCEPT ![<<"hash", f>>] = x], f)
              /\ Elsewhere(disk, [m EXCEPT ![<<"sha", f>>] = x], f)
  <2>1. \A x : Elsewhere(n, [n EXCEPT ![<<"hash", f>>] = x], f) /\ Elsewhere(m, [m EXCEPT ![<<"sha", f>>] = x], f)
    BY <1>7, PutElsewhere
  <2> QED
    BY <1>7, <2>1, ElsewhereTransitive
<1>11. CASE Failed(disk, l0)
  BY <1>0, <1>11 DEF Failed, Ends
<1>12. CASE Failed([n EXCEPT ![Hash] = Emptied], l)
  BY <1>0, <1>10, <1>12 DEF Failed, Ends
<1>13. CASE PerformSha(m, l, old, nd, sha)
  <2>1. /\ disk' = m \/ \E x : disk' = [m EXCEPT ![<<"sha", f>>] = x]
        /\ \/ pc' = "idle" /\ ret' = "error" /\ at' = 1 /\ UNCHANGED call
           \/ /\ pc' = "list" /\ at' = at + 1 /\ UNCHANGED <<call, xml, keys>>
              /\ taken' = taken \cup old \/ taken' = taken \cup old \cup {<<"sha", f>>}
              /\ <<"sha", f>> \notin taken' => \A c : c = Child => DigestDone(c)'
    BY <1>0, <1>7, <1>9, <1>13, ShaWrites
  <2>2. Elsewhere(disk, disk', f)
    BY <1>7, <1>10, <2>1
  <2>3. disk'[Enc] = m[Enc] /\ disk'[Hash] = m[Hash]
    BY <1>0, <1>7, <2>1 DEF IsDir
  <2>4. ASSUME pc' = "list"
        PROVE  /\ Enc \notin taken' => disk'[Enc] = code
               /\ Hash \notin taken' => disk'[Hash] = mac
               /\ TakenOf(f)
    <3>1. taken' = taken \cup old \/ taken' = taken \cup old \cup {<<"sha", f>>}
      BY <2>1, <2>4
    <3> QED
      BY <1>2, <1>8, <2>3, <3>1 DEF TakenOf
  <2> QED
    BY <1>0, <2>1, <2>2, <2>4 DEF code, mac
<1> QED
  BY <1>2, <1>11, <1>12, <1>13 DEF m, n

\* The files that a public-key algorithm gives: signature and signed file.  The
\* XMSS pair is the one there was, or a new one.
LEMMA PublicChildWrites ==
  ASSUME Inputs, StageInv, SignPublicChild
  PROVE  /\ Elsewhere(disk, disk', Child.file)
         /\ pc' = "list" \/ (pc' = "idle" /\ ret' = "error" /\ at' = 1 /\ UNCHANGED call)
         /\ xmss' \in Pairs(ChildKey(Child))
         /\ pc' = "list" =>
              /\ at' = at + 1 /\ UNCHANGED <<call, xml, keys>>
              /\ TakenOf(Child.file)
              /\ ChildKey(Child).mode \notin {"SBK", "FSKP"}
              /\ ~(ChildKey(Child).mode = "XMSS" /\ xmss' = Gone)
              /\ <<"sig", Child.file>> \notin taken' =>
                    disk'[<<"sig", Child.file>>] = Signature(ToSign(Child), ChildKey(Child), Hsm(call), xmss')
              /\ disk'[<<"signed", Child.file>>] = disk[<<"in", Child.file>>]
<1> DEFINE nd == Child
           f == nd.file
           p == ChildKey(nd)
           Sig == <<"sig", f>>
           tool == SignTool(p, Hsm(call))
           Pub(o) == PublicOf(p, xmss', o)
           sig == Signature(ToSign(nd), p, Hsm(call), xmss')
           signed == disk[<<"in", f>>]
           Made(o) == [Pub(o) EXCEPT ![Sig] = sig, ![<<"signed", f>>] = signed]
<1>0. /\ f \in Files /\ IsDir(disk) /\ Elsewhere(disk, disk, f) /\ pc = "list"
      /\ Sig \in Names /\ <<"signed", f>> \in Names /\ p.mode \notin {"SBK", "FSKP"}
  BY ChildIsNode, ElsewhereSelf DEF SignPublicChild, Inputs, Names, Kinds
<1>1. PICK o, l, old :
        /\ xmss' \in Pairs(p)
        /\ old \in SUBSET {Sig}
        /\ \/ Failed(disk, left)
           \/ Failed(Pub(o), l)
           \/ Failed([Pub(o) EXCEPT ![Sig] = Emptied], l)
           \/ NextChild(Misread(Made(o), old), l, old) /\ ~(p.mode = "XMSS" /\ xmss' = Gone)
  <2> DEFINE L(o) == After(tool, o, left)
             Old(o) == OldOf(o, {Sig})
  <2>1. xmss' \in Pairs(p) /\ \E o \in Run(tool, TRUE) :
          IF p.mode = "XMSS" /\ xmss' = Gone THEN Failed(disk, left)
          ELSE IF o \in {"failed", "part"} \/ (o = "silent" /\ p.mode = "XMSS") THEN Failed(Pub(o), L(o))
          ELSE IF o = "silent" THEN Failed([Pub(o) EXCEPT ![Sig] = Emptied], L(o))
          ELSE NextChild(Misread(Made(o), Old(o)), L(o), Old(o))
    BY DEF SignPublicChild
  <2> HIDE DEF L, nd, p, tool, Pub, Made
  <2>2. PICK o :
          \/ Failed(disk, left)
          \/ Failed(Pub(o), L(o))
          \/ Failed([Pub(o) EXCEPT ![Sig] = Emptied], L(o))
          \/ NextChild(Misread(Made(o), Old(o)), L(o), Old(o)) /\ ~(p.mode = "XMSS" /\ xmss' = Gone)
    BY <2>1, Zenon
  <2>3. Old(o) \in SUBSET {Sig}
    BY DEF OldOf
  <2> HIDE DEF Old
  <2> QED
    BY <2>1, <2>2, <2>3, Zenon
<1> DEFINE pub == Pub(o)
           m == [pub EXCEPT ![Sig] = sig]
           e == [m EXCEPT ![<<"signed", f>>] = signed]
           r == Misread(e, old)
<1>2. \A x : Elsewhere(disk, [disk EXCEPT ![<<"pk", General>>] = x], f)
  BY <1>0, PutSame DEF Elsewhere, Products
<1>3. Elsewhere(disk, pub, f)
  BY <1>0, <1>2 DEF PublicOf
<1>4. Made(o) = e
  OBVIOUS
<1> HIDE DEF Made, Pub, pub, sig, signed
<1>5. IsDir(pub)
  BY <1>3 DEF Elsewhere, Same
<1>6. \A x : Elsewhere(disk, [pub EXCEPT ![Sig] = x], f)
  <2>1. \A x : Elsewhere(pub, [pub EXCEPT ![<<"sig", f>>] = x], f)
    BY <1>5, PutElsewhere
  <2> QED
    BY <1>3, <2>1, ElsewhereTransitive
<1>7. IsDir(m) /\ Elsewhere(disk, m, f) /\ m[Sig] = sig
  BY <1>0, <1>5, <1>6 DEF Elsewhere, Same, IsDir
<1> HIDE DEF m
<1>8. Elsewhere(disk, e, f) /\ IsDir(e)
  <2>1. Elsewhere(m, e, f)
    BY <1>7, PutElsewhere
  <2> QED
    BY <1>7, <2>1, ElsewhereTransitive DEF Elsewhere, Same
<1>9. e[Sig] = sig /\ e[<<"signed", f>>] = signed
  BY <1>0, <1>7 DEF IsDir
<1> HIDE DEF e
<1>10. Elsewhere(disk, r, f)
  <2>1. old \subseteq {<<"enc", f>>, <<"hash", f>>, <<"sig", f>>}
    BY <1>1
  <2>2. Elsewhere(e, r, f)
    BY <1>8, <2>1, MisreadElsewhere
  <2> QED
    BY <1>8, <2>2, ElsewhereTransitive
<1>11. (Sig \notin old => r[Sig] = sig) /\ r[<<"signed", f>>] = signed
  <2>1. <<"signed", f>> \notin old
    BY <1>1
  <2> QED
    BY <1>0, <1>9, <2>1, MisreadKeeps
<1> HIDE DEF r
<1>12. CASE \/ Failed(disk, left) \/ Failed(pub, l) \/ Failed([pub EXCEPT ![Sig] = Emptied], l)
  BY <1>0, <1>1, <1>3, <1>6, <1>12 DEF Failed, Ends
<1>13. CASE NextChild(r, l, old) /\ ~(p.mode = "XMSS" /\ xmss' = Gone)
  <2>1. /\ disk' = r /\ taken' = taken \cup old
        /\ pc' = "list" /\ at' = at + 1 /\ UNCHANGED <<call, xml, keys>>
    BY <1>13 DEF NextChild, GoesTo
  <2>2. TakenOf(f)
    BY <1>1, <2>1 DEF TakenOf
  <2>3. Sig \notin taken' => disk'[Sig] = sig
    BY <1>11, <2>1
  <2> QED
    BY <1>0, <1>1, <1>10, <1>11, <1>13, <2>1, <2>2, <2>3 DEF sig, signed
<1> QED
  BY <1>1, <1>4, <1>12, <1>13 DEF pub, r

LEMMA PublicDone ==
  ASSUME NEW nd \in Nodes, NEW p, NEW kf, KeyFitsFile(p, kf), p.mode \notin {"SBK", "FSKP"},
         disk'[<<"in", nd.file>>] = disk[<<"in", nd.file>>],
         <<"sig", nd.file>> \notin taken' => disk'[<<"sig", nd.file>>] = Signature(ToSign(nd), p, FALSE, xmss'),
         disk'[<<"signed", nd.file>>] = disk[<<"in", nd.file>>]
  PROVE  ChildDone(nd, kf)'
<1> DEFINE sig == Signature(ToSign(nd), p, FALSE, xmss')
<1>1. ~Symmetric(kf) /\ p.mode \in PublicModes /\ p.file = kf /\ (p.mode = "XMSS" <=> kf.type = "xmss")
  BY DEF KeyFitsFile
<1>2. Cells(nd.file)' = Cells(nd.file) /\ ChildLen(nd)' = ChildLen(nd)
  BY DEF Cells, ChildLen
<1>3. sig.by = KeyIn(Holds(xmss', kf)) /\ sig.cells = ToSign(nd)
  BY <1>1 DEF Signature, RsaPss, Ecc, Ed25519, Xmss, Seal, PublicModes, Holds
<1> HIDE DEF sig
<1> QED
  BY <1>1, <1>2, <1>3, Zenon DEF ChildDone, ToSign, sig

\* Signing a child leaves the keys what they were.
LEMMA ChildPair ==
  ASSUME Inputs, StageInv, SignSymmetricChild \/ SignPublicChild, pc' = "list"
  PROVE  /\ StillPair
         /\ xmss' = xmss \/ (xmss.lost # "none" /\ ChildKey(Child).mode = "XMSS")
         /\ ChildKey(Child).mode = "XMSS" => xmss'.lost = "none"
         /\ xmss' \in [key : Nat, lost : {"none", "cache", "pub", "all"}]
<1>1. CASE SignSymmetricChild
  <2>1. UNCHANGED xmss /\ ChildKey(Child).mode \in {"SBK", "FSKP"}
    BY <1>1, SymmetricChildWrites
  <2> QED
    BY <2>1 DEF StillPair, StageInv
<1>2. CASE SignPublicChild
  <2>1. xmss' \in Pairs(ChildKey(Child)) /\ ~(ChildKey(Child).mode = "XMSS" /\ xmss' = Gone)
    BY <1>2, PublicChildWrites
  <2>2. ChildKey(Child).mode = "XMSS" => xmss.key # 0
    BY <1>2, XmssChild DEF SignPublicChild
  <2> QED
    BY <2>1, <2>2 DEF Pairs, StillPair, StageInv
<1> QED
  BY <1>1, <1>2

\* Signing a child does what the property says, and undoes no earlier one.
LEMMA ChildStep ==
  ASSUME Inputs, StageInv, ListInv, SignSymmetricChild \/ SignPublicChild
  PROVE  ListInv'
<1> SUFFICES ASSUME call.what = "list", ~Hsm(call), call' = call, pc' = "list" PROVE ListInv'
  <2>1. call' = call /\ (pc' = "list" \/ (pc' = "idle" /\ ret' = "error"))
    BY SymmetricChildWrites, PublicChildWrites
  <2> QED
    BY <2>1 DEF ListInv, Hsm
<1>1. /\ Elsewhere(disk, disk', Child.file) /\ at' = at + 1 /\ TakenOf(Child.file)
  BY SymmetricChildWrites, PublicChildWrites
<1>2. pc = "list" /\ at \in DOMAIN call.list /\ ChildFits(Child) /\ at \in Nat
  BY DEF SignSymmetricChild, SignPublicChild, StageInv
<1>3. Child \in Nodes /\ Child.file \in Files /\ KeyFitsFile(ChildKey(Child), KeyOf(at))
  BY <1>2, ChildIsNode, ChildKeyFits
<1>4. disk'[<<"in", Child.file>>] = disk[<<"in", Child.file>>]
  BY <1>1, <1>3 DEF Elsewhere, Same
<1> DEFINE nd == Child
           kf == KeyOf(at)
<1>5. ASSUME NEW c, c = nd, NEW k, k = kf PROVE ChildDone(c, k)'
  <2>1. CASE SignSymmetricChild
    <3>1. <<"sha", c.file>> \notin taken' => DigestDone(c)'
      BY <1>5, <2>1, SymmetricChildWrites
    <3> QED
      BY <1>2, <1>3, <1>4, <1>5, <2>1, <3>1, SymmetricChildWrites, SymmetricDone
  <2>2. CASE SignPublicChild
    <3>1. Hsm(call) = FALSE
      BY DEF Hsm
    <3> QED
      BY <1>2, <1>3, <1>4, <1>5, <2>2, <3>1, PublicChildWrites, PublicDone
  <2> QED
    BY <2>1, <2>2
<1>6. /\ StillPair
      /\ UNCHANGED xmss \/ (xmss.lost # "none" /\ ChildKey(nd).mode = "XMSS")
      /\ ChildKey(nd).mode = "XMSS" => xmss'.lost = "none"
  BY ChildPair
<1>7. ASSUME NEW i \in DOMAIN call.list, i < at, NEW c, c = call.list[i], NEW k, ChildDone(c, k),
             k.type = "xmss" => UNCHANGED xmss
      PROVE  ChildDone(c, k)'
  <2>1. c \in Nodes /\ c.file \in Files /\ c.file # Child.file
    <3>1. call \in Calls
      BY DEF StageInv
    <3>2. c \in Nodes /\ i # at /\ i \in DOMAIN call.list
      BY <1>2, <1>7, <3>1, NodesOfList
    <3>3. call.list[i].file = call.list[at].file => i = at
      BY <1>2, <3>1, <3>2, CallsAssumption
    <3>4. c.file \in Files
      BY <3>2 DEF Nodes
    <3> QED
      BY <1>7, <3>2, <3>3, <3>4 DEF Child
  <2>2. Same(disk, disk', Products, {c.file})
    BY <1>1, <2>1 DEF Elsewhere, Same
  <2>3. SameTaken(c.file)
    BY <1>1, <2>1 DEF TakenOf, SameTaken
  <2> QED
    BY <1>7, <2>1, <2>2, <2>3, ChildKept
<1>8. ASSUME NEW i PROVE KeyOf(i)' = KeyOf(i)
  BY <1>6, PresentKept DEF KeyOf
<1>9. ASSUME NEW i \in DOMAIN call.list, i < at'
      PROVE  ChildDone(call.list[i], KeyOf(i))' /\ (KeyOf(i).type = "xmss" => xmss.lost = "none")'
  <2>1. i \in Nat /\ (i < at \/ i = at)
    BY <1>1, <1>2, <1>9, NodesOfList DEF StageInv
  <2>2. CASE i < at
    <3>1. ChildDone(call.list[i], KeyOf(i)) /\ (KeyOf(i).type = "xmss" => xmss.lost = "none")
      BY <1>2, <2>2 DEF ListInv
    <3>2. KeyOf(i).type = "xmss" => UNCHANGED xmss
      BY <1>6, <3>1
    <3>3. \A c, k : c = call.list[i] /\ k = KeyOf(i) => ChildDone(c, k)'
      BY <1>7, <2>2, <3>1, <3>2
    <3>4. ChildDone(call.list[i], KeyOf(i))'
      BY <1>8, <3>3
    <3> QED
      BY <1>8, <3>1, <3>2, <3>4
  <2>3. CASE i = at
    <3>1. \A c, k : c = nd /\ k = kf => ChildDone(c, k)'
      BY <1>5
    <3>2. ChildDone(call.list[i], KeyOf(i))'
      BY <1>8, <2>3, <3>1 DEF Child
    <3>3. kf.type = "xmss" => ChildKey(nd).mode = "XMSS"
      BY <1>3 DEF KeyFitsFile, Symmetric
    <3> QED
      BY <1>6, <1>8, <2>3, <3>2, <3>3
  <2> QED
    BY <2>1, <2>2, <2>3
<1> QED
  BY <1>9 DEF ListInv

-----------------------------------------------------------------------------
(* A single file.                                                          *)

FileInv ==
    call.what = "file" /\ call.kdf = "no" /\ ~Hsm(call) /\ (pc = "hash" \/ (pc = "idle" /\ ret = "ok"))
        => FileDone(call)

LEMMA FileKept ==
  ASSUME NEW a, Same(disk, disk', Products, {a.file}), SameTaken(a.file), UNCHANGED xmss, FileDone(a)
  PROVE  FileDone(a)'
<1>1. \A k \in Products : disk'[<<k, a.file>>] = disk[<<k, a.file>>]
  BY DEF Same
<1>2. Present(a.keys[1])' = Present(a.keys[1]) /\ \A kf : Holds(xmss', kf) = Holds(xmss, kf)
  BY DEF Present, Holds
<1> QED
  BY <1>1, <1>2, Zenon DEF Products, SameTaken, FileDone, FileLen, Cells, WithRange

LEMMA FileKeyFits ==
  ASSUME StageInv, pc = "file", call.kdf = "no", ~Hsm(call)
  PROVE  KeyFitsFile(keys[1], Present(call.keys[1])) /\ call.file \in Files
<1>1. call \in Calls /\ call.what = "file" /\ ~call.isList /\ call.file \in Files
  BY CallsAssumption DEF StageInv
<1>2. call.keys # <<>>
  BY DEF StageInv, NeedsKeys
<1>3. keys = <<SingleKey(call)>> /\ KeysFit(call, keys)
  BY <1>1 DEF StageInv, KeyList
<1>4. SingleKey(call).mode # "Unknown"
  BY <1>3 DEF KeysFit
<1>5. GivenKey(call) = Present(call.keys[1])
  BY <1>2 DEF GivenKey
<1> QED
  BY <1>1, <1>2, <1>3, <1>4, <1>5, SingleFits

\* A single file is signed with the XMSS key only when there is one.
LEMMA XmssFile ==
  ASSUME StageInv, pc = "file", call.kdf = "no", keys[1].mode = "XMSS"
  PROVE  xmss.key # 0
<1> DEFINE given == GivenKey(call)
           typed == IF Hsm(call) THEN ParseHsm(FreshSignKey, call.hsm, "HSM") ELSE FreshSignKey
           found == ExtractKey(typed, given, Hsm(call))
           set == ParseHsm(found, call.hsm, found.mode)
           Record(p) == p = [mode |-> p.mode, key |-> p.key, file |-> p.file, type |-> p.type, algo |-> p.algo]
<1>1. ~call.isList
  BY CallsAssumption DEF StageInv
<1>2. keys[1] = SingleKey(call)
  BY <1>1 DEF StageInv, KeyList
<1>3. SingleKey(call) = IF Hsm(call) \/ found.mode = "Unknown" THEN found
                       ELSE IF call.keys # <<>> THEN ExtractKey(set, given, FALSE) ELSE set
  BY Zenon DEF SingleKey
<1>4. Record(typed)
  BY FreshIsRecord DEF ParseHsm
<1> HIDE DEF typed
<1>5. Record(found)
  BY <1>4 DEF ExtractKey, ExtractNone, ExtractHsm, ExtractNative
<1> HIDE DEF given
<1>6. found.mode = "XMSS" => given.type = "xmss"
  BY <1>4, XmssMode
<1> HIDE DEF found
<1>7. Record(set) /\ set.mode = found.mode
  BY <1>5 DEF ParseHsm
<1> HIDE DEF set
<1>8. ExtractKey(set, given, FALSE).mode = "XMSS" => given.type = "xmss"
  BY <1>7, XmssMode
<1>9. given.type = "xmss"
  BY <1>2, <1>3, <1>6, <1>7, <1>8
<1> QED
  BY <1>9 DEF given, GivenKey, Present, NoKeyFile, KeyFile

LEMMA FileRange ==
  ASSUME Inputs, NEW a \in Calls, a.file \in Files, FileFits(a)
  PROVE  /\ FileLen(a) \in Nat /\ a.off \in Nat /\ a.off + FileLen(a) <= Len(Cells(a.file))
         /\ \E S : Cells(a.file) \in Seq(S)
<1>1. a.off \in Nat /\ a.len \in Nat
  BY CallsAssumption
<1> QED
  BY <1>1, CellsOfInput DEF FileFits, FileLen, RangeFits, Length

\* The files that an AES key gives: tag, encrypted file, MAC or HMAC.
LEMMA SymmetricFileWrites ==
  ASSUME Inputs, SignSymmetricFile, call.file \in Files
  PROVE  /\ Same(disk, disk', {"in"}, Files)
         /\ pc' = "hash" \/ (pc' = "idle" /\ ret' = "error" /\ at' = 1)
         /\ UNCHANGED <<call, xmss>>
         /\ pc' = "hash" =>
              /\ UNCHANGED <<keys, at>>
              /\ <<"enc", call.file>> \notin taken' =>
                    disk'[<<"enc", call.file>>] =
                      Data(Splice(Cells(call.file), call.off, Whole(FileLen(call)), FileBuffer(call, keys[1])))
              /\ MacsFile(call) /\ <<"hash", call.file>> \notin taken' =>
                    disk'[<<"hash", call.file>>] = FileMac(call, keys[1])
<1> DEFINE p == keys[1]
           f == call.file
           Enc == <<"enc", f>>
           Hash == <<"hash", f>>
           how == EncryptsWith(call, p)
           tag == Seal("tag", NoKey, FileBuffer(call, p))
           tagged == IF how = "aesgcm" THEN [disk EXCEPT ![<<"tag", f>>] = tag] ELSE disk
           code == Data(Splice(Cells(f), call.off, Whole(FileLen(call)), FileBuffer(call, p)))
           enc == [tagged EXCEPT ![Enc] = code]
           mac == FileMac(call, p)
           maced == [enc EXCEPT ![Hash] = mac]
           all == IF MacsFile(call) THEN maced ELSE enc
<1>1. IsDir(disk) /\ Same(disk, disk, {"in"}, Files) /\ UNCHANGED xmss
  BY SameSelf DEF Inputs, SignSymmetricFile
<1>2. PICK cipher, l0, l, old :
        /\ old \in SUBSET {Enc, Hash}
        /\ \/ Failed(disk, l0)
           \/ Failed(tagged, l)
           \/ Failed([Misread(enc, old) EXCEPT ![Hash] = Emptied], l)
           \/ FileMade(Misread(all, old), l, old)
  <2> DEFINE Cipher == Tool(IF how = "aesgcm" THEN "gcm" ELSE "cbc", FALSE)
             Mac == IF SignHow(call) = "hmacsha256" THEN Tool("hmac", Hsm(call)) ELSE Tool("cmac", FALSE)
             L0(c) == After(Cipher, c, left)
             L(c, m) == After(Mac, m, L0(c))
             Old(c, m) == OldOf(c, {Enc, Hash}) \cup OldOf(m, {Hash})
  <2>1. \E cipher \in Run(Cipher, how # "no"), hmac \in Run(Mac, MacsFile(call)) :
          IF NeedsHsmKey(call, p) /\ ~CanReadSbk(p) THEN Failed(disk, left)
          ELSE IF cipher \notin Good THEN Failed(disk, L0(cipher))
          ELSE IF hmac \in {"failed", "part"} THEN Failed(tagged, L(cipher, hmac))
          ELSE IF hmac = "silent" THEN Failed([Misread(enc, Old(cipher, hmac)) EXCEPT ![Hash] = Emptied], L(cipher, hmac))
          ELSE FileMade(Misread(all, Old(cipher, hmac)), L(cipher, hmac), Old(cipher, hmac))
    BY DEF SignSymmetricFile
  <2> HIDE DEF L0, L, p, Cipher, Mac, all, enc, tagged, how
  <2>2. PICK cipher, hmac :
          \/ Failed(disk, left) \/ Failed(disk, L0(cipher))
          \/ Failed(tagged, L(cipher, hmac))
          \/ Failed([Misread(enc, Old(cipher, hmac)) EXCEPT ![Hash] = Emptied], L(cipher, hmac))
          \/ FileMade(Misread(all, Old(cipher, hmac)), L(cipher, hmac), Old(cipher, hmac))
    BY <2>1, Zenon
  <2>3. Old(cipher, hmac) \in SUBSET {Enc, Hash}
    BY DEF OldOf
  <2> HIDE DEF Old
  <2> QED
    BY <2>2, <2>3, Zenon
<1> HIDE DEF code, tag, mac, how
<1>3. \A d, k, x : IsDir(d) /\ k # "in" => Same(d, [d EXCEPT ![<<k, f>>] = x], {"in"}, Files)
  BY PutSame
<1>4. Same(disk, tagged, {"in"}, Files) /\ IsDir(tagged)
  <2>1. Same(disk, tagged, {"in"}, Files)
    BY <1>1, <1>3
  <2> QED
    BY <2>1 DEF Same
<1> HIDE DEF tagged
<1>5. Same(disk, enc, {"in"}, Files) /\ IsDir(enc)
  <2>1. Same(tagged, enc, {"in"}, Files)
    BY <1>3, <1>4
  <2> QED
    BY <1>4, <2>1 DEF Same
<1>6. Enc \in Names /\ Hash \in Names
  BY DEF Names, Kinds
<1>7. enc[Enc] = code
  BY <1>4, <1>6 DEF IsDir
<1> HIDE DEF enc
<1>8. \A x : Same(disk, [enc EXCEPT ![<<"hash", f>>] = x], {"in"}, Files)
  <2>1. \A x : Same(enc, [enc EXCEPT ![<<"hash", f>>] = x], {"in"}, Files)
    BY <1>3, <1>5
  <2> QED
    BY <1>5, <2>1 DEF Same
<1>9. maced[Enc] = code /\ maced[Hash] = mac /\ Same(disk, maced, {"in"}, Files) /\ IsDir(maced)
  BY <1>5, <1>6, <1>7, <1>8 DEF IsDir
<1> HIDE DEF maced
<1>10. all[Enc] = code /\ (MacsFile(call) => all[Hash] = mac) /\ Same(disk, all, {"in"}, Files) /\ IsDir(all)
  BY <1>5, <1>7, <1>9
<1> HIDE DEF all
<1> DEFINE m == Misread(all, old)
           n == Misread(enc, old)
<1>11. Same(disk, m, {"in"}, Files) /\ Same(disk, n, {"in"}, Files) /\ IsDir(n)
  <2>1. \A k \in {"in"}, g \in Files : <<k, g>> \notin old
    BY <1>2
  <2>2. {"in"} \in SUBSET Kinds
    BY DEF Kinds
  <2>3. Same(all, m, {"in"}, Files) /\ Same(enc, n, {"in"}, Files)
    BY <1>5, <1>10, <2>1, <2>2, MisreadSame
  <2> QED
    BY <1>5, <1>10, <2>3, SameTransitive DEF Same
<1>12. (Enc \notin old => m[Enc] = code) /\ (Hash \notin old => m[Hash] = all[Hash])
  BY <1>6, <1>10, MisreadKeeps
<1> HIDE DEF m, n
<1>13. CASE Failed(disk, l0) \/ Failed(tagged, l)
  BY <1>1, <1>4, <1>13 DEF Failed, Ends
<1>14. CASE Failed([n EXCEPT ![Hash] = Emptied], l)
  <2>1. Same(disk, [n EXCEPT ![<<"hash", f>>] = Emptied], {"in"}, Files)
    BY <1>3, <1>11, SameTransitive
  <2> QED
    BY <1>1, <1>14, <2>1 DEF Failed, Ends
<1>15. CASE FileMade(m, l, old)
  <2>1. disk' = m /\ taken' = taken \cup old /\ pc' = "hash" /\ UNCHANGED <<call, keys, at>>
    BY <1>15 DEF FileMade, GoesTo
  <2>2. Enc \notin taken' => disk'[Enc] = code
    BY <1>12, <2>1
  <2>3. MacsFile(call) /\ Hash \notin taken' => disk'[Hash] = mac
    BY <1>10, <1>12, <2>1
  <2> QED
    BY <1>1, <1>11, <2>1, <2>2, <2>3 DEF code, mac
<1> QED
  BY <1>2, <1>13, <1>14, <1>15 DEF m, n

LEMMA SymmetricFileDone ==
  ASSUME Inputs, NEW a \in Calls, a.file \in Files, a.what = "file", FileFits(a), ~Hsm(a),
         NEW p, KeyFitsFile(p, Present(a.keys[1])), p.mode \in {"SBK", "FSKP"}, UNCHANGED xmss,
         disk'[<<"in", a.file>>] = disk[<<"in", a.file>>],
         <<"enc", a.file>> \notin taken' =>
             disk'[<<"enc", a.file>>] =
                 Data(Splice(Cells(a.file), a.off, Whole(FileLen(a)), FileBuffer(a, p))),
         MacsFile(a) /\ <<"hash", a.file>> \notin taken' => disk'[<<"hash", a.file>>] = FileMac(a, p)
  PROVE  FileDone(a)'
<1> DEFINE kf == Present(a.keys[1])
           buf == Cells(a.file)
           len == FileLen(a)
           part == FileBuffer(a, p)
           whole == Splice(buf, a.off, len, part)
           key == IF EncHow(a) \in {"aescbc", "aesgcm"} THEN Intended(kf) ELSE Zero
<1>1. Symmetric(kf) /\ p.key = Intended(kf)
  BY DEF KeyFitsFile, PublicModes
<1>2. Cells(a.file)' = buf /\ FileLen(a)' = len /\ kf' = kf
  BY DEF Cells, FileLen, Present
<1>3. PICK S : buf \in Seq(S)
  BY FileRange
<1>4. len \in Nat /\ a.off \in Nat /\ a.off + len <= Len(buf)
  BY FileRange
<1>5. CASE len % Block = 0
  <2>1. Whole(len) = len
    BY <1>4, <1>5, WholeBlocks
  <2>2. part = SealedPart(buf, a.off, len, key)
    <3>1. EncHow(a) \in {"no", "skip", "aescbc", "aesgcm"}
      BY CallsAssumption DEF EncHow
    <3>2. EncryptsWith(a, p) = IF key # Zero THEN EncHow(a) ELSE "no"
      BY <1>1, <3>1 DEF EncryptsWith
    <3>3. CASE key = Zero
      BY <3>2, <3>3 DEF FileBuffer, FileToSign, SealedPart
    <3>4. CASE key # Zero
      <4>1. EncHow(a) \in {"aescbc", "aesgcm"} /\ key = p.key
        BY <1>1, <3>4
      <4>2. part = Encrypted(First(FileToSign(a), len), p.key)
        BY <2>1, <3>2, <3>4, <4>1 DEF FileBuffer, AesCbc, AesGcm
      <4> QED
        BY <3>4, <4>1, <4>2 DEF FileToSign, SealedPart
    <3> QED
      BY <3>3, <3>4
  <2>3. <<"enc", a.file>> \notin taken' => disk'[<<"enc", a.file>>] = Data(whole)
    BY <2>1
  <2>4. WithRange(a.file, a.off, FileLen(a), key)' = SealedWhole(buf, a.off, len, key)
    BY <1>2 DEF WithRange, SealedWhole
  <2> HIDE DEF part, len, buf, key
  <2>5. /\ whole = SealedWhole(buf, a.off, len, key)
        /\ Until(whole, a.off, len) = part
        /\ First(part, len) = part
    BY <1>3, <1>4, <2>2, SealedRange
  <2>6. MacsFile(a) /\ <<"hash", a.file>> \notin taken' =>
          disk'[<<"hash", a.file>>].by = Intended(kf) /\ disk'[<<"hash", a.file>>].cells = part
    <3>1. FileMac(a, p).by = p.key /\ FileMac(a, p).cells = First(part, len)
      BY <2>1 DEF FileMac, HmacSha256, AesCmac, Seal, part, len
    <3> QED
      BY <1>1, <2>5, <3>1
  <2> HIDE DEF whole
  <2>7. Data(whole).cells = whole
    BY DEF Data
  <2>8. Data(whole) = Data(WithRange(a.file, a.off, FileLen(a), key)')
    BY <2>4, <2>5
  <2> QED
    BY <1>1, <1>2, <2>3, <2>5, <2>6, <2>7, <2>8, Zenon DEF FileDone, len, key
<1>6. CASE len % Block # 0
  BY <1>1, <1>2, <1>6, Zenon DEF FileDone
<1> QED
  BY <1>5, <1>6

\* The signature of a public-key algorithm.
LEMMA PublicFileStep ==
  ASSUME Inputs, StageInv, SignPublicFile
  PROVE  /\ Same(disk, disk', {"in"}, Files) /\ FileInv'
         /\ UNCHANGED call
         /\ pc' = "hash" \/ (pc' = "idle" /\ ret' = "error" /\ at' = 1)
         /\ pc' = "hash" => StillPair /\ UNCHANGED <<keys, at>>
         /\ xmss' \in [key : Nat, lost : {"none", "cache", "pub", "all"}]
<1> DEFINE f == call.file
           p == keys[1]
           Sig == <<"sig", f>>
           tool == SignTool(p, Hsm(call))
           Pub(o) == PublicOf(p, xmss', o)
           sig == Signature(FileToSign(call), p, Hsm(call), xmss')
           Made(o) == [Pub(o) EXCEPT ![Sig] = sig]
<1>1. /\ call.what = "file" /\ call.kdf = "no" /\ f \in Files /\ IsDir(disk) /\ Same(disk, disk, {"in"}, Files)
      /\ pc = "file" /\ p.mode \notin {"SBK", "FSKP"} /\ Sig \in Names
  BY CallsAssumption, SameSelf DEF SignPublicFile, StageInv, Inputs, Names, Kinds
<1>2. PICK o, l, old :
        /\ xmss' \in Pairs(p)
        /\ old \in SUBSET {Sig}
        /\ \/ Failed(disk, left)
           \/ Failed(Pub(o), l)
           \/ Failed([Pub(o) EXCEPT ![Sig] = Emptied], l)
           \/ FileMade(Misread(Made(o), old), l, old) /\ ~(p.mode = "XMSS" /\ xmss' = Gone)
  <2> DEFINE L(o) == After(tool, o, left)
             Old(o) == OldOf(o, {Sig})
  <2>1. xmss' \in Pairs(p) /\ \E o \in Run(tool, TRUE) :
          IF p.mode = "XMSS" /\ xmss' = Gone THEN Failed(disk, left)
          ELSE IF o \in {"failed", "part"} \/ (o = "silent" /\ p.mode = "XMSS") THEN Failed(Pub(o), L(o))
          ELSE IF o = "silent" THEN Failed([Pub(o) EXCEPT ![Sig] = Emptied], L(o))
          ELSE FileMade(Misread(Made(o), Old(o)), L(o), Old(o))
    BY DEF SignPublicFile
  <2> HIDE DEF L, p, tool, Pub, Made
  <2>2. PICK o :
          \/ Failed(disk, left)
          \/ Failed(Pub(o), L(o))
          \/ Failed([Pub(o) EXCEPT ![Sig] = Emptied], L(o))
          \/ FileMade(Misread(Made(o), Old(o)), L(o), Old(o)) /\ ~(p.mode = "XMSS" /\ xmss' = Gone)
    BY <2>1, Zenon
  <2>3. Old(o) \in SUBSET {Sig}
    BY DEF OldOf
  <2> HIDE DEF Old
  <2> QED
    BY <2>1, <2>2, <2>3, Zenon
<1> DEFINE pub == Pub(o)
           m == [pub EXCEPT ![Sig] = sig]
           r == Misread(m, old)
<1>3. Same(disk, pub, {"in"}, Files) /\ IsDir(pub)
  <2>1. \A x : Same(disk, [disk EXCEPT ![<<"pk", General>>] = x], {"in"}, Files)
    BY <1>1, PutSame
  <2>2. Same(disk, pub, {"in"}, Files)
    BY <1>1, <2>1 DEF PublicOf
  <2> QED
    BY <2>2 DEF Same
<1>4. Made(o) = m
  OBVIOUS
<1> HIDE DEF Made, Pub, pub, sig
<1>5. \A x : Same(disk, [pub EXCEPT ![Sig] = x], {"in"}, Files)
  <2>1. \A x : Same(pub, [pub EXCEPT ![<<"sig", f>>] = x], {"in"}, Files)
    BY <1>3, PutSame
  <2> QED
    BY <1>3, <2>1, SameTransitive
<1>6. IsDir(m) /\ Same(disk, m, {"in"}, Files) /\ m[Sig] = sig
  BY <1>1, <1>3, <1>5 DEF Same, IsDir
<1> HIDE DEF m
<1>7. Same(disk, r, {"in"}, Files)
  <2>1. \A k \in {"in"}, g \in Files : <<k, g>> \notin old
    BY <1>2
  <2>2. {"in"} \in SUBSET Kinds
    BY DEF Kinds
  <2>3. Same(m, r, {"in"}, Files)
    BY <1>6, <2>1, <2>2, MisreadSame
  <2> QED
    BY <1>6, <2>3, SameTransitive
<1>8. Sig \notin old => r[Sig] = sig
  BY <1>1, <1>6, MisreadKeeps
<1> HIDE DEF r
<1>9. /\ UNCHANGED call /\ Same(disk, disk', {"in"}, Files)
      /\ \/ pc' = "idle" /\ ret' = "error" /\ at' = 1
         \/ /\ pc' = "hash" /\ taken' = taken \cup old /\ disk' = r /\ UNCHANGED <<keys, at>>
            /\ ~(p.mode = "XMSS" /\ xmss' = Gone)
  <2>1. CASE \/ Failed(disk, left) \/ Failed(pub, l) \/ Failed([pub EXCEPT ![Sig] = Emptied], l)
    BY <1>1, <1>3, <1>5, <2>1 DEF Failed, Ends
  <2>2. CASE FileMade(r, l, old) /\ ~(p.mode = "XMSS" /\ xmss' = Gone)
    BY <1>7, <2>2 DEF FileMade, GoesTo
  <2> QED
    BY <1>2, <1>4, <2>1, <2>2 DEF pub, r
<1>10. /\ pc' = "hash" => StillPair
       /\ xmss' \in [key : Nat, lost : {"none", "cache", "pub", "all"}]
  <2>1. p.mode = "XMSS" => xmss.key # 0
    BY <1>1, XmssFile
  <2>2. xmss' \in Pairs(p)
    BY <1>2
  <2> QED
    BY <1>9, <2>1, <2>2 DEF Pairs, Gone, StillPair, StageInv
<1>11. ASSUME pc' = "hash", ~Hsm(call), NEW a, a = call PROVE FileDone(a)'
  <2> DEFINE kf == Present(call.keys[1])
  <2>1. KeyFitsFile(p, kf) /\ Hsm(call) = FALSE
    BY <1>1, <1>11, FileKeyFits DEF Hsm
  <2>2. ~Symmetric(kf) /\ p.mode \in PublicModes /\ p.file = kf /\ (p.mode = "XMSS" <=> kf.type = "xmss")
    BY <1>1, <2>1 DEF KeyFitsFile
  <2>3. sig.by = KeyIn(Holds(xmss', kf)) /\ sig.cells = FileToSign(call)
    <3> HIDE DEF kf
    <3> QED
      BY <2>1, <2>2 DEF sig, Signature, RsaPss, Ecc, Ed25519, Xmss, Seal, PublicModes, Holds
  <2>4. Sig \notin taken' => disk'[Sig] = sig
    BY <1>8, <1>9, <1>11
  <2>5. disk'[<<"in", f>>] = disk[<<"in", f>>]
    BY <1>1, <1>9 DEF Same
  <2>6. Cells(a.file)' = Cells(f) /\ FileLen(a)' = FileLen(call)
    BY <1>11, <2>5 DEF Cells, FileLen
  <2>7. Present(a.keys[1])' = kf
    BY <1>10, <1>11 DEF Present, StillPair
  <2> HIDE DEF kf
  <2> QED
    BY <1>11, <2>2, <2>3, <2>4, <2>6, <2>7, Zenon DEF FileDone, FileToSign
<1>12. ~Hsm(call) /\ pc' = "hash" => \A a : a = call => FileDone(a)'
  BY <1>11
<1>13. FileInv'
  BY <1>9, <1>12 DEF FileInv, Hsm
<1> QED
  BY <1>9, <1>10, <1>13

LEMMA SymmetricFileStep ==
  ASSUME Inputs, StageInv, SignSymmetricFile
  PROVE  /\ Same(disk, disk', {"in"}, Files) /\ FileInv'
         /\ UNCHANGED <<call, xmss>> /\ (pc' = "hash" => UNCHANGED <<keys, at>>)
         /\ pc' = "hash" \/ (pc' = "idle" /\ ret' = "error" /\ at' = 1)
<1>1. /\ pc = "file" /\ call.kdf = "no" /\ FileFits(call) /\ keys[1].mode \in {"SBK", "FSKP"}
      /\ call \in Calls /\ call.what = "file" /\ call.file \in Files
  BY CallsAssumption DEF SignSymmetricFile, StageInv
<1>2. /\ Same(disk, disk', {"in"}, Files) /\ UNCHANGED <<call, xmss>> /\ (pc' = "hash" => UNCHANGED <<keys, at>>)
      /\ pc' = "hash" \/ (pc' = "idle" /\ ret' = "error" /\ at' = 1)
  BY <1>1, SymmetricFileWrites
<1>3. disk'[<<"in", call.file>>] = disk[<<"in", call.file>>]
  BY <1>1, <1>2 DEF Same
<1>4. ASSUME pc' = "hash", ~Hsm(call), NEW a, a = call PROVE FileDone(a)'
  BY <1>1, <1>3, <1>4, FileKeyFits, SymmetricFileWrites, SymmetricFileDone
<1>5. ~Hsm(call) /\ pc' = "hash" => \A a : a = call => FileDone(a)'
  BY <1>4
<1>6. FileInv'
  BY <1>2, <1>5 DEF FileInv, Hsm
<1> QED
  BY <1>2, <1>6

-----------------------------------------------------------------------------
(* The chain of derivations gives the key of the table.                    *)

Kdks == DOMAIN KdkTable
\* What the code looks up from k; the KDKs of the list that it meets.
Up(k) == IF k \in Upper THEN KdkTable[k] ELSE k
Met(k) == {k, Up(k), Up(Up(k)), Up(Up(Up(k))), Up(Up(Up(Up(k))))} \cap Upper

LEMMA UpperRanks == \A k \in Upper : Rank(k) \in 1..5 /\ (Rank(k) = 5 <=> k = "SBK_FW_KDK")
BY DEF Upper, Rank

LEMMA UpIs ==
  ASSUME NEW k, k \in Upper => k \in Kdks
  PROVE  /\ Up(k) \in Upper => Up(k) \in Kdks
         /\ k \notin Upper => Up(k) = k
         /\ k \in Upper /\ Up(k) \in Upper => Rank(Up(k)) < Rank(k)
BY KdkTableAssumption DEF Up, Kdks

LEMMA VisitedIs ==
  ASSUME NEW dk
  PROVE  Visited(dk) = Met(KdkTable[DkTable[dk]])
<1> DEFINE k == KdkTable[DkTable[dk]]
           Climb(up) == [n \in 0..5 |-> IF n = 0 THEN KdkTable[DkTable[dk]]
                                        ELSE IF up[n - 1] \in Upper THEN KdkTable[up[n - 1]] ELSE up[n - 1]]
           f == [n \in 0..5 |-> CASE n = 0 -> k [] n = 1 -> Up(k) [] n = 2 -> Up(Up(k)) [] n = 3 -> Up(Up(Up(k)))
                                  [] n = 4 -> Up(Up(Up(Up(k)))) [] n = 5 -> Up(Up(Up(Up(Up(k)))))]
           h == CHOOSE up : up = Climb(up)
<1>1. f = Climb(f)
  <2> SUFFICES ASSUME NEW n \in 0..5
               PROVE  f[n] = IF n = 0 THEN KdkTable[DkTable[dk]] ELSE IF f[n-1] \in Upper THEN KdkTable[f[n-1]] ELSE f[n-1]
    OBVIOUS
  <2> HIDE DEF k
  <2>1. CASE n = 0
    BY <2>1 DEF k
  <2>2. CASE n = 1
    BY <2>2 DEF Up
  <2>3. CASE n = 2
    BY <2>3 DEF Up
  <2>4. CASE n = 3
    <3>1. f[3] = Up(Up(Up(k))) /\ f[2] = Up(Up(k))
      OBVIOUS
    <3> HIDE DEF f
    <3>2. f[n] = Up(f[n-1]) /\ n # 0
      BY <2>4, <3>1
    <3> QED
      BY <3>2 DEF Up
  <2>5. CASE n = 4
    <3>1. f[4] = Up(Up(Up(Up(k)))) /\ f[3] = Up(Up(Up(k)))
      OBVIOUS
    <3> HIDE DEF f
    <3>2. f[n] = Up(f[n-1]) /\ n # 0
      BY <2>5, <3>1
    <3> QED
      BY <3>2 DEF Up
  <2>6. CASE n = 5
    <3>1. f[5] = Up(Up(Up(Up(Up(k))))) /\ f[4] = Up(Up(Up(Up(k))))
      OBVIOUS
    <3> HIDE DEF f
    <3>2. f[n] = Up(f[n-1]) /\ n # 0
      BY <2>6, <3>1
    <3> QED
      BY <3>2 DEF Up
  <2> QED
    BY <2>1, <2>2, <2>3, <2>4, <2>5, <2>6
<1>2. h = Climb(h)
  <2> HIDE DEF Climb
  <2> QED
    BY <1>1
<1>3. Above(dk) = h
  BY DEF Above
<1> HIDE DEF h, f
<1>4. h[0] = k /\ h[1] = Up(h[0]) /\ h[2] = Up(h[1]) /\ h[3] = Up(h[2]) /\ h[4] = Up(h[3])
  <2>1. \A n \in 0..5 : h[n] = IF n = 0 THEN k ELSE Up(h[n-1])
    BY <1>2 DEF Up
  <2>2. h[0] = k /\ h[1] = Up(h[1-1]) /\ h[2] = Up(h[2-1]) /\ h[3] = Up(h[3-1]) /\ h[4] = Up(h[4-1])
    BY <2>1
  <2> QED
    BY <2>2
<1>5. {h[n] : n \in 0..4} = {h[0], h[1], h[2], h[3], h[4]}
  OBVIOUS
<1> QED
  BY <1>3, <1>4, <1>5 DEF Visited, Met

\* It meets k and what it meets from the one above, which come before k.
LEMMA MetUp ==
  ASSUME NEW k \in Upper \cap Kdks
  PROVE  /\ Met(k) = {k} \cup Met(KdkTable[k])
         /\ \A y \in Met(KdkTable[k]) : Rank(y) < Rank(k)
<1> DEFINE a == Up(k)
           b == Up(a)
           c == Up(b)
           d == Up(c)
           e == Up(d)
<1>1. a = KdkTable[k]
  BY DEF Up
<1>2. Met(k) = {k, a, b, c, d} \cap Upper /\ Met(a) = {a, b, c, d, e} \cap Upper
  BY DEF Met
<1>3. /\ a \in Upper => a \in Kdks /\ Rank(a) < Rank(k)
      /\ a \notin Upper => b = a
  BY UpIs
<1>4. /\ b \in Upper => a \in Upper /\ b \in Kdks /\ Rank(b) < Rank(a)
      /\ b \notin Upper => c = b
  <2> HIDE DEF a
  <2> QED
    BY <1>3, UpIs
<1>5. /\ c \in Upper => b \in Upper /\ c \in Kdks /\ Rank(c) < Rank(b)
      /\ c \notin Upper => d = c
  <2> HIDE DEF b
  <2> QED
    BY <1>4, UpIs
<1>6. /\ d \in Upper => c \in Upper /\ d \in Kdks /\ Rank(d) < Rank(c)
      /\ d \notin Upper => e = d
  <2> HIDE DEF c
  <2> QED
    BY <1>5, UpIs
<1>7. e \in Upper => d \in Upper /\ e \in Kdks /\ Rank(e) < Rank(d)
  <2> HIDE DEF d
  <2> QED
    BY <1>6, UpIs
<1> HIDE DEF a, b, c, d, e
<1>8. /\ Rank(k) \in 1..5 /\ (a \in Upper => Rank(a) \in 1..5) /\ (b \in Upper => Rank(b) \in 1..5)
      /\ (c \in Upper => Rank(c) \in 1..5) /\ (d \in Upper => Rank(d) \in 1..5) /\ (e \in Upper => Rank(e) \in 1..5)
  BY UpperRanks
<1>9. e \notin Upper
  BY <1>3, <1>4, <1>5, <1>6, <1>7, <1>8
<1>10. Met(k) = {k} \cup Met(a)
  BY <1>2, <1>9
<1>11. \A y \in Met(a) : Rank(y) < Rank(k)
  BY <1>2, <1>3, <1>4, <1>5, <1>6, <1>8, <1>9
<1> QED
  BY <1>1, <1>10, <1>11

\* What the tool derives from a key with the messages of the KDKs in met.
MsgIn(k, met) == IF k \in met THEN Msg(k) ELSE NoMsg
Value(key, met) ==
    Derive(Derive(Derive(Derive(key, MsgIn("SBK_NVMB_KDK", met)), MsgIn("SBK_TZ_KDK", met)),
                  MsgIn("SBK_GP_KDK", met)), MsgIn("SBK_GP_TOSB_KDK", met))

LEMMA DeriveIn ==
  ASSUME NEW key, NEW k \in Upper, NEW met
  PROVE  Derive(key, MsgIn(k, met)) = IF k \in met THEN Kdf(key, Msg(k)) ELSE key
<1>1. Msg(k) # NoMsg
  BY DEF Msg, NoMsg, Upper
<1> QED
  BY <1>1 DEF Derive, MsgIn

LEMMA ValueStep ==
  ASSUME NEW key, NEW k \in Upper, k # "SBK_FW_KDK", NEW met, met \subseteq Upper, \A y \in met : Rank(y) < Rank(k)
  PROVE  Value(key, {k} \cup met) = Kdf(Value(key, met), Msg(k))
<1> DEFINE all == {k} \cup met
           In(x, s, y) == IF y \in s THEN Kdf(x, Msg(y)) ELSE x
           V(s) == In(In(In(In(key, s, "SBK_NVMB_KDK"), s, "SBK_TZ_KDK"), s, "SBK_GP_KDK"), s, "SBK_GP_TOSB_KDK")
<1>1. Value(key, met) = V(met) /\ Value(key, all) = V(all)
  <2>1. ASSUME NEW s PROVE Value(key, s) = V(s)
    <3>1. \A x : /\ Derive(x, MsgIn("SBK_NVMB_KDK", s)) = In(x, s, "SBK_NVMB_KDK")
                 /\ Derive(x, MsgIn("SBK_TZ_KDK", s)) = In(x, s, "SBK_TZ_KDK")
                 /\ Derive(x, MsgIn("SBK_GP_KDK", s)) = In(x, s, "SBK_GP_KDK")
                 /\ Derive(x, MsgIn("SBK_GP_TOSB_KDK", s)) = In(x, s, "SBK_GP_TOSB_KDK")
      BY DeriveIn DEF Upper
    <3> HIDE DEF In
    <3> QED
      BY <3>1 DEF Value
  <2> QED
    BY <2>1
<1>2. /\ Rank("SBK_NVMB_KDK") = 1 /\ Rank("SBK_TZ_KDK") = 2 /\ Rank("SBK_GP_KDK") = 3
      /\ Rank("SBK_GP_TOSB_KDK") = 4 /\ Rank("SBK_FW_KDK") = 5
  BY DEF Rank
<1>3. k \in {"SBK_NVMB_KDK", "SBK_TZ_KDK", "SBK_GP_KDK", "SBK_GP_TOSB_KDK"}
  BY DEF Upper
<1>4. CASE k = "SBK_NVMB_KDK"
  <2>1. "SBK_NVMB_KDK" \notin met /\ "SBK_TZ_KDK" \notin met /\ "SBK_GP_KDK" \notin met /\ "SBK_GP_TOSB_KDK" \notin met
    BY <1>2, <1>4
  <2> QED
    BY <1>1, <1>4, <2>1
<1>5. CASE k = "SBK_TZ_KDK"
  <2>1. "SBK_TZ_KDK" \notin met /\ "SBK_GP_KDK" \notin met /\ "SBK_GP_TOSB_KDK" \notin met
    BY <1>2, <1>5
  <2> QED
    BY <1>1, <1>5, <2>1
<1>6. CASE k = "SBK_GP_KDK"
  <2>1. "SBK_GP_KDK" \notin met /\ "SBK_GP_TOSB_KDK" \notin met
    BY <1>2, <1>6
  <2> QED
    BY <1>1, <1>6, <2>1
<1>7. CASE k = "SBK_GP_TOSB_KDK"
  <2>1. "SBK_GP_TOSB_KDK" \notin met
    BY <1>2, <1>7
  <2> QED
    BY <1>1, <1>7, <2>1
<1> QED
  BY <1>3, <1>4, <1>5, <1>6, <1>7

\* The reference is what it says, as the table goes up to the root.
KeyFrom(key, up) == [k \in Kdks |-> Kdf(IF KdkTable[k] \in Kdks THEN up[KdkTable[k]] ELSE key, Msg(k))]
Height(k) == IF k \in Upper THEN Rank(k) ELSE 6
Agrees(key, up, n) == \A k \in Kdks : Height(k) <= n => up[k] = KeyFrom(key, up)[k]

LEMMA AgreesNext ==
  ASSUME NEW key, NEW up, NEW n \in Nat, NEW m, m = n + 1, Agrees(key, up, n)
  PROVE  Agrees(key, KeyFrom(key, up), m)
<1> DEFINE next == KeyFrom(key, up)
<1>1. ASSUME NEW k \in Kdks, Height(k) <= n + 1 PROVE next[k] = KeyFrom(key, next)[k]
  <2>1. KdkTable[k] \in Kdks => KdkTable[k] \in Upper /\ (k \in Upper => Rank(KdkTable[k]) < Rank(k))
    BY KdkTableAssumption DEF Kdks
  <2>2. KdkTable[k] \in Kdks => Height(KdkTable[k]) <= n
    BY <1>1, <2>1, UpperRanks DEF Height
  <2>3. KdkTable[k] \in Kdks => up[KdkTable[k]] = next[KdkTable[k]]
    BY <2>2 DEF Agrees
  <2>4. /\ next[k] = Kdf(IF KdkTable[k] \in Kdks THEN up[KdkTable[k]] ELSE key, Msg(k))
        /\ KeyFrom(key, next)[k] = Kdf(IF KdkTable[k] \in Kdks THEN next[KdkTable[k]] ELSE key, Msg(k))
    BY DEF KeyFrom
  <2> HIDE DEF next
  <2> QED
    BY <2>3, <2>4
<1> HIDE DEF next
<1> QED
  BY <1>1 DEF Agrees, next

LEMMA RefIs ==
  ASSUME NEW key, NEW ref, ref = RefKdkKey(key)
  PROVE  ref = KeyFrom(key, ref)
<1> DEFINE K(g) == [k \in DOMAIN KdkTable |-> Kdf(IF KdkTable[k] \in DOMAIN KdkTable THEN g[KdkTable[k]] ELSE key, Msg(k))]
           h == CHOOSE g : g = K(g)
<1>1. \A g : K(g) = KeyFrom(key, g)
  BY DEF KeyFrom, Kdks
<1>2. \E g : g = KeyFrom(key, g)
  <2> DEFINE g1 == KeyFrom(key, <<>>)
             g2 == KeyFrom(key, g1)
             g3 == KeyFrom(key, g2)
             g4 == KeyFrom(key, g3)
             g5 == KeyFrom(key, g4)
             g6 == KeyFrom(key, g5)
  <2>1. \A k \in Kdks : Height(k) \in 1..6
    BY UpperRanks DEF Height
  <2>2. Agrees(key, <<>>, 0)
    BY <2>1 DEF Agrees
  <2>3. Agrees(key, g1, 1)
    BY <2>2, AgreesNext
  <2>4. Agrees(key, g2, 2)
    <3> HIDE DEF g1
    <3> QED
      BY <2>3, AgreesNext
  <2>5. Agrees(key, g3, 3)
    <3> HIDE DEF g2
    <3> QED
      BY <2>4, AgreesNext
  <2>6. Agrees(key, g4, 4)
    <3> HIDE DEF g3
    <3> QED
      BY <2>5, AgreesNext
  <2>7. Agrees(key, g5, 5)
    <3> HIDE DEF g4
    <3> QED
      BY <2>6, AgreesNext
  <2>8. Agrees(key, g6, 6)
    <3> HIDE DEF g5
    <3> QED
      BY <2>7, AgreesNext
  <2>9. \A k \in Kdks : g6[k] = KeyFrom(key, g6)[k]
    <3> HIDE DEF g6
    <3> QED
      BY <2>1, <2>8 DEF Agrees
  <2>10. g6 = [k \in Kdks |-> g6[k]] /\ KeyFrom(key, g6) = [k \in Kdks |-> KeyFrom(key, g6)[k]]
    <3> HIDE DEF g5
    <3> QED
      BY DEF KeyFrom
  <2> HIDE DEF g6
  <2>11. g6 = KeyFrom(key, g6)
    BY <2>9, <2>10
  <2> QED
    BY <2>11
<1>3. h = K(h)
  <2>1. \E g : g = K(g)
    <3> HIDE DEF K
    <3> QED
      BY <1>1, <1>2
  <2> HIDE DEF K
  <2> QED
    BY <2>1
<1>4. ref = h
  BY DEF RefKdkKey
<1> HIDE DEF h, K
<1> QED
  BY <1>1, <1>3, <1>4

\* Up to a KDK, the tool derives the key that the table gives it.
LEMMA ValueIsRef ==
  ASSUME NEW key, NEW ref, ref = RefKdkKey(key), NEW top, top \in Upper => top \in Kdks, "SBK_FW_KDK" \notin Met(top)
  PROVE  Value(key, Met(top)) = IF top \in Upper THEN ref[top] ELSE key
<1> DEFINE IsRef(k) == "SBK_FW_KDK" \notin Met(k) => Value(key, Met(k)) = IF k \in Upper THEN ref[k] ELSE key
<1>1. ref = KeyFrom(key, ref)
  BY RefIs
<1>2. ASSUME NEW k, k \notin Upper PROVE IsRef(k)
  <2>1. Up(k) = k
    BY <1>2 DEF Up
  <2>2. Met(k) = {}
    BY <1>2, <2>1 DEF Met
  <2>3. Value(key, {}) = key
    BY DeriveIn DEF Value, Upper
  <2> QED
    BY <1>2, <2>2, <2>3
<1>3. ASSUME NEW k \in Upper \cap Kdks, IsRef(KdkTable[k]) PROVE IsRef(k)
  <2> SUFFICES ASSUME "SBK_FW_KDK" \notin Met(k) PROVE Value(key, Met(k)) = ref[k]
    OBVIOUS
  <2> DEFINE up == KdkTable[k]
  <2>1. Met(k) = {k} \cup Met(up) /\ \A y \in Met(up) : Rank(y) < Rank(k)
    BY MetUp
  <2>2. Met(up) \subseteq Upper
    BY DEF Met
  <2>3. Value(key, Met(up)) = IF up \in Upper THEN ref[up] ELSE key
    BY <1>3, <2>1
  <2>4. up \in Upper <=> up \in Kdks
    BY KdkTableAssumption DEF Kdks
  <2>5. ref[k] = Kdf(IF up \in Kdks THEN ref[up] ELSE key, Msg(k))
    BY <1>1 DEF KeyFrom
  <2> HIDE DEF up
  <2>6. Value(key, Met(k)) = Kdf(Value(key, Met(up)), Msg(k))
    <3>1. k # "SBK_FW_KDK"
      BY <2>1
    <3> QED
      BY <2>1, <2>2, <3>1, ValueStep
  <2> QED
    BY <2>3, <2>4, <2>5, <2>6
<1> HIDE DEF IsRef
<1>4. \A k \in Upper \cap Kdks : KdkTable[k] \in Upper => KdkTable[k] \in Kdks /\ Rank(KdkTable[k]) < Rank(k)
  BY KdkTableAssumption DEF Kdks
<1>5. \A k \in Upper \cap Kdks : Rank(k) <= 1 => IsRef(k)
  BY <1>2, <1>3, <1>4, UpperRanks
<1>6. \A k \in Upper \cap Kdks : Rank(k) <= 2 => IsRef(k)
  BY <1>2, <1>3, <1>4, <1>5, UpperRanks
<1>7. \A k \in Upper \cap Kdks : Rank(k) <= 3 => IsRef(k)
  BY <1>2, <1>3, <1>4, <1>6, UpperRanks
<1>8. \A k \in Upper \cap Kdks : Rank(k) <= 4 => IsRef(k)
  BY <1>2, <1>3, <1>4, <1>7, UpperRanks
<1>9. \A k \in Upper \cap Kdks : Rank(k) <= 5 => IsRef(k)
  BY <1>2, <1>3, <1>4, <1>8, UpperRanks
<1>10. IsRef(top)
  BY <1>2, <1>9, UpperRanks
<1> QED
  BY <1>10 DEF IsRef

\* do_kdf_params_oem() with either of the tools: the key of a DK is the one that
\* the table gives it, derived from the SBK down through every KDK above it, for
\* every table and DK but those below SBK_FW_KDK, whose message is lost.
THEOREM ChainIsReference ==
  ASSUME NEW dk \in DOMAIN DkTable, "SBK_FW_KDK" \notin Visited(dk), NEW ver, NEW p, NEW sbk, NEW flag
  PROVE  ChainOf(KdfParamsOem(dk, ver, p), sbk, flag) = RefDkKey(dk, ver, Unwrapped(sbk, flag))
<1> DEFINE k == DkTable[dk]
           up == KdkTable[k]
           key == Unwrapped(sbk, flag)
           ref == RefKdkKey(key)
           m == KdfParamsOem(dk, ver, p)
<1>1. k \in Kdks /\ (up \in Kdks <=> up \in Upper)
  BY KdkTableAssumption DEF Kdks
<1>2. Visited(dk) = Met(up)
  BY VisitedIs
<1>3. /\ m.bl = MsgIn("SBK_NVMB_KDK", Met(up)) /\ m.tz = MsgIn("SBK_TZ_KDK", Met(up))
      /\ m.gp = MsgIn("SBK_GP_KDK", Met(up)) /\ m.gpto = MsgIn("SBK_GP_TOSB_KDK", Met(up))
      /\ m.kdk = Msg(k) /\ m.dk = DkMsg(dk, ver)
  BY <1>2 DEF KdfParamsOem, MsgOf, MsgIn
<1> HIDE DEF m
<1>4. ChainOf(m, sbk, flag) = Kdf(Kdf(Value(key, Met(up)), Msg(k)), DkMsg(dk, ver))
  BY <1>3 DEF ChainOf, Value
<1>5. ref = KeyFrom(key, ref)
  BY RefIs
<1>6. RefDkKey(dk, ver, key) = Kdf(ref[k], DkMsg(dk, ver))
  BY DEF RefDkKey
<1> HIDE DEF up, key, ref
<1>7. Value(key, Met(up)) = IF up \in Upper THEN ref[up] ELSE key
  BY <1>1, <1>2, ValueIsRef DEF ref
<1>8. ref[k] = Kdf(IF up \in Kdks THEN ref[up] ELSE key, Msg(k))
  BY <1>1, <1>5 DEF KeyFrom, up
<1>9. ref[k] = Kdf(Value(key, Met(up)), Msg(k))
  BY <1>1, <1>7, <1>8
<1> QED
  BY <1>4, <1>6, <1>9 DEF m, key

\* Keys that messages of S make of the root kf.
KeysOver(kf, S) == [root : {kf}, path : Seq(S)]

LEMMA KdfMakesKey ==
  ASSUME NEW kf, NEW S, NEW key \in KeysOver(kf, S), NEW msg \in S
  PROVE  Kdf(key, msg) \in KeysOver(kf, S) /\ Kdf(key, msg) # Zero
<1> USE DEF KeysOver
<1>1. key.path \in Seq(S) /\ Kdf(key, msg) = [key EXCEPT !.path = Append(key.path, msg)]
  BY DEF Kdf
<1>2. Append(key.path, msg) \in Seq(S) /\ Append(key.path, msg) # <<>>
  BY <1>1, AppendProperties
<1>3. Kdf(key, msg) = [root |-> key.root, path |-> Append(key.path, msg)]
  BY <1>1
<1>4. Zero.path = <<>>
  BY DEF Zero, KeyIn
<1>5. Kdf(key, msg).path # Zero.path
  BY <1>2, <1>3, <1>4
<1> QED
  BY <1>2, <1>3, <1>5

LEMMA ChainNotZero ==
  ASSUME NEW m, NEW kf, NEW flag
  PROVE  ChainOf(m, KeyIn(kf), flag) # Zero
<1> DEFINE S == {Msg("deckdk"), m.bl, m.tz, m.gp, m.gpto, m.kdk, m.dk}
           K == KeysOver(kf, S)
           key == Unwrapped(KeyIn(kf), flag)
           bl == Derive(key, m.bl)
           tz == Derive(bl, m.tz)
           gp == Derive(tz, m.gp)
           gpto == Derive(gp, m.gpto)
           kdk == Kdf(gpto, m.kdk)
<1>1. /\ Msg("deckdk") \in S /\ m.bl \in S /\ m.tz \in S /\ m.gp \in S
      /\ m.gpto \in S /\ m.kdk \in S /\ m.dk \in S
  OBVIOUS
<1>2. ChainOf(m, KeyIn(kf), flag) = Kdf(kdk, m.dk)
  BY DEF ChainOf
<1>3. KeyIn(kf) \in K
  <2>1. <<>> \in Seq(S)
    OBVIOUS
  <2> HIDE DEF S
  <2> QED
    BY <2>1 DEF KeyIn, KeysOver
<1> HIDE DEF S
<1>4. ASSUME NEW x \in K, NEW msg \in S PROVE Kdf(x, msg) \in K /\ Kdf(x, msg) # Zero
  BY KdfMakesKey
<1> HIDE DEF K
<1>5. \A x \in K, msg \in S : Derive(x, msg) \in K
  BY <1>4 DEF Derive
<1>6. key \in K
  BY <1>1, <1>3, <1>4 DEF Unwrapped
<1> HIDE DEF key
<1>7. bl \in K
  BY <1>1, <1>5, <1>6
<1> HIDE DEF bl
<1>8. tz \in K
  BY <1>1, <1>5, <1>7
<1> HIDE DEF tz
<1>9. gp \in K
  BY <1>1, <1>5, <1>8
<1> HIDE DEF gp
<1>10. gpto \in K
  BY <1>1, <1>5, <1>9
<1> HIDE DEF gpto
<1>11. kdk \in K
  BY <1>1, <1>4, <1>10
<1> HIDE DEF kdk
<1> QED
  BY <1>1, <1>2, <1>4, <1>11

LEMMA RootIsKey == \A a : \E kf : RootSbk(a) = KeyIn(kf)
BY DEF RootSbk, AesKeyOf, Zero

\* The key that either tool uses, for a call that has got its keys.
LEMMA DerivesFromRoot ==
  ASSUME StageInv, pc = "file", call.kdf = "file", DerivesOem(call), NEW dk, NEW m, m = KdfParamsOem(dk, call.ver, keys[1])
  PROVE  (IF Hsm(call) THEN KdfOemHsmKey(m, call.flag) ELSE KdfOemKey(m, call.flag)) = ChainOf(m, RootSbk(call), call.flag)
<1>1. call \in Calls /\ ~call.isList /\ keys = KeyList(call)
  BY CallsAssumption DEF StageInv
<1>2. keys[1] = SingleKey(call)
  BY <1>1 DEF KeyList
<1>3. CASE Hsm(call)
  <2>1. CanReadSbk(HsmSignKey)
    BY <1>3 DEF DerivesOem
  <2> DEFINE none == Zero
             unknown == KeyFile("unknown", 0)
  <2>5. FreshSignKey = [mode |-> "Unknown", key |-> none, file |-> unknown, type |-> "UNKNOWN", algo |-> FALSE]
    BY DEF FreshSignKey
  <2>7. HsmSignKey = [FreshSignKey EXCEPT !.type = "SBK"]
    BY DEF HsmSignKey
  <2> HIDE DEF none, unknown
  <2>2. HsmSignKey = [mode |-> "Unknown", key |-> none, file |-> unknown, type |-> "SBK", algo |-> FALSE]
    BY <2>5, <2>7
  <2>6. unknown.type = "unknown"
    BY DEF unknown, KeyFile
  <2>3. KeyFileHsm(HsmSignKey) = KeyFile("sbk", 0)
    BY <2>1, <2>2, <2>6 DEF KeyFileHsm, CanReadSbk, DebugKeys
  <2>4. SbkKeyContent(HsmSignKey) = KeyIn(KeyFile("sbk", 0))
    BY <2>3 DEF SbkKeyContent, AesKeyOf, KeyFile
  <2> QED
    BY <1>3, <2>4 DEF RootSbk, KdfOemHsmKey
<1>4. CASE ~Hsm(call)
  <2> DEFINE given == GivenKey(call)
             none == Zero
             unknown == KeyFile("unknown", 0)
             holder == KeyIn(KeyFile("placeholder", 0))
             found == ParseKdfFile(FreshSignKey, given, "off")
             set == ParseHsm(found, "off", "FSKP")
  <2>1. call.hsm = "off" /\ call.kdf = "file"
    BY <1>4 DEF Hsm
  <2>2. FreshSignKey = [mode |-> "Unknown", key |-> none, file |-> unknown, type |-> "UNKNOWN", algo |-> FALSE]
    BY DEF FreshSignKey
  <2>3. found = [[[FreshSignKey EXCEPT !.file = given] EXCEPT !.key = holder] EXCEPT !.mode = "FSKP"]
    BY DEF ParseKdfFile
  <2>8. SingleKey(call) = IF call.keys # <<>> THEN ExtractKey(ParseHsm(found, "off", found.mode), given, FALSE)
                          ELSE ParseHsm(found, "off", found.mode)
    <3>1. found.mode = "FSKP"
      <4> HIDE DEF none, unknown, holder, given, found
      <4> QED
        BY <2>2, <2>3
    <3> HIDE DEF found
    <3> QED
      BY <1>4, <2>1, <3>1 DEF SingleKey, found
  <2> HIDE DEF none, unknown, holder, given, found
  <2>9. found = [mode |-> "FSKP", key |-> holder, file |-> given, type |-> "UNKNOWN", algo |-> FALSE]
    BY <2>2, <2>3
  <2>10. set = [mode |-> "FSKP", key |-> holder, file |-> given, type |-> "FSKP", algo |-> FALSE]
    BY <2>9 DEF ParseHsm
  <2>4. SingleKey(call) = IF call.keys # <<>> THEN ExtractKey(set, given, FALSE) ELSE set
    BY <2>8, <2>9
  <2> HIDE DEF set
  <2>5. ExtractKey(set, given, FALSE).file = given
    <3>1. ExtractNone(set, given).file = given
      BY <2>10 DEF ExtractNone
    <3>2. ExtractHsm(set, given, FALSE).file = given
      BY <2>10 DEF ExtractHsm
    <3> QED
      BY <2>10, <3>1, <3>2 DEF ExtractKey
  <2>6. keys[1].file = GivenKey(call)
    <3>1. set.file = given
      BY <2>10
    <3>2. keys[1].file = given
      BY <1>2, <2>4, <2>5, <3>1
    <3> QED
      BY <3>2 DEF given
  <2>7. m.sbk = RootSbk(call)
    BY <1>4, <2>6 DEF KdfParamsOem, RootSbk
  <2> QED
    BY <1>4, <2>7 DEF KdfOemKey
<1> QED
  BY <1>3, <1>4

LEMMA TimesCommutes == \A x \in Nat, y \in Nat : x * y = y * x /\ x * y \in Nat
OBVIOUS

LEMMA Divides ==
  ASSUME NEW x \in Nat, NEW b \in Nat, b # 0
  PROVE  /\ x \div b \in Nat /\ x % b \in Nat
         /\ x = (x \div b) * b + (x % b) /\ x % b < b
OBVIOUS

\* Blocks that leave some over in the last one are encrypted altogether.
LEMMA BlocksFill ==
  ASSUME NEW S, NEW buf \in Seq(S), NEW bs \in Nat, bs = 0 \/ Len(buf) % bs # 0, NEW key
  PROVE  HsmBlocks(buf, bs, key) = Encrypted(buf, key)
<1>1. CASE bs = 0
  BY <1>1 DEF HsmBlocks
<1>2. CASE bs # 0
  <2> DEFINE n == Len(buf)
             q == n \div bs
             r == n % bs
  <2>1. n \in Nat /\ DOMAIN buf = 1..n
    BY LenProperties
  <2> HIDE DEF n
  <2>2. q \in Nat /\ r \in Nat /\ n = bs * q + r /\ r < bs
    BY <1>2, <2>1
  <2>3. r # 0
    BY <1>2 DEF n
  <2>4. ASSUME NEW j \in DOMAIN buf PROVE j <= BlockEnd((j - 1) \div bs, n, bs)
    <3> DEFINE i == (j - 1) \div bs
               s == (j - 1) % bs
    <3>1. j \in 1..n
      BY <2>1
    <3>7. j - 1 \in Nat
      BY <2>1, <3>1
    <3>2. i \in Nat /\ s \in Nat /\ j - 1 = i * bs + s /\ s < bs
      BY <1>2, <3>7, Divides
    <3>3. BlockCount(n, bs) = q + 1
      BY <2>3 DEF BlockCount
    <3>4. i * bs = bs * i /\ i * bs \in Nat
      <4> HIDE DEF i, s
      <4> QED
        BY <3>2, TimesCommutes
    <3> HIDE DEF i, s
    <3>5. CASE i + 1 = q + 1
      <4>1. i = q /\ BlockEnd(i, n, bs) = i * bs + r
        <5>1. i = q
          BY <2>2, <3>2, <3>5
        <5> HIDE DEF q, r
        <5> QED
          BY <3>3, <3>5, <5>1 DEF BlockEnd, r
      <4>2. bs * i = bs * q
        BY <4>1
      <4> HIDE DEF q, r
      <4> QED
        BY <2>1, <2>2, <3>1, <3>4, <4>1, <4>2 DEF i
    <3>6. CASE i + 1 # q + 1
      <4>1. BlockEnd(i, n, bs) = i * bs + bs
        <5> HIDE DEF q
        <5> QED
          BY <3>3, <3>6 DEF BlockEnd
      <4> QED
        BY SMTT(30), <3>1, <3>2, <3>4, <4>1 DEF i
    <3> QED
      BY <3>5, <3>6
  <2>5. HsmBlocks(buf, bs, key) = [j \in DOMAIN buf |->
            IF j <= BlockEnd((j - 1) \div bs, n, bs) THEN [buf[j] EXCEPT !.by = key] ELSE buf[j]]
    BY <1>2 DEF HsmBlocks, n
  <2> QED
    BY <2>4, <2>5 DEF Encrypted
<1> QED
  BY <1>1, <1>2

-----------------------------------------------------------------------------
(* The three invariants.                                                   *)

\* One derivation and AES-CBC by the tool.
LEMMA DeriveCbcIs ==
  ASSUME DeriveCbc
  PROVE  /\ pc = "file" /\ call.kdf = "two" /\ pc' = "idle" /\ at' = 1 /\ UNCHANGED <<call, xmss>>
         /\ disk' = disk \/ \E x : disk' = [disk EXCEPT ![<<"enc", call.file>>] = x]
<1> DEFINE enc == <<"enc", call.file>>
           code == Data(Encrypted(KdfSource(call), KdfKdf2(keys[1], Label(call))))
<1>1. /\ pc = "file" /\ call.kdf = "two" /\ UNCHANGED xmss
      /\ \E o \in Outcomes :
           CASE o = "ok" -> Succeeds([disk EXCEPT ![enc] = code], left, {})
             [] o = "failed" -> Failed(disk, left)
             [] o = "part" -> Failed([disk EXCEPT ![enc] = Emptied], left)
             [] o = "silent" -> IF Exists(enc) THEN Succeeds(disk, left, {enc})
                                ELSE Ends("false") /\ UNCHANGED <<disk, left, taken>>
  BY DEF DeriveCbc
<1> HIDE DEF code
<1>2. \/ Succeeds([disk EXCEPT ![enc] = code], left, {})
      \/ Failed(disk, left)
      \/ Failed([disk EXCEPT ![enc] = Emptied], left)
      \/ Succeeds(disk, left, {enc})
      \/ Ends("false") /\ UNCHANGED <<disk, left, taken>>
  <2>1. PICK o \in Outcomes :
           CASE o = "ok" -> Succeeds([disk EXCEPT ![enc] = code], left, {})
             [] o = "failed" -> Failed(disk, left)
             [] o = "part" -> Failed([disk EXCEPT ![enc] = Emptied], left)
             [] o = "silent" -> IF Exists(enc) THEN Succeeds(disk, left, {enc})
                                ELSE Ends("false") /\ UNCHANGED <<disk, left, taken>>
    BY <1>1
  <2>2. CASE o = "ok"
    BY <2>1, <2>2
  <2>3. CASE o = "failed"
    BY <2>1, <2>3
  <2>4. CASE o = "part"
    BY <2>1, <2>4
  <2>5. CASE o = "silent"
    BY <2>1, <2>5
  <2> QED
    BY <2>2, <2>3, <2>4, <2>5 DEF Outcomes
<1> QED
  BY <1>1, <1>2 DEF Succeeds, Failed, Ends

\* A derivation writes a file's products, and no input.
LEMMA DerivationStep ==
  ASSUME Inputs, StageInv, KeyDerivation \/ DeriveAesgcm \/ DeriveHmacsha \/ DeriveCbc
  PROVE  /\ Same(disk, disk', {"in"}, Files)
         /\ call.what = "file" /\ call.kdf # "no" /\ UNCHANGED <<call, xmss>>
<1>1. IsDir(disk) /\ Same(disk, disk, {"in"}, Files)
  BY SameSelf DEF Inputs
<1> DEFINE Old == {<<k, g>> : k \in {"enc", "tag", "hash"}, g \in {call.file}}
<1>2. \A k, g, x : k # "in" => Same(disk, [disk EXCEPT ![<<k, g>>] = x], {"in"}, Files)
  BY <1>1, PutSame
<1>3. \A a, part : Same(disk, WithDerived(disk, a, part), {"in"}, Files)
  <2> SUFFICES ASSUME NEW a, NEW part PROVE Same(disk, WithDerived(disk, a, part), {"in"}, Files)
    OBVIOUS
  <2>1. "tag" \notin {"in"} /\ "enc" \notin {"in"}
    OBVIOUS
  <2> QED
    BY <1>1, <2>1, PutTwoSame DEF WithDerived
<1>4. ASSUME NEW d, Same(disk, d, {"in"}, Files), NEW old, old \subseteq Old
      PROVE  Same(disk, Misread(d, old), {"in"}, Files)
  <2>1. \A k \in {"in"}, g \in Files : <<k, g>> \notin old
    BY <1>4
  <2>2. {"in"} \in SUBSET Kinds /\ IsDir(d)
    BY <1>4 DEF Kinds, Same
  <2>3. Same(d, Misread(d, old), {"in"}, Files)
    BY <2>1, <2>2, MisreadSame
  <2> QED
    BY <1>4, <2>3, SameTransitive
<1>5. \A o : /\ OldOf(o, KdfProducts(call)) \subseteq Old
             /\ OldOf(o, {<<"hash", call.file>>}) \subseteq Old
  BY DEF OldOf, KdfProducts
<1>6. \E d : /\ Same(disk, d, {"in"}, Files)
             /\ disk' = d \/ \E old : old \subseteq Old /\ disk' = Misread(d, old)
  <2> HIDE DEF Old
  <2>1. CASE KeyDerivation
    <3>1. \/ disk' = disk
          \/ \E part, o, q : disk' = Misread(WithDerived(disk, call, part), OldOf(o, KdfProducts(call)) \cup OldOf(q, KdfProducts(call)))
      BY <2>1 DEF KeyDerivation, Failed, Succeeds
    <3> QED
      BY <1>1, <1>3, <1>5, <3>1
  <2>2. CASE DeriveAesgcm
    <3>1. \/ disk' = disk
          \/ \E part, o, q : disk' = Misread(WithDerived(disk, call, part), OldOf(o, KdfProducts(call)) \cup OldOf(q, KdfProducts(call)))
      BY <2>2 DEF DeriveAesgcm, Failed, Succeeds
    <3> QED
      BY <1>1, <1>3, <1>5, <3>1
  <2>3. CASE DeriveHmacsha
    <3>1. \E x, o : \/ disk' = disk
                   \/ disk' = Misread([disk EXCEPT ![<<"hash", call.file>>] = x], OldOf(o, {<<"hash", call.file>>}))
                   \/ disk' = [disk EXCEPT ![<<"hash", call.file>>] = x]
      BY <2>3 DEF DeriveHmacsha, Failed, Succeeds
    <3> QED
      BY <1>1, <1>2, <1>5, <3>1
  <2>4. CASE DeriveCbc
    <3>1. disk' = disk \/ \E x : disk' = [disk EXCEPT ![<<"enc", call.file>>] = x]
      BY <2>4, DeriveCbcIs
    <3> QED
      BY <1>1, <1>2, <3>1
  <2> QED
    BY <2>1, <2>2, <2>3, <2>4
<1>7. pc = "file" /\ call.kdf # "no" /\ UNCHANGED <<call, xmss>>
  BY DeriveCbcIs DEF KeyDerivation, DeriveAesgcm, DeriveHmacsha, Kdf2Ready, Failed, Succeeds, Ends
<1>8. call.what = "file"
  BY <1>7 DEF StageInv
<1>9. Same(disk, disk', {"in"}, Files)
  <2> HIDE DEF Old
  <2> QED
    BY <1>4, <1>6
<1> QED
  BY <1>7, <1>8, <1>9

\* What is read of a range is what there is of it.
LEMMA DerivedRange ==
  ASSUME Inputs, NEW a \in Calls, a.file \in Files, NEW key, key # Zero, NEW part, part = Encrypted(KdfSource(a), key)
  PROVE  /\ Splice(Cells(a.file), a.off, Len(part), part) = WithRange(a.file, a.off, FileLen(a), key)
         /\ \E S : KdfSource(a) \in Seq(S)
<1> DEFINE buf == Cells(a.file)
           off == a.off
           want == FileLen(a)
           size == Len(buf)
           last == IF off + want < size THEN off + want ELSE size
           src == KdfSource(a)
<1>1. off \in Nat /\ a.len \in Nat
  BY CallsAssumption
<1>2. PICK S : buf \in Seq(S) /\ size \in Nat
  BY CellsOfInput
<1>3. want \in Int /\ (want \in Nat \/ off + want = size)
  BY <1>1, <1>2 DEF FileLen, Length
<1>4. src = SubSeq(buf, off + 1, last)
  BY DEF KdfSource
<1>5. DOMAIN buf = 1..size /\ \A i \in 1..size : buf[i] \in S
  BY <1>2, LenProperties
<1> HIDE DEF buf, off, want, size, src
<1>6. last \in Nat /\ last <= size /\ \A i \in 1..size : i <= last <=> i <= off + want
  BY <1>1, <1>2, <1>3
<1> HIDE DEF last
<1>7. WithRange(a.file, off, want, key) = [j \in 1..size |-> IF j \in off + 1 .. off + want THEN [buf[j] EXCEPT !.by = key] ELSE buf[j]]
  BY <1>5 DEF WithRange, buf
<1>8. CASE off <= last
  <2> DEFINE n == last - off
  <2>1. n \in Nat /\ off + n = last /\ off + n <= size
    BY <1>1, <1>6, <1>8
  <2>2. src = Until(buf, off, n)
    BY <1>4, <2>1 DEF Until
  <2>3. src \in Seq(S) /\ Len(src) = n
    <3>1. ASSUME NEW i \in off + 1 .. last PROVE buf[i] \in S
      <4>1. i \in 1..size
        BY <1>1, <1>2, <1>6
      <4> QED
        BY <1>5, <4>1
    <3>2. src \in Seq(S) /\ Len(src) = IF off + 1 <= last THEN last - (off + 1) + 1 ELSE 0
      BY <1>1, <1>4, <1>6, <3>1, SubSeqProperties
    <3> QED
      BY <1>1, <1>6, <1>8, <3>2
  <2> HIDE DEF n
  <2>4. First(src, n) = src
    BY <2>3, SubSeqFull DEF First
  <2>5. part = SealedPart(buf, off, n, key)
    BY <2>2, <2>4 DEF SealedPart, src
  <2>6. Len(part) = n
    <3>1. DOMAIN src = 1..n /\ part = [i \in 1..n |-> [src[i] EXCEPT !.by = key]]
      BY <2>3, LenProperties DEF Encrypted, src
    <3> QED
      BY <2>1, <3>1
  <2>7. Splice(buf, off, n, part) = SealedWhole(buf, off, n, key)
    BY <1>1, <1>2, <2>1, <2>5, SealedRange DEF size
  <2>8. SealedWhole(buf, off, n, key) = [j \in 1..size |-> IF j \in off + 1 .. off + n THEN [buf[j] EXCEPT !.by = key] ELSE buf[j]]
    BY <1>5 DEF SealedWhole
  <2>9. \A j \in 1..size : j \in off + 1 .. off + n <=> j \in off + 1 .. off + want
    BY <1>1, <1>3, <1>6, <2>1
  <2>10. SealedWhole(buf, off, n, key) = WithRange(a.file, off, want, key)
    BY <1>7, <2>8, <2>9
  <2> QED
    BY <2>3, <2>6, <2>7, <2>10 DEF buf, off, want, src
<1>9. CASE ~(off <= last)
  <2>1. off > size /\ last = size
    BY <1>1, <1>2, <1>3, <1>9 DEF last
  <2>2. src = <<>>
    BY <1>1, <1>2, <1>4, <2>1, SubSeqEmpty
  <2>3. part = <<>> /\ Len(part) = 0
    BY <2>2 DEF Encrypted, src
  <2>4. First(buf, off) = buf
    <3>1. First(buf, off) = SubSeq(buf, 1, size)
      BY <1>1, <1>2, <2>1 DEF First, size
    <3> QED
      BY <1>2, <3>1, SubSeqFull DEF size
  <2>5. Until(buf, off + 0, size - off - 0) = <<>>
    <3>1. Until(buf, off + 0, size - off - 0) = SubSeq(buf, off + 1, size)
      BY <1>1, <1>2 DEF Until
    <3> QED
      BY <1>1, <1>2, <2>1, <3>1, SubSeqEmpty
  <2>6. Splice(buf, off, 0, <<>>) = (buf \o <<>>) \o <<>>
    BY <2>4, <2>5 DEF Splice, size
  <2>7. Splice(buf, off, 0, <<>>) = buf
    BY <1>2, <2>6
  <2>8. buf = [j \in 1..size |-> buf[j]]
    BY <1>2, <1>5
  <2>9. \A j \in 1..size : j \notin off + 1 .. off + want
    BY <1>1, <1>2, <2>1
  <2>10. WithRange(a.file, off, want, key) = buf
    BY <1>7, <2>8, <2>9
  <2> QED
    BY <2>2, <2>3, <2>7, <2>10 DEF buf, off, want, src
<1> QED
  BY <1>8, <1>9

\* do_key_derivation() that succeeds leaves what KdfFollowsTable says.
KdfDone(a) ==
    a.kdf = "file" /\ a.flag # "DEV" /\ ~WholeBlocksOfHsm(a) /\ <<"enc", a.file>> \notin taken =>
        \E dk \in MapBinToDk(a.words, a.dk, a.magic) :
            "SBK_FW_KDK" \notin Visited(dk) =>
                disk[<<"enc", a.file>>] =
                    Data(WithRange(a.file, a.off, FileLen(a), RefDkKey(dk, a.ver, Unwrapped(RootSbk(a), a.flag))))

LEMMA DerivationDone ==
  ASSUME Inputs, StageInv, KeyDerivation, pc' = "idle", ret' = "ok"
  PROVE  \A a : a = call => KdfDone(a)'
<1> SUFFICES ASSUME NEW a, a = call, a.flag # "DEV", ~WholeBlocksOfHsm(a)', <<"enc", a.file>> \notin taken'
             PROVE  (\E dk \in MapBinToDk(a.words, a.dk, a.magic) :
                        "SBK_FW_KDK" \notin Visited(dk) =>
                            disk[<<"enc", a.file>>] =
                                Data(WithRange(a.file, a.off, FileLen(a), RefDkKey(dk, a.ver, Unwrapped(RootSbk(a), a.flag)))))'
  BY DEF KdfDone
<1>1. a \in Calls /\ a.file \in Files /\ pc = "file" /\ a.kdf = "file" /\ a.block \in Nat
  BY CallsAssumption DEF KeyDerivation, StageInv
<1>2. DerivesOem(a)
  BY DEF KeyDerivation, Failed, Ends, DerivesDev
<1>3. PICK dk \in MapBinToDk(a.words, a.dk, a.magic) \cap DOMAIN DkTable :
        \E old : disk' = Misread(WithDerived(disk, a, Derived(a, dk)), old) /\ taken' = taken \cup old
  BY DEF KeyDerivation, Failed, Ends, Succeeds
<1>0. PICK old : disk' = Misread(WithDerived(disk, a, Derived(a, dk)), old) /\ taken' = taken \cup old
  BY <1>3
<1> DEFINE part == Derived(a, dk)
           key == RefDkKey(dk, a.ver, Unwrapped(RootSbk(a), a.flag))
<1>4. disk'[<<"enc", a.file>>] = Data(Splice(Cells(a.file), a.off, Len(part), part))
  <2>1. <<"enc", a.file>> \in DOMAIN disk /\ <<"enc", a.file>> \in Names /\ <<"tag", a.file>> # <<"enc", a.file>>
    BY <1>1 DEF Inputs, IsDir, Names, Kinds
  <2> HIDE DEF part
  <2>2. WithDerived(disk, a, part) =
          [disk EXCEPT ![<<"tag", a.file>>] = Seal("tag", NoKey, part),
                       ![<<"enc", a.file>>] = Data(Splice(Cells(a.file), a.off, Len(part), part))]
    BY DEF WithDerived
  <2>3. WithDerived(disk, a, part)[<<"enc", a.file>>] = Data(Splice(Cells(a.file), a.off, Len(part), part))
    BY <2>1, <2>2
  <2>4. <<"enc", a.file>> \notin old
    BY <1>0
  <2>5. Misread(WithDerived(disk, a, part), old)[<<"enc", a.file>>] = WithDerived(disk, a, part)[<<"enc", a.file>>]
    BY <2>1, <2>4, MisreadKeeps
  <2> QED
    BY <1>0, <2>3, <2>5 DEF part
<1>5. Cells(a.file)' = Cells(a.file)
  <2>1. disk'[<<"in", a.file>>] = disk[<<"in", a.file>>]
    BY <1>1, DerivationStep DEF Same
  <2> QED
    BY <2>1 DEF Cells
<1>6. FileLen(a)' = FileLen(a) /\ KdfSource(a)' = KdfSource(a) /\ \A k : WithRange(a.file, a.off, FileLen(a), k)' = WithRange(a.file, a.off, FileLen(a), k)
  BY <1>5 DEF FileLen, KdfSource, WithRange
<1>7. ASSUME "SBK_FW_KDK" \notin Visited(dk) PROVE part = Encrypted(KdfSource(a), key) /\ key # Zero
  <2> DEFINE m == KdfParamsOem(dk, a.ver, keys[1])
  <2>1. PICK kf : RootSbk(a) = KeyIn(kf)
    BY RootIsKey
  <2>2. key = ChainOf(m, RootSbk(a), a.flag)
    BY <1>7, ChainIsReference
  <2>3. key # Zero
    BY <2>1, <2>2, ChainNotZero
  <2>4. (IF Hsm(a) THEN KdfOemHsmKey(m, a.flag) ELSE KdfOemKey(m, a.flag)) = ChainOf(m, RootSbk(a), a.flag)
    BY <1>1, <1>2, DerivesFromRoot
  <2>5. part = IF Hsm(a) THEN HsmBlocks(KdfSource(a), a.block, KdfOemHsmKey(m, a.flag))
               ELSE Encrypted(KdfSource(a), KdfOemKey(m, a.flag))
    BY DEF Derived, KdfOem
  <2> HIDE DEF m, key, part
  <2>6. CASE Hsm(a)
    <3>1. a.block = 0 \/ Len(KdfSource(a)) % a.block # 0
      BY <1>6, <2>6 DEF WholeBlocksOfHsm, Hsm
    <3>2. PICK S : KdfSource(a) \in Seq(S)
      BY <1>1, <2>3, DerivedRange
    <3> QED
      BY <1>1, <2>2, <2>3, <2>4, <2>5, <2>6, <3>1, <3>2, BlocksFill
  <2>7. CASE ~Hsm(a)
    BY <2>2, <2>3, <2>4, <2>5, <2>7
  <2> QED
    BY <2>6, <2>7
<1> HIDE DEF part, key
<1>8. ASSUME "SBK_FW_KDK" \notin Visited(dk) PROVE disk'[<<"enc", a.file>>] = Data(WithRange(a.file, a.off, FileLen(a), key))
  BY <1>1, <1>4, <1>7, <1>8, DerivedRange
<1>9. RootSbk(a)' = RootSbk(a)
  BY DerivationStep DEF RootSbk, GivenKey, Present
<1> QED
  BY <1>3, <1>6, <1>8, <1>9 DEF key

LEMMA InputsStep ==
  ASSUME Inputs, StageInv, [Next]_vars
  PROVE  Inputs'
<1>1. ASSUME Quiet PROVE Inputs'
  BY <1>1, InputsKept DEF Quiet, Same, Products
<1>2. ASSUME NEW f \in Files, Regenerate(f) PROVE Inputs'
  <2>1. PICK v \in Nat : disk[<<"in", f>>] = Fresh(f, v)
    BY DEF Inputs
  <2>2. Cells(f)[1].of[2] = v
    <3>1. Size[f] \in Nat /\ 1 \in 1..Size[f]
      BY FilesAssumption
    <3>2. Cells(f)[1] = Cell(f, v, 1)
      BY <2>1, <3>1 DEF Cells, Fresh, Data
    <3> QED
      BY <3>2 DEF Cell
  <2>3. disk' = [disk EXCEPT ![<<"in", f>>] = Fresh(f, v + 1)]
    BY <1>2, <2>2 DEF Regenerate
  <2>4. v + 1 \in Nat /\ <<"in", f>> \in Names /\ DOMAIN disk = Names
    BY DEF Names, Kinds, Inputs, IsDir
  <2>5. IsDir(disk')
    BY <2>3, <2>4 DEF IsDir
  <2>6. disk'[<<"in", f>>] = Fresh(f, v + 1)
    BY <2>3, <2>4
  <2>7. ASSUME NEW g \in Files, g # f PROVE disk'[<<"in", g>>] = disk[<<"in", g>>]
    BY <2>3, <2>7
  <2> QED
    BY <2>4, <2>5, <2>6, <2>7 DEF Inputs
<1>3. CASE UNCHANGED vars
  BY <1>3 DEF vars, Inputs
<1>4. CASE SignSymmetricChild \/ SignPublicChild
  BY <1>4, SymmetricChildWrites, PublicChildWrites, InputsKept DEF Elsewhere
<1>5. CASE SignSymmetricFile \/ SignPublicFile
  BY <1>5, SymmetricFileStep, PublicFileStep, InputsKept
<1>6. CASE KeyDerivation \/ DeriveAesgcm \/ DeriveHmacsha \/ DeriveCbc
  BY <1>6, DerivationStep, InputsKept
<1>7. CASE ComputeSha
  BY <1>7, ShaInputs, InputsKept
<1> QED
  BY <1>1, <1>2, <1>3, <1>4, <1>5, <1>6, <1>7, QuietKeys, QuietPrepare, QuietHash, QuietOthers DEF Next

\* The keys of a call depend on whether there is an XMSS key.
LEMMA KeysKept ==
  ASSUME UNCHANGED call, StillPair
  PROVE  KeyList(call)' = KeyList(call)
<1>1. ASSUME NEW a PROVE KeyList(a)' = KeyList(a)
  <2>1. \A kf : Present(kf)' = Present(kf)
    BY PresentKept
  <2> QED
    BY <2>1, Zenon DEF KeyList, KeysOfList, SingleKey, GivenKey
<1>2. \A a : a = call => KeyList(a)' = KeyList(a)
  BY <1>1
<1> QED
  BY <1>2

LEMMA StageStep ==
  ASSUME Inputs, StageInv, [Next]_vars
  PROVE  StageInv'
<1>0. ASSUME UNCHANGED <<call, keys, xmss>> PROVE KeyList(call)' = KeyList(call) /\ KeysFit(call, keys)' = KeysFit(call, keys)
  <2>1. StillPair
    BY <1>0 DEF StillPair
  <2> QED
    BY <1>0, <2>1, KeysKept DEF KeysFit
<1>1. ASSUME NEW a \in Calls, Invoke(a) PROVE StageInv'
  BY <1>1 DEF Invoke, StageInv
<1>2. ASSUME NEW f \in Files, Regenerate(f) PROVE StageInv'
  BY <1>2 DEF Regenerate, StageInv, outside
<1>3. ASSUME NEW part \in {"cache", "pub"}, LosePart(part) PROVE StageInv'
  BY <1>3 DEF LosePart, StageInv
\* A call that ends.
<1>4. ASSUME pc' = "idle", at' = 1, UNCHANGED call, xmss' \in [key : Nat, lost : {"none", "cache", "pub", "all"}]
      PROVE  StageInv'
  BY <1>4 DEF StageInv
<1>5. CASE ExtractKeys
  <2>1. CASE /\ KeysFit(call, KeyList(call)) /\ keys' = KeyList(call)
             /\ GoesTo("prepare") /\ UNCHANGED <<xml, at, outside>>
    <3>1. UNCHANGED <<call, at, xmss>> /\ pc' = "prepare"
      BY <2>1 DEF GoesTo, outside
    <3>2. KeyList(call)' = KeyList(call)
      BY <3>1, KeysKept DEF StillPair
    <3>3. KeysFit(call, KeyList(call))'
      BY <2>1, <3>1, <3>2 DEF KeysFit
    <3> QED
      BY <1>5, <2>1, <3>1, <3>2, <3>3 DEF StageInv, ExtractKeys
  <2>2. CASE \E d : ErrorWith(d)
    BY <1>4, <2>2 DEF ErrorWith, Failed, Ends, StageInv
  <2> QED
    BY <1>5, <2>1, <2>2 DEF ExtractKeys
<1>6. CASE Prepare
  BY <1>0, <1>6 DEF Prepare, StageInv, GoesTo, outside
<1>7. CASE SignSymmetricChild \/ SignPublicChild
  <2>1. /\ pc = "list" /\ xmss' \in [key : Nat, lost : {"none", "cache", "pub", "all"}]
        /\ pc' = "list" => at' = at + 1 /\ UNCHANGED <<call, keys>>
        /\ pc' = "list" \/ pc' = "idle"
    <3>1. xmss' = xmss \/ xmss' \in Pairs(ChildKey(Child))
      BY <1>7, SymmetricChildWrites, PublicChildWrites
    <3>2. xmss' \in [key : Nat, lost : {"none", "cache", "pub", "all"}]
      BY <3>1 DEF Pairs, Gone, StageInv
    <3> QED
      BY <1>7, <3>2, SymmetricChildWrites, PublicChildWrites DEF SignSymmetricChild, SignPublicChild
  <2>2. CASE pc' = "list"
    <3>1. StillPair
      BY <1>7, <2>2, ChildPair
    <3>2. KeyList(call)' = KeyList(call)
      BY <2>1, <2>2, <3>1, KeysKept
    <3> QED
      BY <2>1, <2>2, <3>2 DEF StageInv, KeysFit
  <2>3. CASE pc' = "idle"
    <3>1. UNCHANGED call /\ at' = 1
      BY <1>7, <2>3, SymmetricChildWrites, PublicChildWrites
    <3> QED
      BY <1>4, <2>1, <2>3, <3>1
  <2> QED
    BY <2>1, <2>2, <2>3
<1>8. CASE SignedXml
  BY <1>0, <1>8 DEF SignedXml, StageInv, GoesTo, outside
<1>9. CASE SignSymmetricFile \/ SignPublicFile
  <2>1. /\ pc = "file" /\ UNCHANGED call
        /\ pc' = "hash" => StillPair /\ UNCHANGED keys
        /\ xmss' \in [key : Nat, lost : {"none", "cache", "pub", "all"}]
    BY <1>9, SymmetricFileStep, PublicFileStep DEF SignSymmetricFile, SignPublicFile, StillPair, StageInv
  <2>2. \/ pc' = "hash" /\ UNCHANGED at
        \/ pc' = "idle" /\ at' = 1
    BY <1>9, SymmetricFileStep, PublicFileStep
  <2>3. CASE pc' = "hash"
    <3>1. KeyList(call)' = KeyList(call)
      BY <2>1, <2>3, KeysKept
    <3> QED
      BY <2>1, <2>2, <2>3, <3>1 DEF StageInv, KeysFit
  <2> QED
    BY <1>4, <2>1, <2>2, <2>3
<1>10. CASE \/ RejectChild \/ RejectFile \/ KeyDerivation \/ DeriveAesgcm \/ DeriveHmacsha \/ DeriveCbc \/ RejectKdf
            \/ Finish \/ Randomize \/ HashPublicKey \/ ComputeSha \/ Kill
  <2>1. pc' = "idle" /\ at' = 1 /\ UNCHANGED <<call, xmss>>
    <3> USE DEF ErrorWith, Failed, Succeeds, Ends
    <3>1. CASE RejectChild \/ RejectFile \/ RejectKdf
      BY <3>1 DEF RejectChild, RejectFile, RejectKdf
    <3>2. CASE KeyDerivation
      BY <3>2 DEF KeyDerivation
    <3>3. CASE DeriveAesgcm
      BY <3>3 DEF DeriveAesgcm
    <3>4. CASE DeriveHmacsha
      BY <3>4 DEF DeriveHmacsha
    <3>5. CASE DeriveCbc
      BY <3>5, DeriveCbcIs
    <3>6. CASE Finish \/ Randomize \/ HashPublicKey \/ ComputeSha \/ Kill
      BY <3>6 DEF Finish, Randomize, HashPublicKey, ComputeSha, Kill, SavePublicKeyHash
    <3> QED
      BY <1>10, <3>1, <3>2, <3>3, <3>4, <3>5, <3>6
  <2> QED
    BY <1>4, <2>1 DEF StageInv
<1>11. CASE UNCHANGED vars
  BY <1>0, <1>11 DEF vars, outside, StageInv
<1> QED
  BY <1>1, <1>2, <1>3, <1>5, <1>6, <1>7, <1>8, <1>9, <1>10, <1>11 DEF Next

LEMMA ListStep ==
  ASSUME Inputs, StageInv, ListInv, [Next]_vars
  PROVE  ListInv'
<1>1. ASSUME Quiet, UNCHANGED <<call, xmss, taken>>, call.what = "list",
             NEW i \in DOMAIN call.list, NEW c, c = call.list[i], NEW k, ChildDone(c, k)
      PROVE  ChildDone(c, k)'
  <2>1. c \in Nodes /\ c.file \in Files
    BY <1>1, NodesOfList DEF StageInv, Nodes
  <2>2. Same(disk, disk', Products, {c.file})
    BY <1>1, <2>1 DEF Quiet, Same
  <2>3. SameTaken(c.file)
    BY <1>1 DEF SameTaken
  <2> QED
    BY <1>1, <2>1, <2>2, <2>3, ChildKept
\* A stage that leaves the list's products alone keeps what has been said of it.
<1>2. ASSUME Quiet, UNCHANGED <<call, xml, xmss, taken>>, call.what = "list", ListDone PROVE ListDone'
  <2>1. ASSUME NEW i \in DOMAIN call.list PROVE ChildDone(call.list[i], KeyOf(i))'
    <3>1. ChildDone(call.list[i], KeyOf(i))
      BY <1>2 DEF ListDone
    <3>2. \A c, k : c = call.list[i] /\ k = KeyOf(i) => ChildDone(c, k)'
      BY <1>1, <1>2, <3>1
    <3>3. KeyOf(i)' = KeyOf(i)
      BY <1>2 DEF KeyOf, Present
    <3> QED
      BY <1>2, <3>2, <3>3
  <2> QED
    BY <1>2, <2>1 DEF ListDone
<1> USE DEF Ends, ErrorWith, Failed, Succeeds, GoesTo
<1>3. ASSUME NEW a \in Calls, Invoke(a) PROVE ListInv'
  BY <1>3 DEF Invoke, ListInv
<1>4. ASSUME NEW f \in Files, Regenerate(f) PROVE ListInv'
  BY <1>4 DEF Regenerate, ListInv
<1>16. ASSUME NEW part \in {"cache", "pub"}, LosePart(part) PROVE ListInv'
  BY <1>16 DEF LosePart, ListInv
<1>5. CASE ExtractKeys
  BY <1>5 DEF ExtractKeys, ListInv
<1>6. CASE Prepare
  <2>1. UNCHANGED <<call, at>> /\ pc' # "idle" /\ (call.what = "list" => pc' = "list") /\ at = 1
    BY <1>6 DEF Prepare, StageInv
  <2>2. call.what = "list" => \A i \in DOMAIN call.list : ~(i < 1)
    BY NodesOfList DEF StageInv
  <2> QED
    BY <2>1, <2>2 DEF ListInv
<1>7. CASE SignSymmetricChild \/ SignPublicChild
  BY <1>7, ChildStep
<1>8. CASE SignedXml
  <2>1. /\ pc' = "hash" /\ UNCHANGED <<call, xmss, taken>>
        /\ pc = "list" /\ at \notin DOMAIN call.list /\ xml'.list = call.list
    BY <1>8 DEF SignedXml, outside
  <2>2. Quiet
    BY <1>8, QuietOthers
  <2>3. call \in Calls /\ at \in Nat \ {0}
    BY DEF StageInv
  <2>4. ASSUME NEW i \in DOMAIN call.list PROVE i < at
    BY <2>1, <2>3, <2>4, NodesOfList
  <2>5. ASSUME call.what = "list", ~Hsm(call), NEW i \in DOMAIN call.list
        PROVE  ChildDone(call.list[i], KeyOf(i))'
    <3>1. ChildDone(call.list[i], KeyOf(i))
      BY <2>1, <2>4, <2>5 DEF ListInv
    <3>2. \A c, k : c = call.list[i] /\ k = KeyOf(i) => ChildDone(c, k)'
      BY <1>1, <2>1, <2>2, <2>5, <3>1
    <3>3. KeyOf(i)' = KeyOf(i)
      BY <2>1 DEF KeyOf, Present
    <3> QED
      BY <2>1, <3>2, <3>3
  <2> QED
    BY <2>1, <2>5 DEF ListInv, ListDone, Hsm
<1>9. CASE Finish
  <2>1. Quiet /\ UNCHANGED <<call, xml, xmss, taken>> /\ pc = "hash" /\ pc' = "idle"
    BY <1>9, QuietHash DEF Finish, SavePublicKeyHash
  <2>2. call.what = "list" /\ ~Hsm(call) => ListDone'
    BY <1>2, <2>1 DEF ListInv
  <2> QED
    BY <2>1, <2>2 DEF ListInv, Hsm
<1>10. CASE RejectChild \/ RejectFile \/ RejectKdf \/ Kill
  BY <1>10 DEF RejectChild, RejectFile, RejectKdf, Kill, ListInv
<1>11. CASE SignSymmetricFile \/ SignPublicFile
  <2>1. call.what = "file" /\ UNCHANGED call
    BY <1>11, SymmetricFileStep, PublicFileStep DEF SignSymmetricFile, SignPublicFile, StageInv
  <2> QED
    BY <2>1 DEF ListInv
<1>13. CASE KeyDerivation \/ DeriveAesgcm \/ DeriveHmacsha \/ DeriveCbc
  BY <1>13, DerivationStep DEF ListInv
<1>14. CASE Randomize \/ HashPublicKey \/ ComputeSha
  BY <1>14 DEF Randomize, HashPublicKey, ComputeSha, SavePublicKeyHash, ListInv
<1>15. CASE UNCHANGED vars
  <2>1. \A c, k : ChildDone(c, k) => ChildDone(c, k)'
    <3>1. UNCHANGED <<disk, taken, xmss>>
      BY <1>15 DEF vars, outside
    <3> SUFFICES ASSUME NEW c, NEW k, ChildDone(c, k) PROVE ChildDone(c, k)'
      OBVIOUS
    <3>2. Cells(c.file)' = Cells(c.file) /\ ChildLen(c)' = ChildLen(c) /\ Holds(xmss, k)' = Holds(xmss, k)
      BY <3>1 DEF Cells, ChildLen, Holds
    <3>3. DigestDone(c)' <=> DigestDone(c)
      BY <3>1 DEF DigestDone, ShaRange
    <3> QED
      BY <3>1, <3>2, <3>3, Zenon DEF ChildDone, WithRange
  <2>2. UNCHANGED <<call, pc, at, ret, xml, xmss>>
    BY <1>15 DEF vars, outside
  <2>3. \A i : KeyOf(i)' = KeyOf(i)
    BY <2>2 DEF KeyOf, Present
  <2>4. ASSUME NEW i PROVE ChildDone(call.list[i], KeyOf(i)) => ChildDone(call.list[i], KeyOf(i))'
    <3>1. \A c, k : c = call.list[i] /\ k = KeyOf(i) /\ ChildDone(c, k) => ChildDone(c, k)'
      BY <2>1
    <3> QED
      BY <2>2, <2>3, <3>1
  <2> QED
    BY <2>2, <2>3, <2>4 DEF ListInv, ListDone, Hsm
<1> QED
  BY <1>3, <1>4, <1>5, <1>6, <1>7, <1>8, <1>9, <1>10, <1>11, <1>13, <1>14, <1>15, <1>16 DEF Next

LEMMA FileStep ==
  ASSUME Inputs, StageInv, FileInv, [Next]_vars
  PROVE  FileInv'
<1> USE DEF Ends, ErrorWith, Failed, Succeeds, GoesTo
<1>1. ASSUME NEW a \in Calls, Invoke(a) PROVE FileInv'
  BY <1>1 DEF Invoke, FileInv
<1>2. ASSUME NEW f \in Files, Regenerate(f) PROVE FileInv'
  BY <1>2 DEF Regenerate, FileInv
<1>13. ASSUME NEW part \in {"cache", "pub"}, LosePart(part) PROVE FileInv'
  BY <1>13 DEF LosePart, FileInv
<1>3. CASE ExtractKeys
  BY <1>3 DEF ExtractKeys, FileInv
<1>4. CASE Prepare
  BY <1>4 DEF Prepare, FileInv
<1>5. CASE SignSymmetricChild \/ SignPublicChild
  <2>1. call' = call /\ call.what = "list"
    BY <1>5, SymmetricChildWrites, PublicChildWrites DEF StageInv, SignSymmetricChild, SignPublicChild
  <2> QED
    BY <2>1 DEF FileInv
<1>6. CASE SignedXml
  BY <1>6 DEF SignedXml, StageInv, FileInv
<1>7. CASE Finish
  <2>1. Quiet /\ UNCHANGED <<call, xmss, taken>> /\ pc = "hash" /\ pc' = "idle"
    BY <1>7, QuietHash DEF Finish, SavePublicKeyHash
  <2>2. ASSUME call.what = "file", FileDone(call), NEW a, a = call PROVE FileDone(a)'
    <3>1. a.file \in Files
      BY <2>2, CallsAssumption DEF StageInv
    <3>2. Same(disk, disk', Products, {a.file})
      BY <2>1, <3>1 DEF Quiet, Same
    <3>3. SameTaken(a.file)
      BY <2>1 DEF SameTaken
    <3> QED
      BY <2>1, <2>2, <3>2, <3>3, FileKept
  <2>3. call.what = "file" /\ FileDone(call) => \A a : a = call => FileDone(a)'
    BY <2>2
  <2> QED
    BY <2>1, <2>3 DEF FileInv, Hsm
<1>8. CASE RejectChild \/ RejectFile \/ RejectKdf \/ Kill
  BY <1>8 DEF RejectChild, RejectFile, RejectKdf, Kill, FileInv
<1>9. CASE SignSymmetricFile \/ SignPublicFile
  BY <1>9, SymmetricFileStep, PublicFileStep
<1>10. CASE KeyDerivation \/ DeriveAesgcm \/ DeriveHmacsha \/ DeriveCbc
  BY <1>10, DerivationStep DEF FileInv
<1>11. CASE Randomize \/ HashPublicKey \/ ComputeSha
  BY <1>11 DEF Randomize, HashPublicKey, ComputeSha, SavePublicKeyHash, FileInv
<1>12. CASE UNCHANGED vars
  <2>1. \A a : FileDone(a) => FileDone(a)'
    <3>1. UNCHANGED <<disk, taken, xmss>>
      BY <1>12 DEF vars, outside
    <3> SUFFICES ASSUME NEW a, FileDone(a) PROVE FileDone(a)'
      OBVIOUS
    <3>2. /\ Cells(a.file)' = Cells(a.file) /\ FileLen(a)' = FileLen(a)
          /\ Present(a.keys[1])' = Present(a.keys[1]) /\ \A kf : Holds(xmss', kf) = Holds(xmss, kf)
      BY <3>1 DEF Cells, FileLen, Present, Holds
    <3> QED
      BY <3>1, <3>2, Zenon DEF FileDone, WithRange
  <2> QED
    BY <1>12, <2>1 DEF vars, FileInv, Hsm
<1> QED
  BY <1>1, <1>2, <1>3, <1>4, <1>5, <1>6, <1>7, <1>8, <1>9, <1>10, <1>11, <1>12, <1>13 DEF Next

KdfInv ==
    /\ pc = "hash" /\ call.what = "file" => call.kdf = "no"
    /\ call.what = "file" /\ pc = "idle" /\ ret = "ok" => KdfDone(call)

LEMMA KdfStep ==
  ASSUME Inputs, StageInv, KdfInv, [Next]_vars
  PROVE  KdfInv'
<1> USE DEF Ends, ErrorWith, Failed, Succeeds, GoesTo
<1>1. ASSUME NEW a \in Calls, Invoke(a) PROVE KdfInv'
  BY <1>1 DEF Invoke, KdfInv
<1>2. ASSUME NEW f \in Files, Regenerate(f) PROVE KdfInv'
  BY <1>2 DEF Regenerate, KdfInv
<1>14. ASSUME NEW part \in {"cache", "pub"}, LosePart(part) PROVE KdfInv'
  BY <1>14 DEF LosePart, KdfInv
<1>3. CASE ExtractKeys
  BY <1>3 DEF ExtractKeys, KdfInv
<1>4. CASE Prepare
  BY <1>4 DEF Prepare, KdfInv
<1>5. CASE SignSymmetricChild \/ SignPublicChild
  <2>1. call' = call /\ call.what = "list"
    BY <1>5, SymmetricChildWrites, PublicChildWrites DEF StageInv, SignSymmetricChild, SignPublicChild
  <2> QED
    BY <2>1 DEF KdfInv
<1>6. CASE SignedXml
  BY <1>6 DEF SignedXml, StageInv, KdfInv
<1>7. CASE SignSymmetricFile \/ SignPublicFile
  <2>1. UNCHANGED call /\ call.kdf = "no" /\ (pc' = "hash" \/ (pc' = "idle" /\ ret' = "error"))
    BY <1>7, SymmetricFileStep, PublicFileStep DEF SignSymmetricFile, SignPublicFile
  <2> QED
    BY <2>1 DEF KdfInv
<1>8. CASE RejectChild \/ RejectFile \/ RejectKdf \/ Kill
  BY <1>8 DEF RejectChild, RejectFile, RejectKdf, Kill, KdfInv
<1>9. CASE Finish
  <2>1. UNCHANGED call /\ pc = "hash" /\ pc' = "idle"
    BY <1>9 DEF Finish, SavePublicKeyHash
  <2> QED
    BY <2>1 DEF KdfInv, KdfDone
<1>10. CASE KeyDerivation
  <2>1. UNCHANGED call /\ pc' = "idle"
    BY <1>10 DEF KeyDerivation
  <2>2. ret' = "ok" => \A a : a = call => KdfDone(a)'
    BY <1>10, <2>1, DerivationDone
  <2>3. ASSUME ret' = "ok" PROVE KdfDone(call)'
    <3>1. PICK a : a = call
      OBVIOUS
    <3>2. call' = a /\ KdfDone(a)'
      BY <2>1, <2>2, <2>3, <3>1
    <3>3. WholeBlocksOfHsm(call)' = WholeBlocksOfHsm(a)' /\ FileLen(call)' = FileLen(a)'
      BY <3>2 DEF WholeBlocksOfHsm, KdfSource, FileLen, Cells
    <3>4. ASSUME NEW k PROVE WithRange(call.file, call.off, FileLen(call), k)' = WithRange(a.file, a.off, FileLen(a), k)'
      BY <3>2, <3>3 DEF WithRange, Cells
    <3>5. RootSbk(call)' = RootSbk(a)'
      BY <3>2 DEF RootSbk, Hsm, GivenKey
    <3> QED
      BY <3>2, <3>3, <3>4, <3>5 DEF KdfDone
  <2> QED
    BY <2>1, <2>3 DEF KdfInv
<1>11. CASE DeriveAesgcm \/ DeriveHmacsha \/ DeriveCbc
  <2>1. UNCHANGED call /\ call.kdf = "two" /\ pc' = "idle"
    BY <1>11, DeriveCbcIs DEF DeriveAesgcm, DeriveHmacsha, Kdf2Ready
  <2> QED
    BY <2>1 DEF KdfInv, KdfDone
<1>12. CASE Randomize \/ HashPublicKey \/ ComputeSha
  BY <1>12 DEF Randomize, HashPublicKey, ComputeSha, SavePublicKeyHash, KdfInv
<1>13. CASE UNCHANGED vars
  <2>1. UNCHANGED <<disk, call, pc, ret, taken, xmss>>
    BY <1>13 DEF vars, outside
  <2>2. KdfDone(call)' = KdfDone(call)
    BY <2>1 DEF KdfDone, WholeBlocksOfHsm, KdfSource, FileLen, WithRange, Cells, RootSbk, Hsm, GivenKey, Present
  <2> QED
    BY <2>1, <2>2 DEF KdfInv
<1> QED
  BY <1>1, <1>2, <1>3, <1>4, <1>5, <1>6, <1>7, <1>8, <1>9, <1>10, <1>11, <1>12, <1>13, <1>14 DEF Next

LEMMA Initially == Init => Inputs /\ StageInv /\ ListInv /\ FileInv
<1> SUFFICES ASSUME Init PROVE Inputs /\ StageInv /\ ListInv /\ FileInv
  OBVIOUS
<1>1. StageInv /\ ListInv /\ FileInv
  BY DEF Init, StageInv, ListInv, FileInv, XmssKey, KeyFile
<1>2. IsDir(disk)
  BY DEF Init, IsDir
<1>3. ASSUME NEW f \in Files PROVE disk[<<"in", f>>] = Fresh(f, 1)
  <2>1. <<"in", f>> \in Names /\ f # General
    BY FilesAssumption DEF Names, Kinds
  <2> QED
    BY <2>1 DEF Init
<1> QED
  BY <1>1, <1>2, <1>3 DEF Inputs

\* The stage of a call fits what it was called with, and the keys taken are
\* those of this call and pass check_key(); an input is as it was made last.
THEOREM SigningInvariant == Spec => [](Inputs /\ StageInv /\ ListInv /\ FileInv)
<1>1. Inputs /\ StageInv /\ ListInv /\ FileInv /\ [Next]_vars
        => Inputs' /\ StageInv' /\ ListInv' /\ FileInv'
  BY InputsStep, StageStep, ListStep, FileStep
<1> QED
  BY Initially, <1>1, PTL DEF Spec

\* do_list(): whatever earlier calls, failures and kills left, success means
\* that every child has what the list asks for, made from the input as it is.
THEOREM ListAlwaysSigned == Spec => []ListSigned
<1>1. ListInv => ListSigned
  BY DEF ListInv, ListSigned, ListDone, Succeeded, KeyOf
<1> QED
  BY SigningInvariant, <1>1, PTL

\* do_file(): the encrypted file is the input with the range encrypted, and
\* the MAC is over what was written.
THEOREM FileAlwaysSigned == Spec => []FileSigned
<1>1. FileInv => FileSigned
  BY DEF FileInv, FileSigned, Succeeded
<1> QED
  BY SigningInvariant, <1>1, PTL

\* do_kdf_oem(), do_kdf_oem_hsm(): a derivation that succeeds has encrypted the
\* range with the key that the table gives the image, natively and by an HSM.
THEOREM KdfAlwaysFollowsTable == Spec => []KdfFollowsTable
<1>1. Init => KdfInv
  BY DEF Init, KdfInv
<1>2. Inputs /\ StageInv /\ KdfInv /\ [Next]_vars => KdfInv'
  BY KdfStep
<1>3. KdfInv => KdfFollowsTable
  BY DEF KdfInv, KdfDone, KdfFollowsTable, Succeeded
<1> QED
  BY SigningInvariant, <1>1, <1>2, <1>3, PTL DEF Spec

=============================================================================
