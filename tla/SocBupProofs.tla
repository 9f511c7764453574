---------------------------- MODULE SocBupProofs ----------------------------
(***************************************************************************)
(* Theorems about the bootloader update package: what is packed can be     *)
(* taken out again, and the package of a session is whole.                 *)
(***************************************************************************)
EXTENDS SocBup, RecursionLemmas

-----------------------------------------------------------------------------
(* The format.  Lists of entries with images made of X and words of W.     *)

Entries(X, W) ==
    [arity : {1, 5}, file : Seq(X), part : [word : W, len : Nat], version : Nat, mode : 0..2,
     spec : [word : W, len : Nat]]
Infos(X, W) == [file : Seq(X), part : W, version : Nat, mode : 0..2, spec : W \cup {""}]
Files(infos) == [i \in DOMAIN infos |-> infos[i].file]

LEMMA ParsedList ==
  ASSUME NEW X, NEW W, NEW list \in Seq(Entries(X, W))
  PROVE  /\ ParseEntryList(list) \in Seq(Infos(X, W))
         /\ Len(ParseEntryList(list)) = Len(list)
         /\ \A i \in 1..Len(list) : ParseEntryList(list)[i] = ParseEntry(list[i])
<1> DEFINE n == Len(list)
<1>1. DOMAIN list = 1..n /\ n \in Nat
  OBVIOUS
<1>2. ASSUME NEW i \in 1..n PROVE ParseEntry(list[i]) \in Infos(X, W)
  <2>1. list[i] \in Entries(X, W)
    OBVIOUS
  <2> DEFINE mode == IF list[i].mode \in Nat THEN list[i].mode ELSE 0
             spec == IF list[i].spec.word = "common" THEN "" ELSE list[i].spec.word
  <2>2. mode \in 0..2 /\ spec \in W \cup {""}
    <3>1. list[i].mode \in 0..2 /\ list[i].spec.word \in W
      BY <2>1 DEF Entries
    <3>2. mode = list[i].mode
      BY <3>1
    <3> QED
      BY <3>1, <3>2
  <2>3. list[i].file \in Seq(X) /\ list[i].part.word \in W /\ list[i].version \in Nat
    BY <2>1 DEF Entries
  <2>4. ParseEntry(list[i]) = [file |-> list[i].file, part |-> list[i].part.word, version |-> list[i].version,
                               mode |-> mode, spec |-> spec]
    BY DEF ParseEntry
  <2> HIDE DEF mode, spec
  <2> DEFINE info == ParseEntry(list[i])
             file == list[i].file
             part == list[i].part.word
             version == list[i].version
  <2>5. [file |-> file, part |-> part, version |-> version, mode |-> mode, spec |-> spec] \in Infos(X, W)
    BY <2>2, <2>3 DEF Infos
  <2> QED
    BY <2>4, <2>5
<1>3. ParseEntryList(list) = [i \in 1..n |-> ParseEntry(list[i])]
  BY <1>1 DEF ParseEntryList
<1> HIDE DEF n
<1>4. ParseEntryList(list) \in [1..n -> Infos(X, W)]
  BY <1>2, <1>3
<1>5. ParseEntryList(list) \in Seq(Infos(X, W)) /\ Len(ParseEntryList(list)) = n
  BY <1>1, <1>4
<1> QED
  BY <1>3, <1>5 DEF n

\* The images of the first entries are the first images.
LEMMA FilesOf ==
  ASSUME NEW X, NEW W, NEW infos \in Seq(Infos(X, W))
  PROVE  /\ Files(infos) \in Seq(Seq(X)) /\ Len(Files(infos)) = Len(infos)
         /\ \A i \in 1..Len(infos) : Files(infos)[i] = infos[i].file /\ infos[i].file \in Seq(X)
         /\ \A m \in 0..Len(infos) : Files(SubSeq(infos, 1, m)) = SubSeq(Files(infos), 1, m)
<1> DEFINE n == Len(infos)
<1>1. DOMAIN infos = 1..n /\ n \in Nat
  OBVIOUS
<1>2. ASSUME NEW i \in 1..n PROVE infos[i].file \in Seq(X)
  <2>1. infos[i] \in Infos(X, W)
    OBVIOUS
  <2> QED
    BY <2>1 DEF Infos
<1>3. Files(infos) = [i \in 1..n |-> infos[i].file]
  BY <1>1 DEF Files
<1>4. Files(infos) \in [1..n -> Seq(X)]
  BY <1>2, <1>3
<1>5. Files(infos) \in Seq(Seq(X)) /\ Len(Files(infos)) = n
  BY <1>1, <1>4
<1>6. ASSUME NEW m \in 0..n PROVE Files(SubSeq(infos, 1, m)) = SubSeq(Files(infos), 1, m)
  <2>1. SubSeq(infos, 1, m) = [i \in 1..m |-> infos[i]]
    BY <1>1
  <2>2. SubSeq(Files(infos), 1, m) = [i \in 1..m |-> Files(infos)[i]]
    BY <1>1, <1>5
  <2>3. \A i \in 1..m : Files(infos)[i] = infos[i].file
    BY <1>1, <1>3
  <2>4. Files(SubSeq(infos, 1, m)) = [i \in 1..m |-> infos[i].file]
    BY <2>1 DEF Files
  <2> QED
    BY <2>2, <2>3, <2>4
<1> QED
  BY <1>2, <1>3, <1>5, <1>6

\* Cell k of image i stands k places after the images before it.
LEMMA CellOfImage ==
  ASSUME NEW X, NEW W, NEW infos \in Seq(Infos(X, W)), NEW i \in 1..Len(infos), NEW k \in 1..Len(infos[i].file)
  PROVE  /\ Len(Cells(SubSeq(infos, 1, i - 1))) \in Nat
         /\ Cells(infos) \in Seq(X)
         /\ Len(Cells(SubSeq(infos, 1, i - 1))) + k \in 1..Len(Cells(infos))
         /\ Cells(infos)[Len(Cells(SubSeq(infos, 1, i - 1))) + k] = infos[i].file[k]
<1> DEFINE s == Files(infos)
<1>1. s \in Seq(Seq(X)) /\ Len(s) = Len(infos) /\ s[i] = infos[i].file /\ i \in 1..Len(s) /\ k \in 1..Len(s[i])
  BY SMTT(30), FilesOf
<1>2. Cells(infos) = FlattenSeq(s)
  BY DEF Cells, Files
<1>3. Cells(SubSeq(infos, 1, i - 1)) = FlattenSeq(SubSeq(s, 1, i - 1))
  <2>1. i - 1 \in 0..Len(infos)
    OBVIOUS
  <2>2. Files(SubSeq(infos, 1, i - 1)) = SubSeq(s, 1, i - 1)
    <3>1. \A m \in 0..Len(infos) : Files(SubSeq(infos, 1, m)) = SubSeq(Files(infos), 1, m)
      BY FilesOf
    <3> QED
      BY <2>1, <3>1
  <2> QED
    BY <2>2 DEF Cells, Files
<1> HIDE DEF s
<1>4. FlattenSeq(SubSeq(s, 1, i - 1)) \in Seq(X)
  BY <1>1, FlattenPrefix, i - 1 \in 0..Len(s)
<1>5. FlattenSeq(s) \in Seq(X)
  BY <1>1, FlattenType
<1>6. Len(FlattenSeq(SubSeq(s, 1, i - 1))) + k \in 1..Len(FlattenSeq(s)) /\ FlattenSeq(s)[Len(FlattenSeq(SubSeq(s, 1, i - 1))) + k] = s[i][k]
  BY <1>1, FlattenAt
<1> QED
  BY <1>1, <1>2, <1>3, <1>4, <1>5, <1>6

\* The name under which an entry is extracted, and how many are looked at.
EntryName(e) == <<e.part.word, OpStr(e.mode), IF e.spec.word = "common" THEN "" ELSE e.spec.word>>
LookedAt(list) == IF Len(list) > MaxEntries THEN MaxEntries ELSE Len(list)

LEMMA BlobOf ==
  ASSUME NEW list, NEW accessory, NEW blob, blob = GenerateBup(list, accessory)
  PROVE  /\ blob.accessory = accessory /\ blob.images = Cells(ParseEntryList(list))
         /\ blob.header = FillHeader(ParseEntryList(list), accessory)
         /\ blob.table = UpdateEntry(ParseEntryList(list), FillImage(ParseEntryList(list), accessory))
BY DEF GenerateBup

LEMMA PlaceOf ==
  ASSUME NEW infos, NEW accessory, NEW i \in DOMAIN infos
  PROVE  /\ FillImage(infos, accessory)[i].offset = Offset(infos, accessory, i)
         /\ FillImage(infos, accessory)[i].length = Len(infos[i].file)
BY DEF FillImage

LEMMA RowOf ==
  ASSUME NEW infos, NEW accessory, NEW i \in DOMAIN infos,
         NEW row, row = UpdateEntry(infos, FillImage(infos, accessory))[i]
  PROVE  /\ row.part = infos[i].part /\ row.mode = infos[i].mode /\ row.spec = infos[i].spec
         /\ row.offset = Offset(infos, accessory, i) /\ row.size = Len(infos[i].file)
<1> DEFINE places == FillImage(infos, accessory)
<1>1. places[i].offset = Offset(infos, accessory, i) /\ places[i].length = Len(infos[i].file)
  BY PlaceOf
<1> HIDE DEF places
<1>2. row = [part |-> infos[i].part, offset |-> places[i].offset, size |-> places[i].length,
             version |-> infos[i].version, mode |-> infos[i].mode, spec |-> infos[i].spec]
  BY DEF UpdateEntry, places
<1> QED
  BY <1>1, <1>2

LEMMA ParsedEntry ==
  ASSUME NEW e, e.mode \in Nat, NEW info, info = ParseEntry(e)
  PROVE  info.file = e.file /\ info.part = e.part.word /\ info.mode = e.mode
         /\ info.spec = IF e.spec.word = "common" THEN "" ELSE e.spec.word
BY DEF ParseEntry

\* The table of a payload.
TableIs(blob, list, accessory) ==
    /\ blob.header.count = Len(list) /\ Len(blob.table) = Len(list) /\ DOMAIN blob.table = 1..Len(list)
    /\ \A i \in 1..Len(list) :
         /\ blob.table[i].part = list[i].part.word /\ blob.table[i].mode = list[i].mode
         /\ blob.table[i].spec = IF list[i].spec.word = "common" THEN "" ELSE list[i].spec.word
         /\ blob.table[i].offset = Offset(ParseEntryList(list), accessory, i)
         /\ blob.table[i].size = Len(list[i].file)

LEMMA TableOf ==
  ASSUME NEW X, NEW W, NEW list \in Seq(Entries(X, W)), NEW accessory, NEW blob, blob = GenerateBup(list, accessory)
  PROVE  TableIs(blob, list, accessory)
<1> DEFINE infos == ParseEntryList(list)
<1>1. infos \in Seq(Infos(X, W)) /\ Len(infos) = Len(list) /\ Len(list) \in Nat /\ DOMAIN infos = 1..Len(list)
  BY ParsedList
<1>2. \A i \in 1..Len(list) : infos[i] = ParseEntry(list[i]) /\ list[i].mode \in Nat
  <2>1. ASSUME NEW i \in 1..Len(list) PROVE list[i].mode \in Nat
    <3>1. list[i] \in Entries(X, W)
      OBVIOUS
    <3> QED
      BY SMTT(30), <3>1 DEF Entries
  <2>2. \A i \in 1..Len(list) : infos[i] = ParseEntry(list[i])
    BY ParsedList
  <2> QED
    BY <2>1, <2>2
<1>3. blob.table = UpdateEntry(infos, FillImage(infos, accessory)) /\ blob.header = FillHeader(infos, accessory)
  BY BlobOf
<1> HIDE DEF infos
<1>4. blob.header.count = Len(list)
  BY <1>1, <1>3 DEF FillHeader
<1>5. DOMAIN blob.table = 1..Len(list) /\ Len(blob.table) = Len(list)
  <2> DEFINE n == Len(list)
             t(i) == [part |-> infos[i].part, offset |-> FillImage(infos, accessory)[i].offset,
                      size |-> FillImage(infos, accessory)[i].length, version |-> infos[i].version,
                      mode |-> infos[i].mode, spec |-> infos[i].spec]
  <2>1. blob.table = [i \in 1..n |-> t(i)] /\ n \in Nat
    BY <1>1, <1>3 DEF UpdateEntry
  <2> HIDE DEF n, t
  <2>2. DOMAIN blob.table = 1..n /\ Len(blob.table) = n
    BY <2>1
  <2> QED
    BY <2>2 DEF n
<1>6. ASSUME NEW i \in 1..Len(list)
      PROVE  /\ blob.table[i].part = list[i].part.word /\ blob.table[i].mode = list[i].mode
             /\ blob.table[i].spec = IF list[i].spec.word = "common" THEN "" ELSE list[i].spec.word
             /\ blob.table[i].offset = Offset(infos, accessory, i)
             /\ blob.table[i].size = Len(list[i].file)
  <2>1. /\ blob.table[i].part = infos[i].part /\ blob.table[i].mode = infos[i].mode /\ blob.table[i].spec = infos[i].spec
        /\ blob.table[i].offset = Offset(infos, accessory, i) /\ blob.table[i].size = Len(infos[i].file)
    BY <1>1, <1>3, RowOf
  <2>2. /\ infos[i].file = list[i].file /\ infos[i].part = list[i].part.word /\ infos[i].mode = list[i].mode
        /\ infos[i].spec = IF list[i].spec.word = "common" THEN "" ELSE list[i].spec.word
    BY <1>2, ParsedEntry
  <2> QED
    BY <2>1, <2>2
<1> QED
  BY <1>4, <1>5, <1>6 DEF infos, TableIs

\* Whatever is packed and whatever the accessory: reading at the place of an
\* entry gives its image.
THEOREM EntriesReadBack ==
  ASSUME NEW X, NEW W, NEW list \in Seq(Entries(X, W)), NEW accessory, Len(accessory) \in Nat,
         NEW blob, blob = GenerateBup(list, accessory), NEW i \in 1..Len(list)
  PROVE  ReadAt(blob, blob.table[i].offset, blob.table[i].size) = list[i].file
<1> DEFINE infos == ParseEntryList(list)
           before == Len(Cells(SubSeq(infos, 1, i - 1)))
           size == Len(list[i].file)
<1>1. infos \in Seq(Infos(X, W)) /\ Len(infos) = Len(list) /\ i \in 1..Len(infos)
  BY ParsedList
<1>2. infos[i] = ParseEntry(list[i])
  BY ParsedList
<1>3. infos[i].file = list[i].file
  <2> HIDE DEF infos
  <2>1. ParseEntry(list[i]).file = list[i].file
    BY DEF ParseEntry
  <2> QED
    BY <1>2, <2>1
<1>4. list[i].file \in Seq(X)
  <2>1. list[i] \in Entries(X, W)
    OBVIOUS
  <2> QED
    BY <2>1 DEF Entries
<1>5. blob.accessory = accessory /\ blob.images = Cells(infos) /\ Len(blob.table) = Len(list) /\ Len(list) \in Nat
      /\ blob.table[i].size = size /\ blob.table[i].offset = Offset(infos, accessory, i)
  <2>1. blob.accessory = accessory /\ blob.images = Cells(infos)
    BY BlobOf
  <2>2. /\ Len(blob.table) = Len(list)
        /\ \A j \in 1..Len(list) : /\ blob.table[j].size = Len(list[j].file)
                                   /\ blob.table[j].offset = Offset(ParseEntryList(list), accessory, j)
    <3>1. TableIs(blob, list, accessory)
      BY TableOf
    <3> QED
      BY <3>1 DEF TableIs
  <2> QED
    BY <2>1, <2>2
<1> HIDE DEF infos
<1>6. ASSUME NEW k \in 1..size
      PROVE  CellAt(blob, Offset(infos, accessory, i) + k) = list[i].file[k]
  <2>1. k \in 1..Len(infos[i].file)
    BY <1>3
  <2>2. /\ before \in Nat /\ Cells(infos) \in Seq(X) /\ before + k \in 1..Len(Cells(infos))
        /\ Cells(infos)[before + k] = infos[i].file[k]
    BY <1>1, <2>1, CellOfImage
  <2> HIDE DEF before
  <2>3. Offset(infos, accessory, i) = Before(blob) + before /\ Before(blob) \in Nat
    BY <1>1, <1>5 DEF Offset, Before, HeaderSize, HeaderLen, EntryLen, before
  <2>4. (Offset(infos, accessory, i) + k) - Before(blob) = before + k
    BY <2>2, <2>3
  <2>5. DOMAIN blob.images = 1..Len(Cells(infos))
    BY <1>5, <2>2
  <2> QED
    BY <1>3, <1>5, <2>2, <2>4, <2>5 DEF CellAt
<1>7. ReadAt(blob, blob.table[i].offset, blob.table[i].size) = [k \in 1..size |-> list[i].file[k]]
  BY <1>5, <1>6 DEF ReadAt
<1>8. list[i].file = [k \in 1..size |-> list[i].file[k]]
  BY <1>4
<1> QED
  BY <1>7, <1>8

\* What extracting everything from a payload of a list gives: for each name
\* among the entries looked at, the image of the last of them.
Extracts(got, list) ==
    /\ DOMAIN got = {EntryName(list[i]) : i \in 1..LookedAt(list)}
    /\ \A name \in DOMAIN got : \E i \in 1..LookedAt(list) :
         /\ EntryName(list[i]) = name /\ got[name] = list[i].file
         /\ \A j \in 1..LookedAt(list) : EntryName(list[j]) = name => j <= i

\* The entries looked at are the first of the table, with the names and places
\* of the list.
LEMMA LookedAtOf ==
  ASSUME NEW X, NEW W, NEW list \in Seq(Entries(X, W)), NEW accessory, NEW blob, blob = GenerateBup(list, accessory)
  PROVE  /\ LookedAt(list) \in Nat /\ LookedAt(list) <= Len(list)
         /\ Limited(blob) <=> Len(list) > MaxEntries
         /\ Len(EntryList(blob)) = LookedAt(list) /\ DOMAIN EntryList(blob) = 1..LookedAt(list)
         /\ \A i \in 1..LookedAt(list) : /\ i \in 1..Len(list) /\ EntryList(blob)[i] = blob.table[i]
                                         /\ BinaryName(EntryList(blob)[i]) = EntryName(list[i])
<1>1. TableIs(blob, list, accessory) /\ Len(list) \in Nat
  BY TableOf
<1>2. LookedAt(list) \in Nat /\ LookedAt(list) <= Len(list)
  BY <1>1, BupLimits DEF LookedAt
<1>3. Limited(blob) <=> Len(list) > MaxEntries
  BY <1>1 DEF Limited, TableIs
<1>4. Listed(blob) = LookedAt(list)
  BY <1>1, <1>3 DEF Listed, LookedAt, TableIs
<1>5. EntryList(blob) = [i \in 1..LookedAt(list) |-> blob.table[i]]
  <2> DEFINE n == LookedAt(list)
  <2>1. DOMAIN blob.table = 1..Len(list)
    BY <1>1 DEF TableIs
  <2>2. EntryList(blob) = SubSeq(blob.table, 1, n)
    BY <1>4 DEF EntryList
  <2> HIDE DEF n
  <2>3. SubSeq(blob.table, 1, n) = [i \in 1..n |-> blob.table[i]]
    BY <1>2 DEF n
  <2> QED
    BY <2>2, <2>3 DEF n
<1>6. Len(EntryList(blob)) = LookedAt(list) /\ DOMAIN EntryList(blob) = 1..LookedAt(list)
  BY <1>2, <1>5
<1>7. ASSUME NEW i \in 1..LookedAt(list)
      PROVE  i \in 1..Len(list) /\ EntryList(blob)[i] = blob.table[i] /\ BinaryName(EntryList(blob)[i]) = EntryName(list[i])
  <2>1. i \in 1..Len(list) /\ EntryList(blob)[i] = blob.table[i]
    BY <1>1, <1>2, <1>5
  <2>2. /\ blob.table[i].part = list[i].part.word /\ blob.table[i].mode = list[i].mode
        /\ blob.table[i].spec = IF list[i].spec.word = "common" THEN "" ELSE list[i].spec.word
    BY <1>1, <2>1 DEF TableIs
  <2> QED
    BY <2>1, <2>2 DEF BinaryName, EntryName
<1> QED
  BY <1>2, <1>3, <1>6, <1>7

\* Taking a payload apart gives the images that were packed.
THEOREM UnpackGivesPacked ==
  ASSUME NEW X, NEW W, NEW list \in Seq(Entries(X, W)), NEW accessory, Len(accessory) \in Nat,
         NEW blob, blob = GenerateBup(list, accessory)
  PROVE  Extracts(ExtractBinaries(blob, {"all"}), list)
<1> DEFINE n == LookedAt(list)
           nameOf(i) == BinaryName(EntryList(blob)[i])
           got == ExtractBinaries(blob, {"all"})
           last(name) == LastOf(blob, {"all"}, name)
<1>1. /\ n \in Nat /\ n <= Len(list) /\ Len(EntryList(blob)) = n
      /\ \A i \in 1..n : i \in 1..Len(list) /\ EntryList(blob)[i] = blob.table[i] /\ nameOf(i) = EntryName(list[i])
  BY LookedAtOf
<1>2. Wanted(blob, {"all"}) = 1..n
  BY <1>1 DEF Wanted
<1>3. DOMAIN got = {nameOf(i) : i \in 1..n}
  BY <1>2 DEF ExtractBinaries
<1>4. \A name \in DOMAIN got : got[name] = ReadAt(blob, EntryList(blob)[last(name)].offset, EntryList(blob)[last(name)].size)
  BY DEF ExtractBinaries
<1>5. ASSUME NEW name \in DOMAIN got
      PROVE  last(name) \in 1..n /\ nameOf(last(name)) = name /\ \A j \in 1..n : nameOf(j) = name => j <= last(name)
  <2> DEFINE S == {i \in 1..n : nameOf(i) = name}
  <2>1. S # {} /\ S \subseteq 0..n
    BY <1>1, <1>3
  <2> HIDE DEF S
  <2>2. PICK x \in S : \A y \in S : y <= x
    BY <1>1, <2>1, GreatestNat
  <2>3. x \in 1..n /\ nameOf(x) = name /\ \A j \in 1..n : nameOf(j) = name => j <= x
    BY <2>2 DEF S
  <2>4. last(name) = CHOOSE i \in 1..n : nameOf(i) = name /\ \A j \in 1..n : nameOf(j) = name => j <= i
    BY <1>2 DEF LastOf
  <2> HIDE DEF nameOf, n, last
  <2> QED
    BY <2>3, <2>4
<1> HIDE DEF got
<1>6. ASSUME NEW name \in DOMAIN got
      PROVE  \E i \in 1..n : /\ EntryName(list[i]) = name /\ got[name] = list[i].file
                             /\ \A j \in 1..n : EntryName(list[j]) = name => j <= i
  <2> DEFINE i == last(name)
  <2>1. i \in 1..n /\ nameOf(i) = name /\ \A j \in 1..n : nameOf(j) = name => j <= i
    BY <1>5
  <2>2. got[name] = ReadAt(blob, EntryList(blob)[i].offset, EntryList(blob)[i].size)
    BY <1>4
  <2> HIDE DEF i, nameOf, n
  <2>3. i \in 1..Len(list) /\ EntryList(blob)[i] = blob.table[i]
    BY <1>1, <2>1
  <2>4. got[name] = list[i].file
    BY <2>2, <2>3, EntriesReadBack
  <2> QED
    BY <1>1, <2>1, <2>4
<1>7. DOMAIN got = {EntryName(list[i]) : i \in 1..n}
  <2> HIDE DEF nameOf, n
  <2> QED
    BY <1>1, <1>3
<1> QED
  BY <1>6, <1>7 DEF Extracts, got

-----------------------------------------------------------------------------
(* The inductive invariant.                                                *)

Images == [part : Parts, spec : Specs, build : Nat] \cup {Nothing}

TypeInv ==
    /\ session \in Sessions /\ at \in 1..Len(session.specs)
    /\ pc \in {"idle", "clean", "sign", "copy", "generate", "tidy", "report"} /\ failed \in BOOLEAN
    /\ signed \in [Parts -> Images] /\ out \in [Parts -> Images] /\ multi \in [Keys -> Images]
    /\ builds \in Nat /\ made \in [Specs -> 0..builds]

\* The session whose package counts: neither a failure so far nor --multi-spec
\* of build_l4t_bup.sh, which packs what is there.
Counts == ~failed /\ session.kind # "add"
\* The configurations that are built, and which of them have an image in a
\* directory of multi_signed/.
Done == {session.specs[i] : i \in {j \in 1..at : j < at \/ pc \notin {"clean", "sign"}}}
CopiedOf(s) == {<<TargetDir(row, s), row.part>> : row \in {Table[i] : i \in {j \in DOMAIN Table :
                    /\ ~Table[j].skip /\ (Table[j].board \/ Table[j].mode)
                    /\ Table[j].part \in Layout[s]}}}
Having(k) == {s \in Done : k \in CopiedOf(s)}
\* What is expected there: the image of the one that was built last.
Right(k) == \/ Having(k) = {} /\ multi[k] = Nothing
            \/ \E x \in Having(k) : /\ \A y \in Having(k) : made[y] <= made[x]
                                    /\ multi[k] = Image(k[2], x, made[x])

StageInv ==
    /\ pc \in {"clean", "tidy"} => session.kind = "soc"
    /\ pc = "clean" => at = 1
    /\ pc \in {"tidy", "report"} => session.kind # "soc" \/ at = Len(session.specs)

\* What is built is of this session, the present configuration last.
MadeInv == pc # "idle" /\ Counts =>
    /\ \A s \in Done : made[s] > 0
    /\ \A s, t \in Done : made[s] = made[t] => s = t
    /\ pc \in {"copy", "generate"} => \A s \in Specs \ {Config} : made[s] < made[Config]

\* Its images are in the directories of the build.
FreshInv == pc \in {"copy", "generate"} /\ Counts =>
    /\ idx = Config /\ rollback = RollbackBin(Levels)
    /\ \A p \in Parts : p \in Layout[Config] =>
            signed[p] = Image(p, Config, made[Config]) /\ out[p] = Image(p, Config, made[Config])

\* multi_signed/ has the images that this session has put there and no others;
\* those of the present configuration replace what is under their names.
MultiInv == pc \in {"sign", "copy", "generate"} /\ Counts =>
    \A k \in Keys : \/ pc = "sign" /\ session.kind = "one"
                    \/ pc = "copy" /\ k \in CopiedOf(Config)
                    \/ Right(k)

\* From the last payload on, the package is whole.
PackageInv == (pc \in {"tidy", "report"} /\ Counts) \/ (pc = "idle" /\ status = "ok" /\ session.kind # "add") => IsWhole(payload["bl_and_kernel"])

-----------------------------------------------------------------------------
(* Copying to multi_signed/.                                               *)

LEMMA RowType ==
  ASSUME NEW i \in DOMAIN Table
  PROVE  /\ Table[i] \in Rows /\ Table[i].part \in Parts /\ i \in 1..Len(Table)
         /\ Table[i].signed \in BOOLEAN /\ Table[i].board \in BOOLEAN /\ Table[i].mode \in BOOLEAN /\ Table[i].skip \in BOOLEAN
<1>1. Table[i] \in Rows /\ i \in 1..Len(Table)
  BY TableAssumption
<1> QED
  BY <1>1 DEF Rows

LEMMA ConfigType == ASSUME TypeInv PROVE Config \in Specs /\ session.specs \in Seq(Specs) /\ Len(session.specs) \in Nat /\ at \in Nat
<1>1. session.specs \in Seq(Specs) /\ at \in 1..Len(session.specs)
  BY SessionsAssumption DEF TypeInv
<1> QED
  BY <1>1 DEF Config

LEMMA TargetType ==
  ASSUME NEW i \in DOMAIN Table, NEW s \in Specs
  PROVE  /\ TargetDir(Table[i], s) \in Specs \cup Fuses
         /\ <<TargetDir(Table[i], s), Table[i].part>> \in Keys
<1>1. Table[i].part \in Parts /\ Fuse[s] \in Fuses
  BY RowType DEF Fuses
<1> QED
  BY <1>1 DEF TargetDir, Keys

LEMMA SourceType ==
  ASSUME TypeInv, NEW i \in DOMAIN Table
  PROVE  Source(Table[i]) \in Images
<1>1. Table[i].part \in Parts
  BY RowType
<1>2. signed[Table[i].part] \in Images /\ out[Table[i].part] \in Images
  BY <1>1 DEF TypeInv
<1> QED
  BY <1>2 DEF Source

LEMMA RowCopied ==
  ASSUME TypeInv, NEW i \in DOMAIN Table, NEW dirs \in [Keys -> Images], NEW result, result = CopyRow(dirs, Table[i], Config)
  PROVE  /\ result \in [Keys -> Images]
         /\ \A k \in Keys : result[k] = IF Copied(Table[i]) /\ k = <<TargetDir(Table[i], Config), Table[i].part>>
                                        THEN Source(Table[i]) ELSE dirs[k]
<1> DEFINE key == <<TargetDir(Table[i], Config), Table[i].part>>
<1>1. key \in Keys /\ Source(Table[i]) \in Images
  BY ConfigType, TargetType, SourceType
<1>2. result = IF Copied(Table[i]) THEN [dirs EXCEPT ![key] = Source(Table[i])] ELSE dirs
  BY DEF CopyRow
<1> HIDE DEF key
<1>3. CASE Copied(Table[i])
  <2>1. result = [dirs EXCEPT ![key] = Source(Table[i])]
    BY <1>2, <1>3
  <2> QED
    BY <1>1, <1>3, <2>1 DEF key
<1>4. CASE ~Copied(Table[i])
  BY <1>2, <1>4
<1> QED
  BY <1>3, <1>4

\* Row i puts an image at k; after n rows, k has what one of them has put there.
Puts(i, k) == Copied(Table[i]) /\ k = <<TargetDir(Table[i], Config), Table[i].part>>
AfterRows(n, dirs) ==
    /\ dirs \in [Keys -> Images]
    /\ \A k \in Keys : \/ \E i \in 1..n : Puts(i, k) /\ dirs[k] = Source(Table[i])
                       \/ (\A i \in 1..n : ~Puts(i, k)) /\ dirs[k] = multi[k]

LEMMA AfterNextRow ==
  ASSUME TypeInv, NEW m \in Nat, m + 1 \in DOMAIN Table, NEW dirs, AfterRows(m, dirs),
         NEW result, result = CopyRow(dirs, Table[m + 1], Config)
  PROVE  AfterRows(m + 1, result)
<1>1. dirs \in [Keys -> Images]
  BY DEF AfterRows
<1>2. /\ result \in [Keys -> Images]
      /\ \A k \in Keys : result[k] = IF Puts(m + 1, k) THEN Source(Table[m + 1]) ELSE dirs[k]
  BY <1>1, RowCopied DEF Puts
<1>3. ASSUME NEW k \in Keys
      PROVE  \/ \E i \in 1 .. m + 1 : Puts(i, k) /\ result[k] = Source(Table[i])
             \/ (\A i \in 1 .. m + 1 : ~Puts(i, k)) /\ result[k] = multi[k]
  <2>1. CASE Puts(m + 1, k)
    BY <1>2, <2>1, m + 1 \in 1 .. m + 1
  <2>2. CASE ~Puts(m + 1, k)
    <3>1. result[k] = dirs[k]
      BY <1>2, <2>2
    <3>2. CASE \E i \in 1..m : Puts(i, k) /\ dirs[k] = Source(Table[i])
      <4>1. PICK i \in 1..m : Puts(i, k) /\ dirs[k] = Source(Table[i])
        BY <3>2
      <4>2. i \in 1 .. m + 1
        OBVIOUS
      <4> QED
        BY <3>1, <4>1, <4>2
    <3>3. CASE (\A i \in 1..m : ~Puts(i, k)) /\ dirs[k] = multi[k]
      <4>1. \A i \in 1 .. m + 1 : i \in 1..m \/ i = m + 1
        OBVIOUS
      <4> QED
        BY <2>2, <3>1, <3>3, <4>1
    <3> QED
      BY <3>2, <3>3 DEF AfterRows
  <2> QED
    BY <2>1, <2>2
<1> QED
  BY <1>2, <1>3 DEF AfterRows

LEMMA RowsCopied ==
  ASSUME TypeInv, NEW n \in 0..Len(Table)
  PROVE  AfterRows(n, CopyMultiImages(n))
<1> DEFINE T == [Keys -> Images]
           step == [i \in 1..n |-> [dirs \in T |-> CopyRow(dirs, Table[i], Config)]]
           Rounds(g) == [i \in 0..n |-> IF i = 0 THEN multi ELSE CopyRow(g[i-1], Table[i], Config)]
           h == CHOOSE g : g = Rounds(g)
<1>1. n \in Nat /\ multi \in T /\ DOMAIN Table = 1..Len(Table) /\ Len(Table) \in Nat
  BY TableAssumption DEF TypeInv
<1>2. \A i \in 1..n : i \in DOMAIN Table
  BY <1>1
<1>3. step \in [1..n -> [T -> T]]
  <2>1. ASSUME NEW i \in 1..n, NEW dirs \in T PROVE CopyRow(dirs, Table[i], Config) \in T
    BY <1>2, RowCopied
  <2> HIDE DEF T
  <2> QED
    BY <2>1
<1>4. Loops(n, T, multi, step) # {}
  <2> HIDE DEF T, step
  <2> QED
    BY <1>1, <1>3, LoopDefined
<1>5. PICK f \in [0..n -> T] : f[0] = multi /\ \A i \in 1..n : f[i] = step[i][f[i-1]]
  <2> HIDE DEF T, step
  <2> QED
    BY <1>4 DEF Loops
<1>6. f = Rounds(f)
  <2>1. ASSUME NEW i \in 0..n PROVE f[i] = IF i = 0 THEN multi ELSE CopyRow(f[i-1], Table[i], Config)
    <3>1. CASE i = 0
      BY <1>5, <3>1
    <3>2. CASE i # 0
      <4>1. i \in 1..n /\ i - 1 \in 0..n
        BY <1>1, <3>2
      <4>2. f[i-1] \in T
        BY <4>1
      <4>3. f[i] = step[i][f[i-1]]
        BY <1>5, <4>1
      <4> HIDE DEF T
      <4> QED
        BY <3>2, <4>1, <4>2, <4>3
    <3> QED
      BY <3>1, <3>2
  <2> HIDE DEF T
  <2> QED
    BY <2>1
<1> HIDE DEF step
<1>7. h = Rounds(h)
  <2> HIDE DEF Rounds
  <2> QED
    BY <1>6
<1>8. CopyMultiImages(n) = h[n]
  BY DEF CopyMultiImages
<1> HIDE DEF h
<1> DEFINE S == {m \in 0..n : AfterRows(m, h[m])}
<1>9. 0 \in S
  <2>1. h[0] = multi
    BY <1>1, <1>7
  <2> QED
    BY <1>1, <2>1 DEF AfterRows
<1>10. ASSUME NEW m \in 0 .. n - 1, m \in S PROVE m + 1 \in S
  <2>1. m \in Nat /\ m + 1 \in 0..n /\ m + 1 \in DOMAIN Table /\ (m + 1) - 1 = m /\ m + 1 # 0
    BY <1>1
  <2>2. h[m + 1] = CopyRow(h[(m + 1) - 1], Table[m + 1], Config)
    <3>1. \A i \in 0..n : h[i] = IF i = 0 THEN multi ELSE CopyRow(h[i-1], Table[i], Config)
      BY <1>7
    <3> HIDE DEF Rounds
    <3> QED
      BY <2>1, <3>1
  <2>3. h[m + 1] = CopyRow(h[m], Table[m + 1], Config)
    BY <2>1, <2>2
  <2>4. AfterRows(m, h[m])
    BY <1>10
  <2>5. AfterRows(m + 1, h[m + 1])
    BY <2>1, <2>3, <2>4, AfterNextRow
  <2> QED
    BY <2>1, <2>5
<1> HIDE DEF S
<1>11. \A m \in 0..n : m \in S
  BY <1>1, <1>9, <1>10, UpToInduction
<1> QED
  BY <1>1, <1>8, <1>11, n \in 0..n DEF S

-----------------------------------------------------------------------------
(* What the lists of entries have.                                         *)

CellsOf == [of : Images, at : Nat]
WordsOf == {Table[i].name.word : i \in DOMAIN Table} \cup Specs \cup {"common", ""}
Packed == Entries(CellsOf, WordsOf)

LEMMA FileType == ASSUME NEW img \in Images PROVE FileOf(img) \in Seq(CellsOf)
<1>1. CASE img = Nothing
  BY <1>1 DEF FileOf, NoFile
<1>2. CASE img # Nothing
  <2> DEFINE n == PartSize[img.part]
             cell(i) == [of |-> img, at |-> i]
  <2>1. img.part \in Parts
    BY <1>2 DEF Images
  <2>2. n \in Nat
    BY <2>1, TableAssumption
  <2>3. FileOf(img) = [i \in 1..n |-> cell(i)]
    BY <1>2 DEF FileOf
  <2>4. \A i \in 1..n : cell(i) \in CellsOf
    BY <2>2 DEF CellsOf
  <2> HIDE DEF n, cell
  <2> QED
    BY <2>2, <2>3, <2>4
<1> QED
  BY <1>1, <1>2

LEMMA OpModeType == ASSUME NEW row, NEW dir PROVE OpMode(row, dir) \in 0..2
BY DEF OpMode

LEMMA TupleType ==
  ASSUME NEW i \in DOMAIN Table, NEW img \in Images, NEW mode \in 0..2, NEW spec \in [word : WordsOf, len : Nat]
  PROVE  Tuple(Table[i], img, mode, spec) \in Packed
<1>1. Table[i].name \in [word : WordsOf, len : Nat]
  <2>1. Table[i].name \in [word : {Table[j].name.word : j \in DOMAIN Table}, len : Nat]
    BY RowType DEF Rows
  <2> QED
    BY <2>1 DEF WordsOf
<1>2. FileOf(img) \in Seq(CellsOf)
  BY FileType
<1> DEFINE file == FileOf(img)
           part == Table[i].name
<1>3. Tuple(Table[i], img, mode, spec) = [arity |-> 5, file |-> file, part |-> part, version |-> 1, mode |-> mode, spec |-> spec]
  BY DEF Tuple
<1> HIDE DEF file, part
<1>4. file \in Seq(CellsOf) /\ part \in [word : WordsOf, len : Nat]
  BY <1>1, <1>2 DEF file, part
<1> QED
  BY <1>3, <1>4 DEF Packed, Entries

\* A loop over the directories that appends one entry for each that has an
\* image of the partition.
PileOf(dirs, part, f) ==
    [i \in DOMAIN DirOrder |->
        IF DirOrder[i] \in dirs /\ multi[<<DirOrder[i], part>>] # Nothing THEN <<f[DirOrder[i]]>> ELSE <<>>]

PiledIs(piled, X, dirs, part, f) ==
    /\ piled \in Seq(X)
    /\ \A e : e \in Elements(piled) <=> \E d \in dirs : multi[<<d, part>>] # Nothing /\ e = f[d]

LEMMA PiledElements ==
  ASSUME NEW X, NEW dirs, dirs \subseteq Specs \cup Fuses, NEW part, NEW f \in [dirs -> X]
  PROVE  PiledIs(FlattenSeq(PileOf(dirs, part, f)), X, dirs, part, f)
<1> DEFINE n == Len(DirOrder)
           here(i) == DirOrder[i] \in dirs /\ multi[<<DirOrder[i], part>>] # Nothing
           seqs == [i \in 1..n |-> IF here(i) THEN <<f[DirOrder[i]]>> ELSE <<>>]
           piled == FlattenSeq(PileOf(dirs, part, f))
<1>1. DOMAIN DirOrder = 1..n /\ n \in Nat
  BY DirOrderAssumption
<1>2. piled = FlattenSeq(seqs)
  BY <1>1 DEF PileOf
<1> HIDE DEF piled
<1>3. ASSUME NEW i \in 1..n
      PROVE  seqs[i] \in Seq(X) /\ \A e : e \in Elements(seqs[i]) <=> (here(i) /\ e = f[DirOrder[i]])
  <2>1. CASE here(i)
    <3>1. seqs[i] = <<f[DirOrder[i]]>> /\ f[DirOrder[i]] \in X
      BY <2>1
    <3> HIDE DEF seqs, here
    <3>2. seqs[i] \in Seq(X) /\ Len(seqs[i]) = 1 /\ seqs[i][1] = f[DirOrder[i]]
      BY <3>1
    <3> QED
      BY <2>1, <3>2 DEF Elements
  <2>2. CASE ~here(i)
    <3>1. seqs[i] = <<>>
      BY <2>2
    <3> HIDE DEF seqs, here
    <3> QED
      BY <2>2, <3>1 DEF Elements
  <2> QED
    BY <2>1, <2>2
<1> HIDE DEF here
<1>4. seqs \in [1..n -> Seq(X)] /\ DOMAIN seqs = 1..n
  BY <1>3
<1> HIDE DEF seqs
<1>5. seqs \in Seq(Seq(X)) /\ Len(seqs) = n
  BY <1>1, <1>4
<1>6. piled \in Seq(X)
  BY <1>2, <1>5, FlattenType
<1>7. ASSUME NEW e PROVE e \in Elements(piled) <=> \E i \in 1..n : here(i) /\ e = f[DirOrder[i]]
  <2>1. e \in Elements(piled) <=> \E i \in 1..n : e \in Elements(seqs[i])
    BY <1>2, <1>5, FlattenElementSet
  <2> QED
    BY <1>3, <2>1
<1>8. ASSUME NEW e PROVE (\E i \in 1..n : here(i) /\ e = f[DirOrder[i]]) <=> \E d \in dirs : multi[<<d, part>>] # Nothing /\ e = f[d]
  <2>1. \A d \in dirs : \E i \in 1..n : DirOrder[i] = d
    BY <1>1, DirOrderAssumption
  <2> QED
    BY <2>1 DEF here
<1>9. PiledIs(piled, X, dirs, part, f)
  BY <1>6, <1>7, <1>8 DEF PiledIs
<1> QED
  BY <1>9 DEF piled

\* The entries of a row.
InMulti(row, dirs) == {d \in dirs : multi[<<d, row.part>>] # Nothing}
EntriesOf(row) ==
    IF row.skip THEN {}
    ELSE IF row.board THEN {BoardEntry(row, d) : d \in InMulti(row, Specs)}
    ELSE IF row.mode THEN {FuseEntry(row, d) : d \in InMulti(row, Fuses)}
    ELSE IF row.part \in Layout[idx] THEN {Tuple(row, Source(row), 0, Common)}
    ELSE {}

LEMMA BoardPiled ==
  ASSUME TypeInv, NEW i \in DOMAIN Table, NEW piled, piled = Piled(Table[i], Specs, [d \in Specs |-> BoardEntry(Table[i], d)])
  PROVE  piled \in Seq(Packed) /\ Elements(piled) = {BoardEntry(Table[i], d) : d \in InMulti(Table[i], Specs)}
<1> DEFINE row == Table[i]
           f == [d \in Specs |-> BoardEntry(row, d)]
<1>1. ASSUME NEW d \in Specs PROVE BoardEntry(row, d) \in Packed
  <2>1. <<d, row.part>> \in Keys
    BY RowType DEF Keys
  <2>2. multi[<<d, row.part>>] \in Images
    BY <2>1 DEF TypeInv
  <2>3. Word(d, 1) \in [word : WordsOf, len : Nat]
    BY DEF Word, WordsOf
  <2> HIDE DEF row
  <2>4. OpMode(row, d) \in 0..2
    BY OpModeType
  <2> QED
    BY <2>2, <2>3, <2>4, TupleType DEF BoardEntry, row
<1>2. f \in [Specs -> Packed]
  BY <1>1
<1>3. piled = FlattenSeq(PileOf(Specs, row.part, f))
  <2>1. piled = Piled(row, Specs, f)
    OBVIOUS
  <2> HIDE DEF f, row
  <2> QED
    BY <2>1 DEF Piled, PileOf
<1> HIDE DEF f
<1>4. piled \in Seq(Packed) /\ \A e : e \in Elements(piled) <=> \E d \in Specs : multi[<<d, row.part>>] # Nothing /\ e = f[d]
  <2> DEFINE part == row.part
  <2>1. piled = FlattenSeq(PileOf(Specs, part, f)) /\ Specs \subseteq Specs \cup Fuses
    BY <1>3
  <2> HIDE DEF part
  <2>2. PiledIs(FlattenSeq(PileOf(Specs, part, f)), Packed, Specs, part, f)
    BY <1>2, <2>1, PiledElements
  <2>3. PiledIs(piled, Packed, Specs, part, f)
    BY <2>1, <2>2
  <2> QED
    BY <2>3 DEF part, PiledIs
<1>5. \A d \in Specs : f[d] = BoardEntry(row, d)
  BY DEF f
<1> HIDE DEF row
<1>6. ASSUME NEW e PROVE e \in Elements(piled) <=> e \in {BoardEntry(row, d) : d \in InMulti(row, Specs)}
  <2>1. \A d : d \in InMulti(row, Specs) <=> d \in Specs /\ multi[<<d, row.part>>] # Nothing
    BY DEF InMulti
  <2>2. e \in Elements(piled) <=> \E d \in Specs : multi[<<d, row.part>>] # Nothing /\ e = f[d]
    BY <1>4
  <2> QED
    BY <1>5, <2>1, <2>2
<1> QED
  BY <1>4, <1>6 DEF row

LEMMA FusePiled ==
  ASSUME TypeInv, NEW i \in DOMAIN Table, NEW piled, piled = Piled(Table[i], Fuses, [d \in Fuses |-> FuseEntry(Table[i], d)])
  PROVE  piled \in Seq(Packed) /\ Elements(piled) = {FuseEntry(Table[i], d) : d \in InMulti(Table[i], Fuses)}
<1> DEFINE row == Table[i]
           f == [d \in Fuses |-> FuseEntry(row, d)]
<1>1. ASSUME NEW d \in Fuses PROVE FuseEntry(row, d) \in Packed
  <2>1. <<d, row.part>> \in Keys
    BY RowType DEF Keys
  <2>2. multi[<<d, row.part>>] \in Images
    BY <2>1 DEF TypeInv
  <2>3. Common \in [word : WordsOf, len : Nat]
    BY DEF Word, WordsOf, Common
  <2> HIDE DEF row
  <2>4. OpMode(row, d) \in 0..2
    BY OpModeType
  <2> QED
    BY <2>2, <2>3, <2>4, TupleType DEF FuseEntry, row
<1>2. f \in [Fuses -> Packed]
  BY <1>1
<1>3. piled = FlattenSeq(PileOf(Fuses, row.part, f))
  <2>1. piled = Piled(row, Fuses, f)
    OBVIOUS
  <2> HIDE DEF f, row
  <2> QED
    BY <2>1 DEF Piled, PileOf
<1> HIDE DEF f
<1>4. piled \in Seq(Packed) /\ \A e : e \in Elements(piled) <=> \E d \in Fuses : multi[<<d, row.part>>] # Nothing /\ e = f[d]
  <2> DEFINE part == row.part
  <2>1. piled = FlattenSeq(PileOf(Fuses, part, f)) /\ Fuses \subseteq Specs \cup Fuses
    BY <1>3
  <2> HIDE DEF part
  <2>2. PiledIs(FlattenSeq(PileOf(Fuses, part, f)), Packed, Fuses, part, f)
    BY <1>2, <2>1, PiledElements
  <2>3. PiledIs(piled, Packed, Fuses, part, f)
    BY <2>1, <2>2
  <2> QED
    BY <2>3 DEF part, PiledIs
<1>5. \A d \in Fuses : f[d] = FuseEntry(row, d)
  BY DEF f
<1> HIDE DEF row
<1>6. ASSUME NEW e PROVE e \in Elements(piled) <=> e \in {FuseEntry(row, d) : d \in InMulti(row, Fuses)}
  <2>1. \A d : d \in InMulti(row, Fuses) <=> d \in Fuses /\ multi[<<d, row.part>>] # Nothing
    BY DEF InMulti
  <2>2. e \in Elements(piled) <=> \E d \in Fuses : multi[<<d, row.part>>] # Nothing /\ e = f[d]
    BY <1>4
  <2> QED
    BY <1>5, <2>1, <2>2
<1> QED
  BY <1>4, <1>6 DEF row

LEMMA RowElements ==
  ASSUME TypeInv, NEW i \in DOMAIN Table
  PROVE  RowEntries(Table[i]) \in Seq(Packed) /\ Elements(RowEntries(Table[i])) = EntriesOf(Table[i])
<1> DEFINE row == Table[i]
           one == Tuple(row, Source(row), 0, Common)
<1>1. one \in Packed
  <2>1. Common \in [word : WordsOf, len : Nat]
    BY DEF Word, WordsOf, Common
  <2> QED
    BY <2>1, SourceType, TupleType
<1>2. Elements(<<>>) = {} /\ <<>> \in Seq(Packed)
  BY DEF Elements
<1>3. <<one>> \in Seq(Packed) /\ Elements(<<one>>) = {one}
  <2> HIDE DEF one
  <2> QED
    BY <1>1 DEF Elements
<1>4. CASE row.skip
  BY <1>2, <1>4 DEF RowEntries, EntriesOf
<1>5. CASE ~row.skip /\ row.board
  <2>1. RowEntries(row) = Piled(row, Specs, [d \in Specs |-> BoardEntry(row, d)])
    BY <1>5 DEF RowEntries
  <2>2. EntriesOf(row) = {BoardEntry(row, d) : d \in InMulti(row, Specs)}
    BY <1>5 DEF EntriesOf
  <2> QED
    BY <2>1, <2>2, BoardPiled
<1>6. CASE ~row.skip /\ ~row.board /\ row.mode
  <2>1. RowEntries(row) = Piled(row, Fuses, [d \in Fuses |-> FuseEntry(row, d)])
    BY <1>6 DEF RowEntries
  <2>2. EntriesOf(row) = {FuseEntry(row, d) : d \in InMulti(row, Fuses)}
    BY <1>6 DEF EntriesOf
  <2> QED
    BY <2>1, <2>2, FusePiled
<1>7. CASE ~row.skip /\ ~row.board /\ ~row.mode
  <2>1. CASE row.part \in Layout[idx]
    <3>1. RowEntries(row) = <<one>> /\ EntriesOf(row) = {one}
      BY <1>7, <2>1 DEF RowEntries, EntriesOf
    <3> QED
      BY <1>3, <3>1
  <2>2. CASE row.part \notin Layout[idx]
    <3>1. RowEntries(row) = <<>> /\ EntriesOf(row) = {}
      BY <1>7, <2>2 DEF RowEntries, EntriesOf
    <3> QED
      BY <1>2, <3>1
  <2> QED
    BY <2>1, <2>2
<1> QED
  BY <1>4, <1>5, <1>6, <1>7

LEMMA ListElements ==
  ASSUME TypeInv, NEW name
  PROVE  /\ EntryListOf(name) \in Seq(Packed)
         /\ \A e : e \in Elements(EntryListOf(name)) <=> \E i \in DOMAIN Table : Table[i].list = name /\ e \in EntriesOf(Table[i])
<1> DEFINE n == Len(Table)
           seqs == [i \in 1..n |-> IF Table[i].list = name THEN RowEntries(Table[i]) ELSE <<>>]
<1>1. DOMAIN Table = 1..n /\ n \in Nat
  BY TableAssumption
<1>2. EntryListOf(name) = FlattenSeq(seqs)
  BY <1>1 DEF EntryListOf
<1>3. ASSUME NEW i \in 1..n
      PROVE  seqs[i] \in Seq(Packed) /\ \A e : e \in Elements(seqs[i]) <=> (Table[i].list = name /\ e \in EntriesOf(Table[i]))
  <2>1. RowEntries(Table[i]) \in Seq(Packed) /\ Elements(RowEntries(Table[i])) = EntriesOf(Table[i])
    BY <1>1, RowElements
  <2>2. CASE Table[i].list = name
    <3>1. seqs[i] = RowEntries(Table[i])
      BY <2>2
    <3> HIDE DEF seqs
    <3> QED
      BY <2>1, <2>2, <3>1
  <2>3. CASE Table[i].list # name
    <3>1. seqs[i] = <<>>
      BY <2>3
    <3> HIDE DEF seqs
    <3> QED
      BY <2>3, <3>1 DEF Elements
  <2> QED
    BY <2>2, <2>3
<1>4. seqs \in [1..n -> Seq(Packed)] /\ DOMAIN seqs = 1..n
  BY <1>3
<1> HIDE DEF seqs
<1>5. seqs \in Seq(Seq(Packed)) /\ Len(seqs) = n
  BY <1>1, <1>4
<1>6. EntryListOf(name) \in Seq(Packed)
  BY <1>2, <1>5, FlattenType
<1>7. ASSUME NEW e PROVE e \in Elements(EntryListOf(name)) <=> \E i \in 1..n : e \in Elements(seqs[i])
  BY <1>2, <1>5, FlattenElementSet
<1> QED
  BY <1>1, <1>3, <1>6, <1>7

\* The list of the package has the entries of the bootloader's and the kernel's
\* rows, if it can be packed.
LEMMA PackageElements ==
  ASSUME TypeInv, NEW list, list = EntryListFor("bl_and_kernel"), Packable(list)
  PROVE  /\ list \in Seq(Packed)
         /\ \A e : e \in Elements(list) <=> \E i \in DOMAIN Table : Table[i].list # "xusb" /\ e \in EntriesOf(Table[i])
<1> DEFINE bl == EntryListOf("bl")
           kernel == EntryListOf("kernel")
<1>1. bl \in Seq(Packed) /\ kernel \in Seq(Packed)
  BY ListElements
<1>2. list = IF bl = <<>> \/ kernel = <<>> THEN bl \o <<Malformed>> \o kernel ELSE bl \o kernel
  BY DEF EntryListFor, BlAndKernel
<1>3. ASSUME NEW e
      PROVE  /\ e \in Elements(bl) <=> \E i \in DOMAIN Table : Table[i].list = "bl" /\ e \in EntriesOf(Table[i])
             /\ e \in Elements(kernel) <=> \E i \in DOMAIN Table : Table[i].list = "kernel" /\ e \in EntriesOf(Table[i])
  BY ListElements
<1> HIDE DEF bl, kernel
<1>4. ~(bl = <<>> \/ kernel = <<>>)
  <2> SUFFICES ASSUME bl = <<>> \/ kernel = <<>> PROVE FALSE
    OBVIOUS
  <2>1. list = (bl \o <<Malformed>>) \o kernel
    BY <1>2
  <2> DEFINE All == Packed \cup {Malformed}
             m == <<Malformed>>
  <2>2. bl \in Seq(All) /\ kernel \in Seq(All) /\ m \in Seq(All) /\ Malformed \in Elements(m)
    <3>1. m \in Seq(All) /\ Len(m) = 1 /\ m[1] = Malformed
      OBVIOUS
    <3> QED
      BY <1>1, <3>1 DEF Elements
  <2> HIDE DEF All, m
  <2>3. bl \o m \in Seq(All) /\ Malformed \in Elements(bl \o m)
    BY <2>2, ConcatElements
  <2>4. list = (bl \o m) \o kernel
    BY <2>1 DEF m
  <2>5. Malformed \in Elements(list) /\ list \in Seq(All)
    <3> DEFINE front == bl \o m
    <3>1. front \in Seq(All) /\ Malformed \in Elements(front) /\ list = front \o kernel
      BY <2>3, <2>4
    <3> HIDE DEF front
    <3>2. front \o kernel \in Seq(All) /\ Elements(front \o kernel) = Elements(front) \cup Elements(kernel)
      BY <2>2, <3>1, ConcatElements
    <3> QED
      BY <3>1, <3>2
  <2>6. PICK i \in 1..Len(list) : list[i] = Malformed
    BY <2>5 DEF Elements
  <2>7. i \in DOMAIN list
    BY <2>5
  <2>8. WellFormed(list[i])
    BY <2>7 DEF Packable
  <2>9. Malformed.arity = 1
    BY DEF Malformed
  <2> QED
    BY <2>6, <2>8, <2>9 DEF WellFormed
<1>5. list = bl \o kernel
  BY <1>2, <1>4
<1>6. list \in Seq(Packed) /\ Elements(list) = Elements(bl) \cup Elements(kernel)
  <2>1. bl \o kernel \in Seq(Packed) /\ Elements(bl \o kernel) = Elements(bl) \cup Elements(kernel)
    BY <1>1, ConcatElements
  <2> QED
    BY <1>5, <2>1
<1>7. \A i \in DOMAIN Table : Table[i].list \in {"bl", "kernel", "xusb"}
  <2>1. \A i \in DOMAIN Table : Table[i].list \in Lists
    BY RowType DEF Rows
  <2> QED
    BY <2>1 DEF Lists
<1> QED
  BY <1>3, <1>6, <1>7

\* Without an entry on one side it has one of no words.
LEMMA PackageNotEmpty == ASSUME TypeInv PROVE EntryListFor("bl_and_kernel") # <<>>
<1> DEFINE bl == EntryListOf("bl")
           kernel == EntryListOf("kernel")
<1>1. bl \in Seq(Packed) /\ kernel \in Seq(Packed)
  BY ListElements
<1>2. EntryListFor("bl_and_kernel") = IF bl = <<>> \/ kernel = <<>> THEN bl \o <<Malformed>> \o kernel ELSE bl \o kernel
  BY DEF EntryListFor, BlAndKernel
<1> DEFINE All == Packed \cup {Malformed}
<1>3. bl \in Seq(All) /\ kernel \in Seq(All) /\ <<Malformed>> \in Seq(All) /\ Len(<<Malformed>>) = 1
  BY <1>1
<1> HIDE DEF bl, kernel, All
<1>4. CASE bl = <<>> \/ kernel = <<>>
  <2>1. bl \o <<Malformed>> \in Seq(All) /\ Len(bl \o <<Malformed>>) = Len(bl) + 1
    BY <1>3
  <2>2. Len((bl \o <<Malformed>>) \o kernel) = Len(bl) + 1 + Len(kernel)
    BY <1>3, <2>1
  <2>3. Len((bl \o <<Malformed>>) \o kernel) > 0
    BY <1>3, <2>2
  <2> QED
    BY <1>2, <1>4, <2>3
<1>5. CASE bl # <<>> /\ kernel # <<>>
  <2>1. Len(bl \o kernel) > 0
    BY <1>3, <1>5
  <2> QED
    BY <1>2, <1>5, <2>1
<1> QED
  BY <1>4, <1>5

-----------------------------------------------------------------------------
(* When the last configuration's images are copied, the entries of the     *)
(* rows are those meant.                                                   *)

Ready == /\ TypeInv /\ MadeInv /\ FreshInv /\ MultiInv
         /\ pc = "generate" /\ Counts /\ (session.kind = "soc" => at = Len(session.specs))

LEMMA DoneWhenReady ==
  ASSUME Ready
  PROVE  /\ Done = Range(session.specs) /\ Config \in Done /\ Done \subseteq Specs
         /\ \A s \in Done : made[s] \in Nat /\ made[s] > 0
         /\ \A s, t \in Done : made[s] = made[t] => s = t
         /\ \A s \in Done \ {Config} : made[s] < made[Config]
<1>1. TypeInv /\ MadeInv /\ pc = "generate" /\ Counts
  BY DEF Ready
<1>2. session.specs \in Seq(Specs) /\ Len(session.specs) \in Nat /\ at \in 1..Len(session.specs) /\ session \in Sessions
  BY <1>1, ConfigType DEF TypeInv
<1>3. at = Len(session.specs)
  <2>1. session.kind # "soc" => Len(session.specs) = 1
    BY <1>2, SessionsAssumption
  <2>2. session.kind = "soc" => at = Len(session.specs)
    BY DEF Ready
  <2>3. CASE session.kind = "soc"
    BY <2>2, <2>3
  <2>4. CASE session.kind # "soc"
    <3>1. Len(session.specs) = 1
      BY <2>1, <2>4
    <3> QED
      BY <1>2, <3>1
  <2> QED
    BY <2>3, <2>4
<1>4. Done = {session.specs[i] : i \in 1..Len(session.specs)}
  BY <1>1, <1>2, <1>3 DEF Done
<1>5. DOMAIN session.specs = 1..Len(session.specs)
  BY <1>2
<1>6. Done = Range(session.specs)
  BY <1>4, <1>5 DEF Range
<1>7. Config \in Done
  BY <1>2, <1>4 DEF Config
<1>8. Done \subseteq Specs
  BY <1>2, <1>4
<1>9. \A s \in Specs : made[s] \in Nat
  BY <1>1 DEF TypeInv
<1>10. (\A s \in Done : made[s] > 0) /\ (\A s, t \in Done : made[s] = made[t] => s = t)
  BY <1>1 DEF MadeInv
<1>11. \A s \in Specs \ {Config} : made[s] < made[Config]
  BY <1>1 DEF MadeInv
<1> QED
  BY <1>6, <1>7, <1>8, <1>9, <1>10, <1>11

LEMMA LatestIs ==
  ASSUME Ready, NEW row, NEW s, SharedBy(row, s) \subseteq Done, NEW x \in SharedBy(row, s), \A y \in SharedBy(row, s) : made[y] <= made[x]
  PROVE  Latest(row, s) = x
<1> DEFINE S == SharedBy(row, s)
           z == Latest(row, s)
<1>1. z = CHOOSE v \in S : \A y \in S : made[y] <= made[v]
  BY DEF Latest, LastBuilt
<1> HIDE DEF z
<1>2. z \in S /\ \A y \in S : made[y] <= made[z]
  BY <1>1
<1>3. made[z] <= made[x] /\ made[x] <= made[z] /\ z \in Done /\ x \in Done
  BY <1>2
<1>4. made[z] = made[x]
  BY <1>3, DoneWhenReady
<1> QED
  BY <1>3, <1>4, DoneWhenReady DEF z

\* What is under a name of multi_signed/.
LEMMA HavingBoard ==
  ASSUME Ready, NEW i \in DOMAIN Table, ~Table[i].skip, Table[i].board, NEW d \in Specs
  PROVE  Having(<<d, Table[i].part>>) = {s \in Done : s = d /\ Table[i].part \in Layout[d]}
<1> DEFINE k == <<d, Table[i].part>>
<1>1. ASSUME NEW s \in Done, k \in CopiedOf(s) PROVE s = d /\ Table[i].part \in Layout[d]
  <2>1. PICK j \in DOMAIN Table : /\ Table[j].part \in Layout[s]
                                  /\ k = <<TargetDir(Table[j], s), Table[j].part>>
    BY <1>1 DEF CopiedOf
  <2>2. TargetDir(Table[j], s) = d /\ Table[j].part = Table[i].part
    BY <2>1
  <2>3. s \in Specs /\ Fuse[s] \in Fuses /\ d \notin Fuses
    BY DoneWhenReady, SpecsAssumption DEF Fuses
  <2> QED
    BY <2>1, <2>2, <2>3 DEF TargetDir
<1>2. ASSUME NEW s \in Done, s = d, Table[i].part \in Layout[d] PROVE k \in CopiedOf(s)
  <2>1. TargetDir(Table[i], s) = d
    BY <1>2 DEF TargetDir
  <2> QED
    BY <1>2, <2>1 DEF CopiedOf
<1> QED
  BY <1>1, <1>2 DEF Having

LEMMA HavingFuse ==
  ASSUME Ready, NEW i \in DOMAIN Table, ~Table[i].skip, ~Table[i].board, Table[i].mode, NEW f \in Fuses
  PROVE  Having(<<f, Table[i].part>>) = {s \in Done : Fuse[s] = f /\ Table[i].part \in Layout[s]}
<1> DEFINE k == <<f, Table[i].part>>
<1>1. ASSUME NEW s \in Done, k \in CopiedOf(s) PROVE Fuse[s] = f /\ Table[i].part \in Layout[s]
  <2>1. PICK j \in DOMAIN Table : /\ Table[j].part \in Layout[s]
                                  /\ k = <<TargetDir(Table[j], s), Table[j].part>>
    BY <1>1 DEF CopiedOf
  <2>2. TargetDir(Table[j], s) = f /\ Table[j].part = Table[i].part
    BY <2>1
  <2>3. s \in Specs /\ f \notin Specs
    BY DoneWhenReady, SpecsAssumption
  <2> QED
    BY <2>1, <2>2, <2>3 DEF TargetDir
<1>2. ASSUME NEW s \in Done, Fuse[s] = f, Table[i].part \in Layout[s] PROVE k \in CopiedOf(s)
  <2>1. TargetDir(Table[i], s) = f
    BY <1>2 DEF TargetDir
  <2> QED
    BY <1>2, <2>1 DEF CopiedOf
<1> QED
  BY <1>1, <1>2 DEF Having

LEMMA RightWhenReady ==
  ASSUME Ready, NEW k \in Keys
  PROVE  Right(k)
BY DEF Ready, MultiInv

LEMMA ImageIsSome ==
  ASSUME Ready, NEW part, NEW x \in Done
  PROVE  Image(part, x, made[x]) # Nothing
<1>1. made[x] > 0 /\ made[x] \in Nat
  BY DoneWhenReady
<1>2. Image(part, x, made[x]).build = made[x] /\ Nothing.build = 0
  BY DEF Image, Nothing
<1> QED
  BY <1>1, <1>2

\* The entry that is to be there for a row and a configuration.
EntryMeant(row, s) ==
    Tuple(row, ImageMeant(row, s), OpMode(row, IF row.board THEN s ELSE Fuse[s]), IF row.board THEN Word(s, 1) ELSE Common)
MeantOf(row) == {s \in Range(session.specs) : <<row, s>> \in Meant}

LEMMA MeantOfIs ==
  ASSUME NEW i \in DOMAIN Table, InPackage(Table[i]), NEW s
  PROVE  s \in MeantOf(Table[i]) <=> /\ s \in Range(session.specs) /\ SharedBy(Table[i], s) # {}
                                     /\ Table[i].part \in Layout[Latest(Table[i], s)]
<1> DEFINE row == Table[i]
           rs == <<row, s>>
           All == {Table[j] : j \in DOMAIN Table}
<1>1. row \in All /\ rs[1] = row /\ rs[2] = s
  OBVIOUS
<1>2. rs \in All \X Range(session.specs) <=> s \in Range(session.specs)
  BY <1>1
<1>3. rs \in Meant <=> /\ rs \in All \X Range(session.specs)
                       /\ InPackage(rs[1]) /\ SharedBy(rs[1], rs[2]) # {} /\ rs[1].part \in Layout[Latest(rs[1], rs[2])]
  BY DEF Meant
<1> QED
  BY <1>1, <1>2, <1>3 DEF MeantOf

LEMMA BoardRowMeant ==
  ASSUME Ready, NEW i \in DOMAIN Table, InPackage(Table[i]), Table[i].board
  PROVE  EntriesOf(Table[i]) = {EntryMeant(Table[i], s) : s \in MeantOf(Table[i])}
<1> DEFINE row == Table[i]
<1>1. row.part \in Parts /\ ~row.skip
  BY RowType DEF InPackage
<1>2. ASSUME NEW s \in Done PROVE SharedBy(row, s) = {s} /\ Latest(row, s) = s
  <2>1. SharedBy(row, s) = {s}
    BY DEF SharedBy
  <2>2. made[s] <= made[s]
    BY DoneWhenReady
  <2> HIDE DEF row
  <2> QED
    BY <2>1, <2>2, LatestIs
<1>3. ASSUME NEW s PROVE s \in MeantOf(row) <=> s \in Done /\ row.part \in Layout[s]
  BY <1>2, MeantOfIs, DoneWhenReady
<1>4. ASSUME NEW d \in Specs
      PROVE  /\ d \in InMulti(row, Specs) <=> d \in Done /\ row.part \in Layout[d]
             /\ d \in InMulti(row, Specs) => multi[<<d, row.part>>] = Image(row.part, d, made[d])
  <2> DEFINE k == <<d, row.part>>
  <2>1. k \in Keys /\ k[2] = row.part
    BY <1>1 DEF Keys
  <2>2. Right(k)
    BY <2>1, RightWhenReady
  <2>3. Having(k) = {s \in Done : s = d /\ row.part \in Layout[d]}
    BY <1>1, HavingBoard
  <2>4. d \in InMulti(row, Specs) <=> multi[k] # Nothing
    BY DEF InMulti
  <2> HIDE DEF k, row
  <2>5. CASE d \in Done /\ row.part \in Layout[d]
    <3>1. Having(k) = {d}
      BY <2>3, <2>5
    <3>2. multi[k] = Image(k[2], d, made[d])
      BY <2>2, <3>1 DEF Right
    <3>3. multi[k] # Nothing
      BY <2>5, <3>2, ImageIsSome
    <3> QED
      BY <2>1, <2>4, <2>5, <3>2, <3>3 DEF k
  <2>6. CASE ~(d \in Done /\ row.part \in Layout[d])
    <3>1. Having(k) = {}
      BY <2>3, <2>6
    <3>2. multi[k] = Nothing
      BY <2>2, <3>1 DEF Right
    <3> QED
      BY <2>4, <2>6, <3>2
  <2> QED
    BY <2>5, <2>6
<1>5. EntriesOf(row) = {BoardEntry(row, d) : d \in InMulti(row, Specs)}
  BY <1>1 DEF EntriesOf
<1>6. \A d : d \in InMulti(row, Specs) <=> d \in MeantOf(row)
  <2>1. \A d : d \in InMulti(row, Specs) => d \in Specs
    BY DEF InMulti
  <2>2. Done \subseteq Specs
    BY DoneWhenReady
  <2> QED
    BY <1>3, <1>4, <2>1, <2>2
<1>7. ASSUME NEW d \in MeantOf(row) PROVE BoardEntry(row, d) = EntryMeant(row, d)
  <2>1. d \in Done /\ d \in Specs /\ d \in InMulti(row, Specs)
    BY <1>3, <1>6, DoneWhenReady
  <2>2. ImageMeant(row, d) = Image(row.part, d, made[d]) /\ multi[<<d, row.part>>] = Image(row.part, d, made[d])
    BY <1>2, <1>4, <2>1 DEF ImageMeant
  <2>3. EntryMeant(row, d) = Tuple(row, ImageMeant(row, d), OpMode(row, d), Word(d, 1))
    BY DEF EntryMeant
  <2> QED
    BY <2>2, <2>3 DEF BoardEntry
<1> HIDE DEF row
<1> QED
  BY <1>5, <1>6, <1>7 DEF row

LEMMA FuseRowMeant ==
  ASSUME Ready, NEW i \in DOMAIN Table, InPackage(Table[i]), ~Table[i].board, Table[i].mode
  PROVE  EntriesOf(Table[i]) = {EntryMeant(Table[i], s) : s \in MeantOf(Table[i])}
<1> DEFINE row == Table[i]
<1>1. row.part \in Parts /\ ~row.skip
  BY RowType DEF InPackage
<1>2. ASSUME NEW s \in Done
      PROVE  /\ Fuse[s] \in Fuses /\ SharedBy(row, s) = Having(<<Fuse[s], row.part>>) /\ SharedBy(row, s) \subseteq Done
  <2>1. Fuse[s] \in Fuses
    BY DoneWhenReady DEF Fuses
  <2>2. Having(<<Fuse[s], row.part>>) = {x \in Done : Fuse[x] = Fuse[s] /\ row.part \in Layout[x]}
    BY <1>1, <2>1, HavingFuse
  <2>3. SharedBy(row, s) = {x \in Done : Fuse[x] = Fuse[s] /\ row.part \in Layout[x]}
    BY DoneWhenReady DEF SharedBy
  <2> QED
    BY <2>1, <2>2, <2>3
<1>3. ASSUME NEW f \in Fuses, NEW x \in Having(<<f, row.part>>),
             \A y \in Having(<<f, row.part>>) : made[y] <= made[x],
             NEW s \in Done, Fuse[s] = f
      PROVE  Latest(row, s) = x /\ x \in Done /\ Fuse[x] = f /\ row.part \in Layout[x]
  <2>1. SharedBy(row, s) = Having(<<f, row.part>>) /\ SharedBy(row, s) \subseteq Done
    BY <1>2, <1>3
  <2>2. Having(<<f, row.part>>) = {y \in Done : Fuse[y] = f /\ row.part \in Layout[y]}
    BY <1>1, HavingFuse
  <2> HIDE DEF row
  <2>3. Latest(row, s) = x
    BY <1>3, <2>1, LatestIs
  <2> QED
    BY <2>2, <2>3
<1>4. ASSUME NEW f \in Fuses PROVE <<f, row.part>> \in Keys /\ Right(<<f, row.part>>)
  <2>1. <<f, row.part>> \in Keys
    BY <1>1 DEF Keys
  <2> QED
    BY <2>1, RightWhenReady
<1>5. EntriesOf(row) = {FuseEntry(row, d) : d \in InMulti(row, Fuses)}
  BY <1>1 DEF EntriesOf
\* An entry that is there is meant.
<1>6. ASSUME NEW f \in InMulti(row, Fuses) PROVE \E s \in MeantOf(row) : FuseEntry(row, f) = EntryMeant(row, s)
  <2> DEFINE k == <<f, row.part>>
  <2>1. f \in Fuses /\ multi[k] # Nothing /\ k[2] = row.part
    BY DEF InMulti
  <2>2. Right(k)
    BY <1>4, <2>1
  <2>3. PICK x \in Having(k) : (\A y \in Having(k) : made[y] <= made[x]) /\ multi[k] = Image(k[2], x, made[x])
    BY <2>1, <2>2 DEF Right
  <2>4. x \in Done /\ Fuse[x] = f /\ row.part \in Layout[x]
    BY <1>1, <2>1, HavingFuse
  <2>5. Latest(row, x) = x
    BY <1>3, <2>1, <2>3, <2>4
  <2>6. SharedBy(row, x) # {}
    BY <1>2, <2>3, <2>4
  <2>7. x \in MeantOf(row)
    BY <2>4, <2>5, <2>6, MeantOfIs, DoneWhenReady
  <2>8. ImageMeant(row, x) = multi[k]
    BY <2>1, <2>3, <2>5 DEF ImageMeant
  <2>9. EntryMeant(row, x) = Tuple(row, ImageMeant(row, x), OpMode(row, f), Common)
    BY <2>4 DEF EntryMeant
  <2>10. FuseEntry(row, f) = EntryMeant(row, x)
    BY <2>8, <2>9 DEF FuseEntry
  <2> QED
    BY <2>7, <2>10
\* What is meant is there.
<1>7. ASSUME NEW s \in MeantOf(row) PROVE \E f \in InMulti(row, Fuses) : FuseEntry(row, f) = EntryMeant(row, s)
  <2> DEFINE f == Fuse[s]
             k == <<f, row.part>>
  <2>1. s \in Done /\ SharedBy(row, s) # {}
    BY MeantOfIs, DoneWhenReady
  <2>2. f \in Fuses /\ Having(k) # {} /\ k[2] = row.part
    BY <1>2, <2>1
  <2>3. Right(k)
    BY <1>4, <2>2
  <2>4. PICK x \in Having(k) : (\A y \in Having(k) : made[y] <= made[x]) /\ multi[k] = Image(k[2], x, made[x])
    BY <2>2, <2>3 DEF Right
  <2>5. Latest(row, s) = x /\ x \in Done
    BY <1>3, <2>1, <2>2, <2>4
  <2>6. multi[k] = Image(row.part, x, made[x]) /\ multi[k] # Nothing
    BY <2>2, <2>4, <2>5, ImageIsSome
  <2>7. f \in InMulti(row, Fuses)
    BY <2>2, <2>6 DEF InMulti
  <2>8. ImageMeant(row, s) = multi[k]
    BY <2>5, <2>6 DEF ImageMeant
  <2>9. EntryMeant(row, s) = Tuple(row, ImageMeant(row, s), OpMode(row, f), Common)
    BY DEF EntryMeant
  <2>10. FuseEntry(row, f) = EntryMeant(row, s)
    BY <2>8, <2>9 DEF FuseEntry
  <2> QED
    BY <2>7, <2>10
<1> HIDE DEF row
<1> QED
  BY <1>5, <1>6, <1>7 DEF row

LEMMA CommonRowMeant ==
  ASSUME Ready, NEW i \in DOMAIN Table, InPackage(Table[i]), ~Table[i].board, ~Table[i].mode
  PROVE  EntriesOf(Table[i]) = {EntryMeant(Table[i], s) : s \in MeantOf(Table[i])}
<1> DEFINE row == Table[i]
<1>1. row.part \in Parts /\ ~row.skip
  BY RowType DEF InPackage
<1>2. ASSUME NEW s PROVE SharedBy(row, s) = Done /\ Latest(row, s) = Config
  <2>1. SharedBy(row, s) = Done
    BY DoneWhenReady DEF SharedBy
  <2>2. Config \in Done /\ \A y \in Done : made[y] <= made[Config]
    BY DoneWhenReady
  <2> HIDE DEF row
  <2> QED
    BY <2>1, <2>2, LatestIs
<1>3. ASSUME NEW s PROVE s \in MeantOf(row) <=> s \in Done /\ row.part \in Layout[Config]
  BY <1>2, MeantOfIs, DoneWhenReady
<1>4. idx = Config /\ (row.part \in Layout[Config] => Source(row) = Image(row.part, Config, made[Config]))
  <2>1. FreshInv /\ pc = "generate" /\ Counts
    BY DEF Ready
  <2>2. idx = Config /\ (row.part \in Layout[Config] => /\ signed[row.part] = Image(row.part, Config, made[Config])
                                                        /\ out[row.part] = Image(row.part, Config, made[Config]))
    BY <1>1, <2>1 DEF FreshInv
  <2> HIDE DEF row
  <2> QED
    BY <2>2 DEF Source
<1>5. ASSUME NEW s PROVE EntryMeant(row, s) = Tuple(row, Image(row.part, Config, made[Config]), 0, Common)
  <2>1. ImageMeant(row, s) = Image(row.part, Config, made[Config])
    BY <1>2 DEF ImageMeant
  <2>2. OpMode(row, Fuse[s]) = 0
    BY DEF OpMode
  <2>3. EntryMeant(row, s) = Tuple(row, ImageMeant(row, s), OpMode(row, Fuse[s]), Common)
    BY DEF EntryMeant
  <2> QED
    BY <2>1, <2>2, <2>3
<1>6. EntriesOf(row) = IF row.part \in Layout[idx] THEN {Tuple(row, Source(row), 0, Common)} ELSE {}
  BY <1>1 DEF EntriesOf
<1>7. Config \in Done
  BY DoneWhenReady
<1> HIDE DEF row
<1>8. CASE row.part \in Layout[Config]
  <2>1. MeantOf(row) # {}
    BY <1>3, <1>7, <1>8
  <2> QED
    BY <1>4, <1>5, <1>6, <1>8, <2>1 DEF row
<1>9. CASE row.part \notin Layout[Config]
  <2>1. MeantOf(row) = {}
    BY <1>3, <1>9
  <2> QED
    BY <1>4, <1>6, <1>9, <2>1 DEF row
<1> QED
  BY <1>8, <1>9

LEMMA RowsMeant ==
  ASSUME Ready, NEW i \in DOMAIN Table, Table[i].list # "xusb"
  PROVE  /\ Table[i].skip => EntriesOf(Table[i]) = {} /\ ~InPackage(Table[i])
         /\ ~Table[i].skip => InPackage(Table[i]) /\ EntriesOf(Table[i]) = {EntryMeant(Table[i], s) : s \in MeantOf(Table[i])}
<1>1. ASSUME Table[i].skip PROVE EntriesOf(Table[i]) = {} /\ ~InPackage(Table[i])
  BY <1>1 DEF EntriesOf, InPackage
<1>2. ASSUME ~Table[i].skip PROVE InPackage(Table[i]) /\ EntriesOf(Table[i]) = {EntryMeant(Table[i], s) : s \in MeantOf(Table[i])}
  <2>1. InPackage(Table[i])
    BY <1>2 DEF InPackage
  <2> QED
    BY <2>1, BoardRowMeant, FuseRowMeant, CommonRowMeant
<1> QED
  BY <1>1, <1>2

\* The list of the package: all that is meant and nothing else.
LEMMA PackageListMeant ==
  ASSUME Ready, NEW list, list = EntryListFor("bl_and_kernel"), Packable(list)
  PROVE  /\ list \in Seq(Packed)
         /\ \A i \in DOMAIN list : \E rs \in Meant : list[i] = EntryMeant(rs[1], rs[2])
         /\ \A rs \in Meant : \E i \in DOMAIN list : list[i] = EntryMeant(rs[1], rs[2])
<1>1. TypeInv
  BY DEF Ready
<1>2. /\ list \in Seq(Packed)
      /\ \A e : e \in Elements(list) <=> \E i \in DOMAIN Table : Table[i].list # "xusb" /\ e \in EntriesOf(Table[i])
  BY <1>1, PackageElements
<1>3. DOMAIN list = 1..Len(list)
  BY <1>2
<1>4. ASSUME NEW i \in DOMAIN list PROVE \E rs \in Meant : list[i] = EntryMeant(rs[1], rs[2])
  <2>1. list[i] \in Elements(list)
    BY <1>3 DEF Elements
  <2>2. PICK j \in DOMAIN Table : Table[j].list # "xusb" /\ list[i] \in EntriesOf(Table[j])
    BY <1>2, <2>1
  <2>3. PICK s \in MeantOf(Table[j]) : list[i] = EntryMeant(Table[j], s)
    BY <2>2, RowsMeant
  <2>4. <<Table[j], s>> \in Meant
    BY DEF MeantOf
  <2> DEFINE rs == <<Table[j], s>>
  <2>5. rs \in Meant /\ list[i] = EntryMeant(rs[1], rs[2])
    BY <2>3, <2>4
  <2> QED
    BY <2>5
<1>5. ASSUME NEW rs \in Meant PROVE \E i \in DOMAIN list : list[i] = EntryMeant(rs[1], rs[2])
  <2>1. /\ rs \in {Table[i] : i \in DOMAIN Table} \X Range(session.specs)
        /\ InPackage(rs[1])
    BY DEF Meant
  <2>2. PICK j \in DOMAIN Table : rs[1] = Table[j]
    BY <2>1
  <2>3. rs = <<rs[1], rs[2]>> /\ rs[2] \in Range(session.specs)
    BY <2>1
  <2>4. rs[2] \in MeantOf(Table[j])
    BY <2>2, <2>3 DEF MeantOf
  <2>5. Table[j].list # "xusb" /\ ~Table[j].skip
    BY <2>1, <2>2 DEF InPackage
  <2>6. EntryMeant(rs[1], rs[2]) \in EntriesOf(Table[j])
    BY <2>2, <2>4, <2>5, RowsMeant
  <2>7. EntryMeant(rs[1], rs[2]) \in Elements(list)
    BY <1>2, <2>5, <2>6
  <2> QED
    BY <1>3, <2>7 DEF Elements
<1> QED
  BY <1>2, <1>4, <1>5

-----------------------------------------------------------------------------
(* What the package has.                                                   *)

LEMMA EntryMeantIs ==
  ASSUME Ready, NEW rs \in Meant
  PROVE  /\ EntryName(EntryMeant(rs[1], rs[2])) = NameMeant(rs[1], rs[2])
         /\ EntryMeant(rs[1], rs[2]).file = FileOf(ImageMeant(rs[1], rs[2]))
<1> DEFINE row == rs[1]
           s == rs[2]
           e == EntryMeant(row, s)
           mode == OpMode(row, IF row.board THEN s ELSE Fuse[s])
           spec == IF row.board THEN Word(s, 1) ELSE Common
           file == FileOf(ImageMeant(row, s))
<1>1. s \in Specs
  BY DoneWhenReady DEF Meant
<1>2. e = [arity |-> 5, file |-> file, part |-> row.name, version |-> 1, mode |-> mode, spec |-> spec]
  BY DEF EntryMeant, Tuple
<1>3. (IF spec.word = "common" THEN "" ELSE spec.word) = IF row.board THEN s ELSE ""
  <2>1. CASE row.board
    BY <1>1, <2>1, SpecsAssumption DEF Word
  <2>2. CASE ~row.board
    BY <2>2 DEF Word, Common
  <2> QED
    BY <2>1, <2>2
<1>4. NameMeant(row, s) = <<row.name.word, OpStr(mode), IF row.board THEN s ELSE "">>
  BY DEF NameMeant
<1> HIDE DEF mode, spec, file
<1>5. e.part = row.name /\ e.mode = mode /\ e.spec = spec /\ e.file = file
  BY <1>2
<1>6. EntryName(e) = <<row.name.word, OpStr(mode), IF spec.word = "common" THEN "" ELSE spec.word>>
  <2> HIDE DEF e
  <2> QED
    BY <1>5 DEF EntryName
<1> QED
  BY <1>3, <1>4, <1>5, <1>6 DEF file

\* A name stands for one image.
LEMMA NamesApart ==
  ASSUME Ready, NEW rs \in Meant, NEW rt \in Meant, NameMeant(rs[1], rs[2]) = NameMeant(rt[1], rt[2])
  PROVE  rs[1] = rt[1] /\ ImageMeant(rs[1], rs[2]) = ImageMeant(rt[1], rt[2])
<1> DEFINE modeOf(row, s) == OpMode(row, IF row.board THEN s ELSE Fuse[s])
<1>1. PICK i \in DOMAIN Table : rs[1] = Table[i] /\ InPackage(Table[i])
  BY DEF Meant
<1>2. PICK j \in DOMAIN Table : rt[1] = Table[j] /\ InPackage(Table[j])
  BY DEF Meant
<1>3. rs[2] \in Done /\ rt[2] \in Done
  BY DoneWhenReady DEF Meant
<1>4. /\ Table[i].name.word = Table[j].name.word
      /\ OpStr(modeOf(Table[i], rs[2])) = OpStr(modeOf(Table[j], rt[2]))
      /\ (IF Table[i].board THEN rs[2] ELSE "") = (IF Table[j].board THEN rt[2] ELSE "")
  BY <1>1, <1>2 DEF NameMeant
<1>5. i = j
  BY <1>1, <1>2, <1>4, TableAssumption
<1> DEFINE row == Table[i]
<1>6. SharedBy(row, rs[2]) = SharedBy(row, rt[2])
  <2>1. CASE row.board
    BY <1>4, <1>5, <2>1
  <2>2. CASE ~row.board /\ row.mode
    <3> DEFINE f == Fuse[rs[2]]
               g == Fuse[rt[2]]
    <3>1. f \in Fuses /\ g \in Fuses /\ f \notin Specs /\ g \notin Specs
      BY <1>3, DoneWhenReady, SpecsAssumption DEF Fuses
    <3>2. OpMode(row, f) = (IF f = "production" THEN 2 ELSE 1) /\ OpMode(row, g) = (IF g = "production" THEN 2 ELSE 1)
      BY <2>2, <3>1 DEF OpMode
    <3>3. OpStr(OpMode(row, f)) = OpStr(OpMode(row, g))
      BY <1>4, <1>5, <2>2
    <3> HIDE DEF f, g, row
    <3>4. f = "production" <=> g = "production"
      BY <3>2, <3>3 DEF OpStr
    <3>5. f = g
      BY <3>1, <3>4, SpecsAssumption
    <3> QED
      BY <2>2, <3>5 DEF SharedBy, f, g
  <2>3. CASE ~row.board /\ ~row.mode
    BY <2>3 DEF SharedBy
  <2> QED
    BY <2>1, <2>2, <2>3
<1>7. Latest(row, rs[2]) = Latest(row, rt[2])
  BY <1>6 DEF Latest, LastBuilt
<1> QED
  BY <1>1, <1>2, <1>5, <1>7 DEF ImageMeant

LEMMA ExtractedIsMeant ==
  ASSUME Ready, NEW list, list = EntryListFor("bl_and_kernel"), Packable(list), NEW blob, blob = GenerateBup(list, rollback),
         NEW got, got = ExtractBinaries(blob, {"all"}), NEW names, names = {NameMeant(rs[1], rs[2]) : rs \in Meant}
  PROVE  /\ DOMAIN got \subseteq names
         /\ ~Limited(blob) => DOMAIN got = names
         /\ \A rs \in Meant : NameMeant(rs[1], rs[2]) \in DOMAIN got => got[NameMeant(rs[1], rs[2])] = FileOf(ImageMeant(rs[1], rs[2]))
<1>1. /\ list \in Seq(Entries(CellsOf, WordsOf)) /\ Len(list) \in Nat /\ DOMAIN list = 1..Len(list)
      /\ \A i \in DOMAIN list : \E rs \in Meant : list[i] = EntryMeant(rs[1], rs[2])
      /\ \A rs \in Meant : \E i \in DOMAIN list : list[i] = EntryMeant(rs[1], rs[2])
  <2>1. list \in Seq(Entries(CellsOf, WordsOf))
    BY PackageListMeant DEF Packed
  <2> QED
    BY <2>1, PackageListMeant
<1>2. Len(rollback) \in Nat
  <2>1. rollback = RollbackBin(Levels)
    BY DEF Ready, FreshInv
  <2> DEFINE b(i) == IF i <= LevelsRead(Levels) THEN Levels[LevelNames[i]] ELSE 0
  <2>2. rollback = [i \in 1..8 |-> b(i)]
    BY <2>1 DEF RollbackBin, AccessoryLen
  <2> HIDE DEF b
  <2> QED
    BY <2>2
<1>3. Extracts(got, list)
  BY <1>1, <1>2, UnpackGivesPacked
<1>4. LookedAt(list) \in Nat /\ LookedAt(list) <= Len(list) /\ (~Limited(blob) => LookedAt(list) = Len(list))
  <2>1. LookedAt(list) \in Nat /\ LookedAt(list) <= Len(list) /\ (Limited(blob) <=> Len(list) > MaxEntries)
    BY <1>1, LookedAtOf
  <2> QED
    BY <2>1 DEF LookedAt
<1>5. DOMAIN got = {EntryName(list[i]) : i \in 1..LookedAt(list)}
  BY <1>3 DEF Extracts
<1>6. DOMAIN got \subseteq names
  <2>1. ASSUME NEW i \in 1..LookedAt(list) PROVE EntryName(list[i]) \in names
    <3>1. i \in DOMAIN list
      BY <1>1, <1>4
    <3>2. PICK rs \in Meant : list[i] = EntryMeant(rs[1], rs[2])
      BY <1>1, <3>1
    <3>3. EntryName(list[i]) = NameMeant(rs[1], rs[2])
      BY <3>2, EntryMeantIs
    <3> QED
      BY <3>3
  <2> QED
    BY <1>5, <2>1
<1>7. ASSUME ~Limited(blob), NEW rs \in Meant PROVE NameMeant(rs[1], rs[2]) \in DOMAIN got
  <2>1. PICK i \in DOMAIN list : list[i] = EntryMeant(rs[1], rs[2])
    BY <1>1
  <2>2. i \in 1..LookedAt(list)
    BY <1>1, <1>4, <1>7
  <2>3. EntryName(list[i]) = NameMeant(rs[1], rs[2])
    BY <2>1, EntryMeantIs
  <2> QED
    BY <1>5, <2>2, <2>3
<1>8. ASSUME NEW rs \in Meant, NameMeant(rs[1], rs[2]) \in DOMAIN got
      PROVE  got[NameMeant(rs[1], rs[2])] = FileOf(ImageMeant(rs[1], rs[2]))
  <2> DEFINE name == NameMeant(rs[1], rs[2])
  <2>1. name \in DOMAIN got
    BY <1>8
  <2> HIDE DEF name
  <2>2. PICK i \in 1..LookedAt(list) : EntryName(list[i]) = name /\ got[name] = list[i].file
    BY <1>3, <2>1 DEF Extracts
  <2>3. i \in DOMAIN list
    BY <1>1, <1>4
  <2>4. PICK rt \in Meant : list[i] = EntryMeant(rt[1], rt[2])
    BY <1>1, <2>3
  <2>5. NameMeant(rt[1], rt[2]) = name /\ list[i].file = FileOf(ImageMeant(rt[1], rt[2]))
    BY <2>2, <2>4, EntryMeantIs
  <2>6. ImageMeant(rs[1], rs[2]) = ImageMeant(rt[1], rt[2])
    BY <2>5, NamesApart DEF name
  <2> QED
    BY <2>2, <2>5, <2>6 DEF name
<1> QED
  BY <1>6, <1>7, <1>8

\* A row of the boards that has an image for s.
BoardRow(j, s) == j \in DOMAIN Table /\ Table[j].board /\ InPackage(Table[j]) /\ Table[j].part \in Layout[s]

LEMMA BoardRowIsMeant ==
  ASSUME Ready, NEW j \in DOMAIN Table, NEW s, Table[j].board
  PROVE  <<Table[j], s>> \in Meant <=> s \in Done /\ BoardRow(j, s)
<1> DEFINE row == Table[j]
<1>1. ASSUME s \in Done PROVE SharedBy(row, s) = {s} /\ Latest(row, s) = s
  <2>1. SharedBy(row, s) = {s}
    BY DEF SharedBy
  <2>2. made[s] <= made[s]
    BY <1>1, DoneWhenReady
  <2> HIDE DEF row
  <2> QED
    BY <1>1, <2>1, <2>2, LatestIs
<1>2. <<row, s>> \in Meant <=> InPackage(row) /\ s \in MeantOf(row)
  BY DEF MeantOf, Meant
<1>3. InPackage(row) => (s \in MeantOf(row) <=> s \in Done /\ row.part \in Layout[s])
  BY <1>1, MeantOfIs, DoneWhenReady
<1> QED
  BY <1>2, <1>3 DEF BoardRow

LEMMA SpecificEntries ==
  ASSUME Ready, NEW list, list = EntryListFor("bl_and_kernel"), Packable(list), NEW blob, blob = GenerateBup(list, rollback),
         ~Limited(blob)
  PROVE  /\ \A i \in Specific(blob) : blob.table[i].spec \in Done /\
               \E j \in DOMAIN Table : BoardRow(j, blob.table[i].spec) /\ blob.table[i].part = Table[j].name.word
         /\ \A s \in Done, j \in DOMAIN Table : BoardRow(j, s) =>
               \E i \in Specific(blob) : blob.table[i].spec = s /\ blob.table[i].part = Table[j].name.word
<1>1. /\ list \in Seq(Entries(CellsOf, WordsOf)) /\ Len(list) \in Nat /\ DOMAIN list = 1..Len(list)
      /\ \A i \in DOMAIN list : \E rs \in Meant : list[i] = EntryMeant(rs[1], rs[2])
      /\ \A rs \in Meant : \E i \in DOMAIN list : list[i] = EntryMeant(rs[1], rs[2])
  <2>1. list \in Seq(Entries(CellsOf, WordsOf))
    BY PackageListMeant DEF Packed
  <2> QED
    BY <2>1, PackageListMeant
<1>2. DOMAIN EntryList(blob) = 1..Len(list)
  <2>1. DOMAIN EntryList(blob) = 1..LookedAt(list) /\ (Limited(blob) <=> Len(list) > MaxEntries)
    BY <1>1, LookedAtOf
  <2> QED
    BY <2>1 DEF LookedAt
<1>3. TableIs(blob, list, rollback)
  BY <1>1, TableOf
<1>4. ASSUME NEW i \in DOMAIN list, NEW rs \in Meant, list[i] = EntryMeant(rs[1], rs[2])
      PROVE  blob.table[i].part = rs[1].name.word /\ blob.table[i].spec = IF rs[1].board THEN rs[2] ELSE ""
  <2>1. EntryName(list[i]) = NameMeant(rs[1], rs[2])
    BY <1>4, EntryMeantIs
  <2>2. /\ list[i].part.word = rs[1].name.word
        /\ (IF list[i].spec.word = "common" THEN "" ELSE list[i].spec.word) = IF rs[1].board THEN rs[2] ELSE ""
    BY <2>1 DEF EntryName, NameMeant
  <2>3. /\ blob.table[i].part = list[i].part.word
        /\ blob.table[i].spec = IF list[i].spec.word = "common" THEN "" ELSE list[i].spec.word
    BY <1>1, <1>3 DEF TableIs
  <2> QED
    BY <2>2, <2>3
<1>5. Specific(blob) = {i \in DOMAIN list : blob.table[i].spec # ""}
  BY <1>1, <1>2 DEF Specific
<1>6. ASSUME NEW i \in Specific(blob)
      PROVE  blob.table[i].spec \in Done /\
               \E j \in DOMAIN Table : BoardRow(j, blob.table[i].spec) /\ blob.table[i].part = Table[j].name.word
  <2>1. i \in DOMAIN list /\ blob.table[i].spec # ""
    BY <1>5
  <2>2. PICK rs \in Meant : list[i] = EntryMeant(rs[1], rs[2])
    BY <1>1, <2>1
  <2>3. blob.table[i].part = rs[1].name.word /\ rs[1].board /\ blob.table[i].spec = rs[2]
    BY <1>4, <2>1, <2>2
  <2>4. PICK j \in DOMAIN Table : rs[1] = Table[j]
    BY DEF Meant
  <2>5. rs = <<Table[j], rs[2]>>
    BY <2>4 DEF Meant
  <2>6. rs[2] \in Done /\ BoardRow(j, rs[2])
    BY <2>3, <2>4, <2>5, BoardRowIsMeant
  <2> QED
    BY <2>3, <2>4, <2>6
<1>7. ASSUME NEW s \in Done, NEW j \in DOMAIN Table, BoardRow(j, s)
      PROVE  \E i \in Specific(blob) : blob.table[i].spec = s /\ blob.table[i].part = Table[j].name.word
  <2> DEFINE rs == <<Table[j], s>>
  <2>1. rs \in Meant /\ rs[1] = Table[j] /\ rs[2] = s /\ Table[j].board
    BY <1>7, BoardRowIsMeant DEF BoardRow
  <2>2. PICK i \in DOMAIN list : list[i] = EntryMeant(rs[1], rs[2])
    BY <1>1, <2>1
  <2>3. blob.table[i].part = rs[1].name.word /\ blob.table[i].spec = IF rs[1].board THEN rs[2] ELSE ""
    BY <1>4, <2>1, <2>2
  <2>4. s # ""
    BY DoneWhenReady, SpecsAssumption
  <2> QED
    BY <1>5, <2>1, <2>3, <2>4
<1> QED
  BY <1>6, <1>7

LEMMA CheckedIsMeant ==
  ASSUME Ready, NEW list, list = EntryListFor("bl_and_kernel"), Packable(list), NEW blob, blob = GenerateBup(list, rollback),
         ~Limited(blob)
  PROVE  CheckEntryTable(blob) <=> \A s, t \in Range(session.specs) : BoardParts(s) = BoardParts(t)
<1>1. \A i \in Specific(blob) : blob.table[i].spec \in Done /\
            \E j \in DOMAIN Table : BoardRow(j, blob.table[i].spec) /\ blob.table[i].part = Table[j].name.word
  BY SpecificEntries
<1>2. \A s \in Done, j \in DOMAIN Table : BoardRow(j, s) =>
            \E i \in Specific(blob) : blob.table[i].spec = s /\ blob.table[i].part = Table[j].name.word
  BY SpecificEntries
<1>3. ASSUME NEW s PROVE BoardParts(s) = {Table[j].part : j \in {i \in DOMAIN Table : BoardRow(i, s)}}
  BY DEF BoardParts, BoardRow
<1>4. Done = Range(session.specs) /\ Done \subseteq Specs
  BY DoneWhenReady
<1>5. ASSUME CheckEntryTable(blob), NEW s \in Done, NEW t \in Done PROVE BoardParts(s) \subseteq BoardParts(t)
  <2>1. SUFFICES ASSUME NEW j \in DOMAIN Table, BoardRow(j, s) PROVE Table[j].part \in BoardParts(t)
    BY <1>3
  <2> DEFINE part == Table[j].name.word
  <2>2. PICK i \in Specific(blob) : blob.table[i].spec = s /\ blob.table[i].part = part
    BY <1>2, <2>1
  <2>3. part \in SpecificParts(blob)
    BY <2>2 DEF SpecificParts
  <2>4. t \in SpecsOf(blob)
    <3>1. BoardParts(t) # {}
      BY <1>4, BoardPartsAssumption
    <3>2. PICK h \in DOMAIN Table : BoardRow(h, t)
      BY <1>3, <3>1
    <3>3. PICK l \in Specific(blob) : blob.table[l].spec = t
      BY <1>2, <3>2
    <3> QED
      BY <3>3 DEF SpecsOf
  <2> HIDE DEF part
  <2>5. PICK l \in Specific(blob) : blob.table[l].part = part /\ blob.table[l].spec = t
    BY <1>5, <2>3, <2>4 DEF CheckEntryTable
  <2>6. PICK h \in DOMAIN Table : BoardRow(h, t) /\ part = Table[h].name.word
    BY <1>1, <2>5
  <2>7. h = j
    BY <2>1, <2>6, TableAssumption DEF part, BoardRow
  <2> QED
    BY <1>3, <2>6, <2>7
<1>6. ASSUME \A s, t \in Done : BoardParts(s) = BoardParts(t) PROVE CheckEntryTable(blob)
  <2> SUFFICES ASSUME NEW part \in SpecificParts(blob), NEW spec \in SpecsOf(blob)
               PROVE  \E h \in Specific(blob) : blob.table[h].part = part /\ blob.table[h].spec = spec
    BY DEF CheckEntryTable
  <2>1. PICK i \in Specific(blob) : part = blob.table[i].part
    BY DEF SpecificParts
  <2>6. PICK l \in Specific(blob) : spec = blob.table[l].spec
    BY DEF SpecsOf
  <2> DEFINE s == blob.table[i].spec
             t == blob.table[l].spec
  <2>2. PICK j \in DOMAIN Table : BoardRow(j, s) /\ blob.table[i].part = Table[j].name.word
    BY <1>1
  <2>3. s \in Done /\ t \in Done
    BY <1>1
  <2> HIDE DEF s, t
  <2>4. Table[j].part \in BoardParts(t)
    BY <1>3, <1>6, <2>2, <2>3
  <2>5. BoardRow(j, t)
    BY <1>3, <2>2, <2>4 DEF BoardRow
  <2> QED
    BY <1>2, <2>1, <2>2, <2>3, <2>5, <2>6 DEF t
<1>7. ASSUME CheckEntryTable(blob), NEW s \in Done, NEW t \in Done PROVE BoardParts(s) = BoardParts(t)
  BY <1>5, <1>7
<1> QED
  BY <1>4, <1>6, <1>7

\* A package made of what is there when the last configuration is done is whole.
LEMMA PackedIsWhole ==
  ASSUME Ready, Packable(EntryListFor("bl_and_kernel"))
  PROVE  IsWhole(GenerateBup(EntryListFor("bl_and_kernel"), rollback))
<1> DEFINE list == EntryListFor("bl_and_kernel")
           blob == GenerateBup(list, rollback)
           got == ExtractBinaries(blob, {"all"})
           names == {NameMeant(rs[1], rs[2]) : rs \in Meant}
<1>1. blob.accessory = RollbackBin(Levels)
  <2>1. rollback = RollbackBin(Levels)
    BY DEF Ready, FreshInv
  <2> HIDE DEF list, blob
  <2>2. blob.accessory = rollback
    BY BlobOf DEF blob
  <2> QED
    BY <2>1, <2>2
<1>2. ~Limited(blob) => (CheckEntryTable(blob) <=> \A s, t \in Range(session.specs) : BoardParts(s) = BoardParts(t))
  BY CheckedIsMeant
<1>3. /\ DOMAIN got \subseteq names
      /\ ~Limited(blob) => DOMAIN got = names
      /\ \A rs \in Meant : NameMeant(rs[1], rs[2]) \in DOMAIN got => got[NameMeant(rs[1], rs[2])] = FileOf(ImageMeant(rs[1], rs[2]))
  BY ExtractedIsMeant
<1> HIDE DEF list, blob
<1> QED
  BY <1>1, <1>2, <1>3 DEF IsWhole, blob, list

-----------------------------------------------------------------------------
(* The steps.                                                              *)

LEMMA NoImagesType == NoImages \in [Parts -> Images] /\ NoMulti \in [Keys -> Images]
BY DEF NoImages, NoMulti, Images

LEMMA BuiltType ==
  ASSUME NEW s \in Specs, NEW build \in Nat, NEW dir \in [Parts -> Images]
  PROVE  Built(s, build, dir) \in [Parts -> Images]
<1>1. \A p \in Parts : Image(p, s, build) \in Images
  BY DEF Image, Images
<1>2. \A p \in Parts : dir[p] \in Images
  OBVIOUS
<1> QED
  BY <1>1, <1>2 DEF Built

\* After a configuration comes the next one, or the end.
LEMMA NextConfigStep ==
  ASSUME TypeInv, NextConfig
  PROVE  /\ session' = session /\ status' = status /\ session' \in Sessions /\ at' \in 1..Len(session'.specs)
         /\ pc' \in {"sign", "tidy", "report"}
         /\ pc' = "sign" => at' = at + 1 /\ session.kind = "soc"
         /\ pc' # "sign" => at' = at /\ (session.kind # "soc" \/ at = Len(session.specs))
         /\ pc' = "tidy" => session.kind = "soc"
<1>1. session \in Sessions /\ at \in 1..Len(session.specs) /\ Len(session.specs) \in Nat
  BY ConfigType DEF TypeInv
<1>2. /\ pc' = After /\ at' = IF After = "sign" THEN at + 1 ELSE at
      /\ session' = session /\ status' = status
  BY DEF NextConfig
<1>3. CASE session.kind # "soc"
  <2>1. After = "report"
    BY <1>3 DEF After
  <2> QED
    BY <1>1, <1>2, <1>3, <2>1
<1>4. CASE session.kind = "soc" /\ at < Len(session.specs)
  <2>1. After = "sign"
    BY <1>4 DEF After
  <2>2. at + 1 \in 1..Len(session.specs)
    BY <1>1, <1>4
  <2> QED
    BY <1>1, <1>2, <1>4, <2>1, <2>2
<1>5. CASE session.kind = "soc" /\ ~(at < Len(session.specs))
  <2>1. After \in {"report", "tidy"}
    BY <1>5 DEF After
  <2>2. at = Len(session.specs)
    BY <1>1, <1>5
  <2> QED
    BY <1>1, <1>2, <1>5, <2>1, <2>2
<1> QED
  BY <1>3, <1>4, <1>5

LEMMA TypeStep == TypeInv /\ [Next]_vars => TypeInv'
<1> SUFFICES ASSUME TypeInv, [Next]_vars PROVE TypeInv'
  OBVIOUS
<1> USE DEF TypeInv
<1>1. ASSUME NEW s \in Sessions, Invoke(s) PROVE TypeInv'
  <2>1. Len(s.specs) \in Nat /\ 1 \in 1..Len(s.specs)
    BY SessionsAssumption
  <2>2. made' \in [Specs -> 0..builds']
    BY <1>1 DEF Invoke
  <2>3. pc' \in {"clean", "sign"}
    BY <1>1 DEF Invoke
  <2> QED
    BY <1>1, <2>1, <2>2, <2>3 DEF Invoke, files
<1>2. ASSUME CleanUp \/ TidyUp PROVE TypeInv'
  <2>1. /\ pc' \in {"sign", "report"} /\ UNCHANGED <<session, at, made, builds>>
        /\ (Cleaned /\ UNCHANGED failed) \/ (failed' = TRUE /\ UNCHANGED files)
    BY <1>2 DEF CleanUp, TidyUp, Stays
  <2>2. CASE Cleaned /\ UNCHANGED failed
    BY <2>1, <2>2, NoImagesType DEF Cleaned
  <2>3. CASE failed' = TRUE /\ UNCHANGED files
    BY <2>1, <2>3 DEF files
  <2> QED
    BY <2>1, <2>2, <2>3
<1>3. ASSUME SignImages PROVE TypeInv'
  <2>1. Config \in Specs /\ builds' = builds + 1 /\ builds' \in Nat
    BY <1>3, ConfigType DEF SignImages
  <2>2. out' \in [Parts -> Images]
    BY <1>3, <2>1, BuiltType DEF SignImages
  <2>3. multi' \in [Keys -> Images]
    BY <1>3, NoImagesType DEF SignImages
  <2>4. Built(Config, builds', signed) \in [Parts -> Images]
    BY <2>1, BuiltType
  <2>5. /\ signed' \in [Parts -> Images]
        /\ made' = made \/ made' = [made EXCEPT ![Config] = builds']
        /\ \/ pc' = "copy" /\ UNCHANGED <<session, at, failed>>
           \/ failed' = TRUE /\ NextConfig
    BY <1>3, <2>4 DEF SignImages, Stays, ConfigFails
  <2>6. made' \in [Specs -> 0..builds']
    BY <2>1, <2>5
  <2>7. session' \in Sessions /\ at' \in 1..Len(session'.specs) /\ failed' \in BOOLEAN /\ pc' \in {"copy", "sign", "tidy", "report"}
    BY <2>5, NextConfigStep
  <2> QED
    BY <2>1, <2>2, <2>3, <2>5, <2>6, <2>7
<1>4. ASSUME CopyImages PROVE TypeInv'
  <2>1. Len(Table) \in Nat
    BY TableAssumption
  <2>2. PICK n \in 0..Len(Table) : multi' = CopyMultiImages(n)
    BY <1>4, <2>1 DEF CopyImages
  <2>3. multi' \in [Keys -> Images]
    BY <2>2, RowsCopied DEF AfterRows
  <2>4. UNCHANGED <<out, signed, made, builds>> /\ ((pc' = "generate" /\ UNCHANGED <<session, at, failed>>) \/ (failed' = TRUE /\ NextConfig))
    BY <1>4 DEF CopyImages, Stays, ConfigFails
  <2>5. session' \in Sessions /\ at' \in 1..Len(session'.specs) /\ failed' \in BOOLEAN /\ pc' \in {"generate", "sign", "tidy", "report"}
    BY <2>4, NextConfigStep
  <2> QED
    BY <2>3, <2>4, <2>5
<1>5. ASSUME GeneratePayloads PROVE TypeInv'
  <2>1. UNCHANGED <<out, signed, multi, made, builds>> /\ NextConfig /\ failed' \in BOOLEAN
    BY <1>5 DEF GeneratePayloads, ConfigFails
  <2>2. session' \in Sessions /\ at' \in 1..Len(session'.specs) /\ pc' \in {"sign", "tidy", "report"}
    BY <2>1, NextConfigStep
  <2> QED
    BY <2>1, <2>2
<1>6. ASSUME Report \/ Kill PROVE TypeInv'
  BY <1>6 DEF Report, Kill, Ended, files
<1>7. ASSUME UNCHANGED vars PROVE TypeInv'
  BY <1>7 DEF vars, files
<1> HIDE DEF TypeInv
<1> QED
  BY <1>1, <1>2, <1>3, <1>4, <1>5, <1>6, <1>7 DEF Next

\* What a step makes of the configurations that are built.
LEMMA DoneStarts == ASSUME at' = 1, pc' \in {"clean", "sign"} PROVE Done' = {}
<1>1. {j \in 1..at' : j < at' \/ pc' \notin {"clean", "sign"}} = {}
  OBVIOUS
<1> QED
  BY <1>1 DEF Done

LEMMA DoneGrows ==
  ASSUME TypeInv, pc = "sign", pc' \notin {"clean", "sign"}, UNCHANGED <<session, at>>
  PROVE  Done' = Done \cup {Config}
<1>1. at \in Nat /\ at \in 1..at
  BY ConfigType DEF TypeInv
<1>2. {j \in 1..at' : j < at' \/ pc' \notin {"clean", "sign"}} = {j \in 1..at : j < at \/ pc \notin {"clean", "sign"}} \cup {at}
  BY <1>1
<1> QED
  BY <1>2 DEF Done, Config

LEMMA DoneStays ==
  ASSUME TypeInv, UNCHANGED session, pc \notin {"clean", "sign"},
         (pc' = "sign" /\ at' = at + 1) \/ (pc' \notin {"clean", "sign"} /\ at' = at)
  PROVE  Done' = Done
<1>1. at \in Nat
  BY ConfigType
<1>2. {j \in 1..at' : j < at' \/ pc' \notin {"clean", "sign"}} = {j \in 1..at : j < at \/ pc \notin {"clean", "sign"}}
  BY <1>1
<1> QED
  BY <1>2 DEF Done

LEMMA RightStays ==
  ASSUME NEW k, Right(k), Having(k)' = Having(k), \A s \in Having(k) : made'[s] = made[s], multi'[k] = multi[k]
  PROVE  Right(k)'
<1>1. CASE Having(k) = {} /\ multi[k] = Nothing
  BY <1>1 DEF Right
<1>2. CASE \E x \in Having(k) : (\A y \in Having(k) : made[y] <= made[x]) /\ multi[k] = Image(k[2], x, made[x])
  <2>1. PICK x \in Having(k) : (\A y \in Having(k) : made[y] <= made[x]) /\ multi[k] = Image(k[2], x, made[x])
    BY <1>2
  <2>2. /\ x \in Having(k)' /\ \A y \in Having(k)' : made'[y] <= made'[x]
        /\ multi'[k] = Image(k[2], x, made'[x])
    BY <2>1
  <2> QED
    BY <2>2 DEF Right
<1> QED
  BY <1>1, <1>2 DEF Right

\* What is whole stays whole while the session, its builds and the payloads stay.
LEMMA WholeFrom ==
  ASSUME NEW blob, IsWhole(blob), payload'["bl_and_kernel"] = blob, UNCHANGED <<session, made>>
  PROVE  IsWhole(payload["bl_and_kernel"])'
<1>1. ASSUME NEW row, NEW s PROVE SharedBy(row, s)' = SharedBy(row, s)
  BY DEF SharedBy
<1>2. ASSUME NEW row, NEW s PROVE Latest(row, s)' = Latest(row, s) /\ ImageMeant(row, s)' = ImageMeant(row, s)
  <2>1. Latest(row, s)' = Latest(row, s)
    BY <1>1 DEF Latest
  <2> QED
    BY <2>1 DEF ImageMeant
<1>3. Meant' = Meant
  BY <1>1, <1>2 DEF Meant
<1> QED
  BY <1>2, <1>3 DEF IsWhole

IndInv == TypeInv /\ StageInv /\ MadeInv /\ FreshInv /\ MultiInv /\ PackageInv

\* The invariants say nothing about a session with a failure before its end.
LEMMA FailedStep ==
  ASSUME failed' = TRUE, pc' # "idle"
  PROVE  MadeInv' /\ FreshInv' /\ MultiInv' /\ PackageInv'
<1>1. ~Counts'
  BY DEF Counts
<1> QED
  BY <1>1 DEF MadeInv, FreshInv, MultiInv, PackageInv

LEMMA StageStep == TypeInv /\ StageInv /\ [Next]_vars => StageInv'
<1> SUFFICES ASSUME TypeInv, StageInv, [Next]_vars PROVE StageInv'
  OBVIOUS
<1>1. ASSUME NEW s \in Sessions, Invoke(s) PROVE StageInv'
  BY <1>1 DEF Invoke, StageInv
<1>2. ASSUME CleanUp \/ TidyUp PROVE StageInv'
  BY <1>2 DEF CleanUp, TidyUp, Stays, StageInv
<1>3. ASSUME (pc' \in {"copy", "generate"}) \/ NextConfig PROVE StageInv'
  BY <1>3, NextConfigStep DEF StageInv
<1>4. ASSUME SignImages \/ CopyImages \/ GeneratePayloads PROVE (pc' \in {"copy", "generate"}) \/ NextConfig
  BY <1>4 DEF SignImages, CopyImages, GeneratePayloads, ConfigFails
<1>5. ASSUME Report \/ Kill PROVE StageInv'
  BY <1>5 DEF Report, Kill, Ended, StageInv
<1>6. ASSUME UNCHANGED vars PROVE StageInv'
  BY <1>6 DEF vars, StageInv
<1> QED
  BY <1>1, <1>2, <1>3, <1>4, <1>5, <1>6 DEF Next

LEMMA InvokeStep ==
  ASSUME IndInv, NEW s \in Sessions, Invoke(s)
  PROVE  MadeInv' /\ FreshInv' /\ MultiInv' /\ PackageInv'
<1>1. session' = s /\ at' = 1 /\ pc' = (IF s.kind = "soc" THEN "clean" ELSE "sign")
  BY DEF Invoke
<1>2. Done' = {} /\ pc' \in {"clean", "sign"}
  BY <1>1, DoneStarts
<1>3. Counts' /\ pc' = "sign" => session'.kind = "one"
  BY <1>1, SessionsAssumption DEF Counts
<1> QED
  BY <1>2, <1>3 DEF MadeInv, FreshInv, MultiInv, PackageInv

LEMMA CleanUpStep ==
  ASSUME IndInv, CleanUp
  PROVE  MadeInv' /\ FreshInv' /\ MultiInv' /\ PackageInv'
<1>1. CASE failed' = TRUE
  BY <1>1, FailedStep DEF CleanUp
<1>2. CASE Cleaned
  <2>1. pc' = "sign" /\ at' = 1 /\ multi' = NoMulti
    BY <1>2 DEF CleanUp, Stays, IndInv, StageInv, Cleaned
  <2>2. Done' = {}
    BY <2>1, DoneStarts
  <2>3. ASSUME NEW k \in Keys PROVE Right(k)'
    <3>1. Having(k)' = {}
      BY <2>2 DEF Having
    <3> QED
      BY <2>1, <3>1 DEF Right, NoMulti
  <2> QED
    BY <2>1, <2>2, <2>3 DEF MadeInv, FreshInv, MultiInv, PackageInv
<1> QED
  BY <1>1, <1>2 DEF CleanUp

\* The images signed are the youngest; what they replace is not looked at yet.
LEMMA SignStep ==
  ASSUME IndInv, SignImages
  PROVE  MadeInv' /\ FreshInv' /\ MultiInv' /\ PackageInv'
<1>1. CASE ConfigFails
  BY <1>1, FailedStep, NextConfigStep DEF ConfigFails, IndInv
<1>2. CASE /\ signed' = Built(Config, builds', signed) /\ idx' = Config
           /\ made' = [made EXCEPT ![Config] = builds']
           /\ pc' = "copy" /\ UNCHANGED <<session, at, failed>>
  <2>1. TypeInv /\ pc = "sign" /\ builds' = builds + 1 /\ out' = Built(Config, builds', out) /\ rollback' = RollbackBin(Levels)
    BY DEF SignImages, IndInv
  <2>2. Config \in Specs /\ Config' = Config /\ Counts' = Counts
    BY <1>2, <2>1, ConfigType DEF Config, Counts
  <2>3. Done' = Done \cup {Config} /\ Done \subseteq Specs
    <3>1. Done' = Done \cup {Config}
      BY <1>2, <2>1, DoneGrows
    <3>2. session.specs \in Seq(Specs) /\ at \in 1..Len(session.specs) /\ Len(session.specs) \in Nat
      BY <2>1, ConfigType DEF TypeInv
    <3>3. \A j \in 1..at : session.specs[j] \in Specs
      BY <3>2
    <3> QED
      BY <3>1, <3>3 DEF Done
  <2>4. /\ builds \in Nat /\ \A s \in Specs : made[s] \in 0..builds
        /\ made'[Config] = builds + 1 /\ \A s \in Specs \ {Config} : made'[s] = made[s]
    BY <1>2, <2>1, <2>2 DEF TypeInv
  <2>5. MadeInv'
    <3> SUFFICES ASSUME Counts PROVE MadeInv'
      BY <2>2 DEF MadeInv
    <3>1. (\A s \in Done : made[s] > 0) /\ (\A s, t \in Done : made[s] = made[t] => s = t)
      BY <2>1 DEF MadeInv, IndInv
    <3>2. \A s \in Done' : made'[s] > 0
      BY <2>2, <2>3, <2>4, <3>1
    <3>3. ASSUME NEW s \in Done', NEW t \in Done', made'[s] = made'[t] PROVE s = t
      BY <2>2, <2>3, <2>4, <3>1, <3>3
    <3>4. \A s \in Specs \ {Config} : made'[s] < made'[Config]
      BY <2>2, <2>4
    <3> QED
      BY <2>2, <3>2, <3>3, <3>4 DEF MadeInv
  <2>6. FreshInv'
    <3>1. ASSUME NEW p \in Parts, p \in Layout[Config]
          PROVE  signed'[p] = Image(p, Config, made'[Config]) /\ out'[p] = Image(p, Config, made'[Config])
      BY <1>2, <2>1, <2>4, <3>1 DEF Built
    <3> QED
      BY <1>2, <2>1, <2>2, <3>1 DEF FreshInv
  <2>7. MultiInv'
    <3> SUFFICES ASSUME Counts, NEW k \in Keys, k \notin CopiedOf(Config) PROVE Right(k)'
      BY <1>2, <2>2 DEF MultiInv
    <3>1. Having(k)' = Having(k) /\ Config \notin Having(k) /\ Having(k) \subseteq Specs
      BY <2>3 DEF Having
    <3>2. CASE session.kind = "one"
      <4>1. multi' = NoMulti /\ at = 1
        <5>1. session \in Sessions /\ at \in 1..Len(session.specs)
          BY <2>1 DEF TypeInv
        <5>2. Len(session.specs) = 1
          BY <3>2, <5>1, SessionsAssumption
        <5> QED
          BY <3>2, <5>1, <5>2 DEF SignImages
      <4>2. Having(k) = {}
        BY <2>1, <4>1 DEF Done, Having
      <4> QED
        BY <3>1, <4>1, <4>2 DEF Right, NoMulti
    <3>3. CASE session.kind # "one"
      <4>1. multi' = multi
        BY <3>3 DEF SignImages
      <4>2. Right(k)
        BY <2>1, <3>3 DEF MultiInv, IndInv
      <4>3. \A s \in Having(k) : made'[s] = made[s]
        BY <2>4, <3>1
      <4> QED
        BY <3>1, <4>1, <4>2, <4>3, RightStays
    <3> QED
      BY <3>2, <3>3
  <2> QED
    BY <1>2, <2>5, <2>6, <2>7 DEF PackageInv
<1> QED
  BY <1>1, <1>2 DEF SignImages, Stays

\* The loop puts the configuration's images under its names and nothing else.
LEMMA CopyStep ==
  ASSUME IndInv, CopyImages
  PROVE  MadeInv' /\ FreshInv' /\ MultiInv' /\ PackageInv'
<1>1. CASE ConfigFails
  BY <1>1, FailedStep, NextConfigStep DEF ConfigFails, IndInv
<1>2. CASE multi' = CopyMultiImages(Len(Table)) /\ pc' = "generate" /\ UNCHANGED <<session, at, failed>>
  <2>1. TypeInv /\ pc = "copy" /\ UNCHANGED <<out, signed, idx, rollback, made>>
    BY DEF CopyImages, IndInv
  <2>2. Config \in Specs /\ Config' = Config /\ Counts' = Counts /\ Done' = Done
    BY <1>2, <2>1, ConfigType, DoneStays DEF Config, Counts
  <2>3. MadeInv' /\ FreshInv'
    BY <1>2, <2>1, <2>2 DEF IndInv, MadeInv, FreshInv
  <2>4. ASSUME Counts, NEW k \in Keys PROVE Right(k)'
    <3>1. /\ idx = Config /\ (\A s \in Specs \ {Config} : made[s] < made[Config])
          /\ \A p \in Parts : p \in Layout[Config] => signed[p] = Image(p, Config, made[Config]) /\ out[p] = Image(p, Config, made[Config])
      BY <2>1, <2>4 DEF IndInv, MadeInv, FreshInv
    <3>2. \/ \E i \in 1..Len(Table) : Puts(i, k) /\ multi'[k] = Source(Table[i])
          \/ (\A i \in 1..Len(Table) : ~Puts(i, k)) /\ multi'[k] = multi[k]
      <4>1. Len(Table) \in 0..Len(Table)
        BY TableAssumption
      <4> QED
        BY <1>2, <2>1, <4>1, RowsCopied DEF AfterRows
    <3>3. DOMAIN Table = 1..Len(Table)
      BY TableAssumption
    <3>4. Having(k)' = Having(k)
      BY <2>2 DEF Having
    <3>5. CASE \E i \in 1..Len(Table) : Puts(i, k) /\ multi'[k] = Source(Table[i])
      <4>1. PICK i \in DOMAIN Table : Puts(i, k) /\ multi'[k] = Source(Table[i])
        BY <3>3, <3>5
      <4>2. /\ ~Table[i].skip /\ (Table[i].board \/ Table[i].mode) /\ Table[i].part \in Layout[Config]
            /\ k = <<TargetDir(Table[i], Config), Table[i].part>> /\ k[2] = Table[i].part
        BY <3>1, <4>1 DEF Puts, Copied
      <4>3. k \in CopiedOf(Config)
        BY <4>2 DEF CopiedOf
      <4>4. Config \in Done
        <5>1. at \in 1..at
          BY <2>1, ConfigType DEF TypeInv
        <5> QED
          BY <2>1, <5>1 DEF Done, Config
      <4>5. multi'[k] = Image(k[2], Config, made[Config])
        BY <3>1, <4>1, <4>2, RowType DEF Source
      <4>6. \A y \in Having(k) : made[y] <= made[Config]
        <5>1. \A y \in Done : y \in Specs
          <6>1. session.specs \in Seq(Specs) /\ at \in 1..Len(session.specs) /\ Len(session.specs) \in Nat
            BY <2>1, ConfigType DEF TypeInv
          <6>2. \A j \in 1..at : session.specs[j] \in Specs
            BY <6>1
          <6> QED
            BY <6>2 DEF Done
        <5>2. \A y \in Specs : made[y] \in Int
          BY <2>1 DEF TypeInv
        <5> QED
          BY <2>2, <3>1, <5>1, <5>2 DEF Having
      <4>7. Config \in Having(k)'
        BY <3>4, <4>3, <4>4 DEF Having
      <4> QED
        BY <2>1, <3>4, <4>5, <4>6, <4>7 DEF Right
    <3>6. CASE (\A i \in 1..Len(Table) : ~Puts(i, k)) /\ multi'[k] = multi[k]
      <4>1. k \notin CopiedOf(Config)
        <5> SUFFICES ASSUME k \in CopiedOf(Config) PROVE FALSE
          OBVIOUS
        <5>1. PICK i \in DOMAIN Table : /\ ~Table[i].skip /\ (Table[i].board \/ Table[i].mode)
                                        /\ Table[i].part \in Layout[Config]
                                        /\ k = <<TargetDir(Table[i], Config), Table[i].part>>
          BY DEF CopiedOf
        <5>2. Puts(i, k)
          BY <3>1, <5>1 DEF Puts, Copied
        <5> QED
          BY <3>3, <3>6, <5>1, <5>2
      <4>2. Right(k)
        BY <2>1, <2>4, <4>1 DEF IndInv, MultiInv
      <4> QED
        BY <2>1, <3>4, <3>6, <4>2, RightStays
    <3> QED
      BY <3>2, <3>5, <3>6
  <2>5. MultiInv'
    BY <1>2, <2>2, <2>4 DEF MultiInv
  <2> QED
    BY <1>2, <2>3, <2>5 DEF PackageInv
<1> QED
  BY <1>1, <1>2 DEF CopyImages, Stays

\* After the last configuration the package is whole.
LEMMA GenerateStep ==
  ASSUME IndInv, GeneratePayloads
  PROVE  MadeInv' /\ FreshInv' /\ MultiInv' /\ PackageInv'
<1>1. TypeInv /\ pc = "generate" /\ NextConfig /\ UNCHANGED <<multi, rollback, made>>
  BY DEF GeneratePayloads, ConfigFails, IndInv
<1>2. /\ pc' \in {"sign", "tidy", "report"} /\ UNCHANGED <<session, status>>
      /\ pc' = "sign" => at' = at + 1 /\ session.kind = "soc"
      /\ pc' # "sign" => at' = at /\ (session.kind # "soc" \/ at = Len(session.specs))
  BY <1>1, NextConfigStep
<1>3. CASE failed' = TRUE
  BY <1>2, <1>3, FailedStep
<1>4. CASE failed' # TRUE
  <2> DEFINE lists == [name \in Payloads |-> EntryListFor(name)]
             toPack == {name \in Payloads : lists[name] # <<>>}
             packable == {name \in toPack : Packable(lists[name])}
             packed(names) == [name \in Payloads |-> IF name \in names THEN GenerateBup(lists[name], rollback) ELSE payload[name]]
  <2>1. packable = toPack /\ payload' = packed(toPack) /\ failed' = failed
    BY <1>4 DEF GeneratePayloads, ConfigFails
  <2>2. Counts' = Counts
    BY <1>2, <2>1 DEF Counts
  <2>3. Done' = Done
    BY <1>1, <1>2, DoneStays
  <2>4. MadeInv' /\ FreshInv'
    BY <1>1, <1>2, <2>2, <2>3 DEF IndInv, MadeInv, FreshInv
  <2>5. MultiInv'
    <3> SUFFICES ASSUME Counts, NEW k \in Keys PROVE Right(k)'
      BY <1>2, <2>2 DEF MultiInv
    <3>1. Right(k)
      BY <1>1 DEF IndInv, MultiInv
    <3>2. Having(k)' = Having(k)
      BY <2>3 DEF Having
    <3> QED
      BY <1>1, <3>1, <3>2, RightStays
  <2>6. ASSUME Counts, pc' # "sign" PROVE IsWhole(payload["bl_and_kernel"])'
    <3> DEFINE list == EntryListFor("bl_and_kernel")
    <3>1. "bl_and_kernel" \in Payloads
      BY DEF Payloads
    <3>2. list # <<>>
      BY <1>1, PackageNotEmpty
    <3>3. "bl_and_kernel" \in toPack /\ lists["bl_and_kernel"] = list
      BY <3>1, <3>2
    <3>4. Packable(list)
      BY <2>1, <3>3
    <3>5. payload'["bl_and_kernel"] = GenerateBup(list, rollback)
      BY <2>1, <3>1, <3>3
    <3>6. Ready
      BY <1>1, <1>2, <2>6 DEF Ready, IndInv
    <3> HIDE DEF list, lists, toPack, packable, packed
    <3>7. IsWhole(GenerateBup(list, rollback))
      BY <3>4, <3>6, PackedIsWhole DEF list
    <3>8. PICK blob : blob = GenerateBup(list, rollback)
      OBVIOUS
    <3>9. IsWhole(blob) /\ payload'["bl_and_kernel"] = blob
      BY <3>5, <3>7, <3>8
    <3> QED
      BY <1>1, <1>2, <3>9, WholeFrom
  <2>7. PackageInv'
    BY <1>2, <2>2, <2>6 DEF PackageInv
  <2> QED
    BY <2>4, <2>5, <2>7
<1> QED
  BY <1>3, <1>4

\* The end takes the package as it is; a session that is killed has none.
LEMMA EndStep ==
  ASSUME IndInv, TidyUp \/ Report \/ Kill
  PROVE  MadeInv' /\ FreshInv' /\ MultiInv' /\ PackageInv'
<1>1. UNCHANGED <<session, at, made, payload>>
  BY DEF TidyUp, Report, Kill, Cleaned, Stays, files
<1>2. ASSUME IsWhole(payload["bl_and_kernel"]) PROVE IsWhole(payload["bl_and_kernel"])'
  <2>1. PICK blob : blob = payload["bl_and_kernel"]
    OBVIOUS
  <2> QED
    BY <1>1, <1>2, <2>1, WholeFrom
<1>3. CASE TidyUp
  <2>1. CASE failed' = TRUE
    BY <1>3, <2>1, FailedStep DEF TidyUp
  <2>2. CASE Cleaned /\ UNCHANGED failed
    <3>1. pc = "tidy" /\ pc' = "report" /\ Counts' = Counts
      BY <1>1, <1>3, <2>2 DEF TidyUp, Counts
    <3>2. Done' = Done
      BY <1>1, <3>1, DoneStays DEF IndInv
    <3>3. MadeInv'
      BY <1>1, <3>1, <3>2 DEF MadeInv, IndInv
    <3> QED
      BY <1>2, <3>1, <3>3 DEF IndInv, FreshInv, MultiInv, PackageInv
  <2> QED
    BY <1>3, <2>1, <2>2 DEF TidyUp
<1>4. CASE Report \/ Kill
  <2>1. pc' = "idle" /\ (status' = "ok" => pc = "report" /\ ~failed)
    BY <1>4 DEF Report, Kill, Ended
  <2>2. PackageInv'
    BY <1>1, <1>2, <2>1 DEF PackageInv, Counts, IndInv
  <2> QED
    BY <2>1, <2>2 DEF MadeInv, FreshInv, MultiInv
<1> QED
  BY <1>3, <1>4

LEMMA StutterStep ==
  ASSUME IndInv, UNCHANGED vars
  PROVE  MadeInv' /\ FreshInv' /\ MultiInv' /\ PackageInv'
<1>1. UNCHANGED <<signed, out, idx, multi, rollback, payload, session, at, pc, failed, status, made>>
  BY DEF vars, files
<1>2. Counts' = Counts /\ Done' = Done /\ Config' = Config
  BY <1>1 DEF Counts, Done, Config
<1>3. MadeInv' /\ FreshInv'
  BY <1>1, <1>2 DEF MadeInv, FreshInv, IndInv
<1>4. MultiInv'
  <2> SUFFICES ASSUME NEW k \in Keys, Right(k) PROVE Right(k)'
    BY <1>1, <1>2 DEF MultiInv, IndInv
  <2>1. Having(k)' = Having(k)
    BY <1>2 DEF Having
  <2> QED
    BY <1>1, <2>1, RightStays
<1>5. PackageInv'
  <2>1. PICK blob : blob = payload["bl_and_kernel"]
    OBVIOUS
  <2>2. IsWhole(payload["bl_and_kernel"]) => IsWhole(payload["bl_and_kernel"])'
    BY <1>1, <2>1, WholeFrom
  <2> QED
    BY <1>1, <1>2, <2>2 DEF PackageInv, IndInv
<1> QED
  BY <1>3, <1>4, <1>5

LEMMA Initially == Init => IndInv
<1> SUFFICES ASSUME Init PROVE IndInv
  OBVIOUS
<1>1. 1 \in 1..Len(session.specs)
  BY SessionsAssumption DEF Init
<1>2. TypeInv
  <2>1. made \in [Specs -> 0..builds] /\ builds \in Nat
    BY DEF Init
  <2>2. signed \in [Parts -> Images] /\ out \in [Parts -> Images] /\ multi \in [Keys -> Images]
    BY NoImagesType DEF Init
  <2>3. session \in Sessions /\ at = 1 /\ pc = "idle" /\ failed = FALSE
    BY DEF Init
  <2> QED
    BY <1>1, <2>1, <2>2, <2>3 DEF TypeInv
<1> QED
  BY <1>2 DEF IndInv, StageInv, MadeInv, FreshInv, MultiInv, PackageInv, Init

\* In every session without a failure so far: the images of the configurations
\* built are of this session, those of the present one fresh in the directories
\* of the build, and multi_signed/ has under each of its names the image of the
\* last configuration that has one, and nothing else; after the last payload
\* the package is whole.
THEOREM PackageInvariant == Spec => []IndInv
<1>1. IndInv /\ [Next]_vars => IndInv'
  <2> SUFFICES ASSUME IndInv, [Next]_vars PROVE IndInv'
    OBVIOUS
  <2>1. TypeInv' /\ StageInv'
    BY TypeStep, StageStep DEF IndInv
  <2>2. MadeInv' /\ FreshInv' /\ MultiInv' /\ PackageInv'
    BY InvokeStep, CleanUpStep, SignStep, CopyStep, GenerateStep, EndStep, StutterStep DEF Next
  <2> QED
    BY <2>1, <2>2 DEF IndInv
<1> QED
  BY Initially, <1>1, PTL DEF Spec

\* Whatever earlier sessions, failures and kills have left behind, a session
\* that ends well leaves an update payload that gives, taken apart, exactly the
\* images meant for each of its configurations, as this session built them, and
\* the product's rollback levels - for any boards, partitions and tables, any
\* number of sessions, and any limits of the payload's format.
THEOREM PackageAlwaysWhole == Spec => []PackageIsWhole
<1>1. IndInv => PackageIsWhole
  BY DEF IndInv, PackageInv, PackageIsWhole
<1> QED
  BY <1>1, PackageInvariant, PTL

=============================================================================
