----------------------------- MODULE BupPayload -----------------------------
(***************************************************************************)
(* BUP_generator.py and rollback_parser.py: a bootloader update payload as *)
(* it is packed, inspected, checked and taken apart again.                 *)
(*                                                                         *)
(* A payload is a header, an accessory, a table of entries and the images  *)
(* one after the other; entries say where an image begins and how long it  *)
(* is, counted from the beginning of the payload.                          *)
(***************************************************************************)
EXTENDS Integers, Sequences, SequencesExt

CONSTANTS
    MaxEntries,    \* entries that are looked at: 256 unless -m says otherwise
    NameMax,       \* gpt_part_name_len_max
    SpecMax        \* spec_len_max

ASSUME BupLimits == MaxEntries \in Nat \ {0} /\ NameMax \in Nat /\ SpecMax \in Nat

HeaderLen == 40
EntryLen == 184
AccessoryLen == 8      \* ROLLBACK_BIN_SIZE, and what the inspection reads

\* Images are sequences of cells; a cell says what it is of.
Nothing == [part |-> "none", spec |-> "none", build |-> 0]
Junk == [of |-> Nothing, at |-> 0]

-----------------------------------------------------------------------------
(* rollback.bin: levels up to the first that the product's section of the  *)
(* configuration does not have, then zeros.                                *)

LevelNames == <<"mb1_ratchet_level", "mts_ratchet_level", "rollback_fuse_level">>
Found(cfg) == {n \in 0..Len(LevelNames) : \A i \in 1..n : LevelNames[i] \in DOMAIN cfg}
LevelsRead(cfg) == CHOOSE n \in Found(cfg) : \A m \in Found(cfg) : m <= n
RollbackBin(cfg) == [i \in 1..AccessoryLen |-> IF i <= LevelsRead(cfg) THEN cfg[LevelNames[i]] ELSE 0]

-----------------------------------------------------------------------------
(* Packing.  An entry of the list is five words: file, partition, version, *)
(* mode and specification.  A word that is missing makes the generator     *)
(* stop parsing, and then fail where it meets the entries it has not       *)
(* parsed; a file that is missing makes it fail, too.                      *)

Word(w, len) == [word |-> w, len |-> len]
NoFile == <<>>
WellFormed(e) == e.arity = 5
TooLong(e) == e.part.len > NameMax \/ e.spec.len > SpecMax
Packable(list) == /\ list # <<>>
                  /\ \A i \in DOMAIN list : WellFormed(list[i]) /\ ~TooLong(list[i]) /\ list[i].file # NoFile

\* What is not a number is 0, and the specification "common" is none.
ParseEntry(e) == [file |-> e.file, part |-> e.part.word, version |-> e.version,
                  mode |-> IF e.mode \in Nat THEN e.mode ELSE 0,
                  spec |-> IF e.spec.word = "common" THEN "" ELSE e.spec.word]
ParseEntryList(list) == [i \in DOMAIN list |-> ParseEntry(list[i])]

HeaderSize(accessory) == HeaderLen + Len(accessory)
Cells(infos) == FlattenSeq([i \in DOMAIN infos |-> infos[i].file])
\* Where image i begins: what has been written before it.
Offset(infos, accessory, i) ==
    HeaderSize(accessory) + Len(infos) * EntryLen + Len(Cells(SubSeq(infos, 1, i - 1)))
FillImage(infos, accessory) ==
    [i \in DOMAIN infos |-> [offset |-> Offset(infos, accessory, i), length |-> Len(infos[i].file)]]
FillHeader(infos, accessory) ==
    [type |-> "update", headerSize |-> HeaderSize(accessory), count |-> Len(infos),
     size |-> HeaderSize(accessory) + Len(infos) * EntryLen + Len(Cells(infos))]
UpdateEntry(infos, places) ==
    [i \in DOMAIN infos |->
       [part |-> infos[i].part, offset |-> places[i].offset, size |-> places[i].length,
        version |-> infos[i].version, mode |-> infos[i].mode, spec |-> infos[i].spec]]
GenerateBup(list, accessory) ==
    LET infos == ParseEntryList(list)
    IN [header |-> FillHeader(infos, accessory), accessory |-> accessory,
        table |-> UpdateEntry(infos, FillImage(infos, accessory)), images |-> Cells(infos)]

-----------------------------------------------------------------------------
(* Inspecting.  An entry count beyond MaxEntries limits what is printed,   *)
(* what is checked and what is extracted.                                  *)

HasAccessory(blob) == blob.header.headerSize > HeaderLen
Limited(blob) == blob.header.count > MaxEntries
Listed(blob) == IF Limited(blob) THEN MaxEntries ELSE blob.header.count
EntryList(blob) == SubSeq(blob.table, 1, Listed(blob))

\* -k: the partitions that have a specification at all, the specifications
\* there are, and whether each of the former has each of the latter.
Specific(blob) == {i \in DOMAIN EntryList(blob) : blob.table[i].spec # ""}
SpecificParts(blob) == {blob.table[i].part : i \in Specific(blob)}
SpecsOf(blob) == {blob.table[i].spec : i \in Specific(blob)}
CheckEntryTable(blob) ==
    \A part \in SpecificParts(blob), spec \in SpecsOf(blob) :
        \E i \in Specific(blob) : blob.table[i].part = part /\ blob.table[i].spec = spec

\* -x: the bytes at an entry's place.
Before(blob) == HeaderSize(blob.accessory) + Len(blob.table) * EntryLen
CellAt(blob, pos) == IF pos - Before(blob) \in DOMAIN blob.images THEN blob.images[pos - Before(blob)] ELSE Junk
ReadAt(blob, offset, size) == [i \in 1..size |-> CellAt(blob, offset + i)]

OpStr(mode) == CASE mode = 0 -> "" [] mode = 1 -> "dev" [] mode = 2 -> "prod"
BinaryName(entry) == <<entry.part, OpStr(entry.mode), entry.spec>>
Wanted(blob, parts) ==
    {i \in 1..Len(EntryList(blob)) : EntryList(blob)[i].part \in parts \/ "all" \in parts}
\* A file that is there is written anew: the last entry of a name stays.
LastOf(blob, parts, name) == CHOOSE i \in Wanted(blob, parts) :
    /\ BinaryName(EntryList(blob)[i]) = name
    /\ \A j \in Wanted(blob, parts) : BinaryName(EntryList(blob)[j]) = name => j <= i
ExtractBinaries(blob, parts) ==
    LET chosen(name) == EntryList(blob)[LastOf(blob, parts, name)]
    IN [name \in {BinaryName(EntryList(blob)[i]) : i \in Wanted(blob, parts)} |->
            ReadAt(blob, chosen(name).offset, chosen(name).size)]
=============================================================================
