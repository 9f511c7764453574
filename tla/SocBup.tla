------------------------------- MODULE SocBup -------------------------------
(***************************************************************************)
(* l4t_generate_soc_bup.sh: one update payload for all configurations of a *)
(* SoC.  It runs flash.sh once for each (build_l4t_bup.sh), which signs    *)
(* the images and copies those that differ between boards or fuse levels   *)
(* to multi_signed/, where they pile up, and packs what is there into      *)
(* payloads each time.  A user may also run build_l4t_bup.sh alone.        *)
(***************************************************************************)
EXTENDS BupPayload

CONSTANTS
    Specs,         \* configurations: a board, its revision and its fuse level
    Fuse,          \* fuse level of each
    Layout,        \* partitions in the flash.idx of each
    Table,         \* rows of the payload tables, with the list they belong to
    DirOrder,      \* directories of multi_signed/ in the order of ls
    PartSize,      \* cells of a partition's image
    Levels,        \* section of rollback.cfg for the product
    Sessions,      \* invocations to explore
    MaxSessions,   \* bound: invocations
    MaxFailures    \* bound: steps that fail and kills

VARIABLES
    out,           \* images that flash.sh has put into bootloader/
    signed,        \* images in signed/
    idx,           \* configuration that signed/flash.idx is of
    multi,         \* multi_signed/: <<directory, partition>> -> image
    rollback,      \* rollback.bin
    payload,       \* payloads_*/
    session, at, pc, failed, status,
    made,          \* history: which build of each configuration is this session's
    builds, sessions, failures

files == <<out, signed, idx, multi, rollback, payload>>
vars == <<files, session, at, pc, failed, status, made, builds, sessions, failures>>

Parts == {Table[i].part : i \in DOMAIN Table}
Fuses == {Fuse[s] : s \in Specs}
Lists == {"bl", "kernel", "xusb"}
Payloads == Lists \cup {"bl_and_kernel"}
Keys == (Specs \cup Fuses) \X Parts

\* A configuration's name says its fuse level and more; there are two levels.
ASSUME SpecsAssumption ==
    /\ Fuses \cap Specs = {} /\ "common" \notin Specs /\ "" \notin Specs
    /\ \A f, g \in Fuses : f = "production" \/ g = "production" \/ f = g
\* No two rows that are packed together have one name.
Rows == [list : Lists, part : Parts, name : [word : {Table[i].name.word : i \in DOMAIN Table}, len : Nat],
         signed : BOOLEAN, board : BOOLEAN, mode : BOOLEAN, skip : BOOLEAN]
InPackage(row) == row.list # "xusb" /\ ~row.skip
ASSUME TableAssumption ==
    /\ Table \in Seq(Rows) /\ PartSize \in [Parts -> Nat]
    /\ \A i, j \in DOMAIN Table : InPackage(Table[i]) /\ InPackage(Table[j]) /\ Table[i].name.word = Table[j].name.word => i = j
ASSUME DirOrderAssumption == DirOrder \in Seq(Specs \cup Fuses) /\ \A d \in Specs \cup Fuses : \E i \in DOMAIN DirOrder : DirOrder[i] = d
\* build_l4t_bup.sh alone makes one configuration.
ASSUME SessionsAssumption == \A s \in Sessions :
    /\ s.kind \in {"soc", "one", "add"} /\ s.debug \in BOOLEAN
    /\ s.specs \in Seq(Specs) /\ s.specs # <<>>
    /\ s.kind # "soc" => Len(s.specs) = 1
Image(part, spec, build) == [part |-> part, spec |-> spec, build |-> build]
NoImages == [p \in Parts |-> Nothing]
NoMulti == [k \in Keys |-> Nothing]
NoBlob == GenerateBup(<<>>, <<>>)
Config == session.specs[at]

-----------------------------------------------------------------------------
(* Steps that fail.                                                        *)

MayFail == failures < MaxFailures /\ failures' = failures + 1
Ended(how) == pc' = "idle" /\ status' = how
\* The next configuration, or what comes after the last.
After == IF session.kind # "soc" THEN "report"
         ELSE IF at < Len(session.specs) THEN "sign" ELSE IF session.debug THEN "report" ELSE "tidy"
NextConfig == /\ pc' = After /\ at' = IF After = "sign" THEN at + 1 ELSE at
              /\ UNCHANGED <<session, status, sessions>>
ConfigFails == MayFail /\ failed' = TRUE /\ NextConfig
Stays == UNCHANGED <<session, at, status, sessions>>

-----------------------------------------------------------------------------

Invoke(s) ==
    /\ pc = "idle" /\ sessions < MaxSessions
    /\ session' = s /\ sessions' = sessions + 1
    /\ at' = 1 /\ failed' = FALSE /\ status' = "running"
    /\ made' = [x \in Specs |-> 0]
    /\ pc' = IF s.kind = "soc" THEN "clean" ELSE "sign"
    /\ UNCHANGED <<files, builds, failures>>

\* flash.sh --clean-up.  The payloads stay.
CleanedAllButMulti == signed' = NoImages /\ rollback' = <<>> /\ idx' = "none" /\ UNCHANGED <<out, multi, payload>>
Cleaned == signed' = NoImages /\ rollback' = <<>> /\ idx' = "none" /\ multi' = NoMulti /\ UNCHANGED <<out, payload>>
CleanUp ==
    /\ pc = "clean" /\ pc' = "sign" /\ Stays /\ UNCHANGED <<made, builds>>
    /\ \/ Cleaned /\ UNCHANGED <<failed, failures>>
       \/ MayFail /\ failed' = TRUE /\ UNCHANGED files

TidyUp ==
    /\ pc = "tidy" /\ pc' = "report" /\ Stays /\ UNCHANGED <<made, builds>>
    /\ \/ Cleaned /\ UNCHANGED <<failed, failures>>
       \/ MayFail /\ failed' = TRUE /\ UNCHANGED files

\* Images are prepared and then signed; without --multi-spec, multi_signed/ is
\* emptied first.
Built(s, build, dir) == [p \in Parts |-> IF p \in Layout[s] THEN Image(p, s, build) ELSE dir[p]]
SignImages ==
    /\ pc = "sign" /\ builds' = builds + 1
    /\ out' = Built(Config, builds', out)
    /\ rollback' = RollbackBin(Levels)
    /\ multi' = IF session.kind = "one" THEN NoMulti ELSE multi
    /\ UNCHANGED payload
    /\ \/ /\ signed' = Built(Config, builds', signed) /\ idx' = Config
          /\ made' = [made EXCEPT ![Config] = builds']
          /\ pc' = "copy" /\ Stays /\ UNCHANGED <<failed, failures>>
       \/ /\ signed' \in {signed, Built(Config, builds', signed)}
          /\ ConfigFails /\ UNCHANGED <<idx, made>>

-----------------------------------------------------------------------------
(* Copies to multi_signed/<spec>/<part>/ or multi_signed/<part>_<fuse>/.   *)

Source(row) == IF row.signed THEN signed[row.part] ELSE out[row.part]
Copied(row) == ~row.skip /\ (row.board \/ row.mode) /\ row.part \in Layout[idx]
TargetDir(row, s) == IF row.board THEN s ELSE Fuse[s]
CopyRow(dirs, row, s) ==
    IF Copied(row) THEN [dirs EXCEPT ![<<TargetDir(row, s), row.part>>] = Source(row)] ELSE dirs
\* The loop over the table, as far as row n.
CopyMultiImages(n) ==
    LET dirs[i \in 0..n] == IF i = 0 THEN multi ELSE CopyRow(dirs[i-1], Table[i], Config)
    IN dirs[n]

CopyImages ==
    /\ pc = "copy" /\ UNCHANGED <<out, signed, idx, rollback, payload, made, builds>>
    /\ \/ multi' = CopyMultiImages(Len(Table)) /\ pc' = "generate" /\ Stays /\ UNCHANGED <<failed, failures>>
       \/ \E n \in 0 .. Len(Table) - 1 : multi' = CopyMultiImages(n) /\ ConfigFails

-----------------------------------------------------------------------------
(* The lists of entries, and a payload of each.                            *)

FileOf(img) == IF img = Nothing THEN NoFile ELSE [i \in 1..PartSize[img.part] |-> [of |-> img, at |-> i]]
OpMode(row, dir) == IF ~row.mode THEN 0
                    ELSE IF (IF dir \in Specs THEN Fuse[dir] ELSE dir) = "production" THEN 2 ELSE 1
Tuple(row, img, mode, spec) ==
    [arity |-> 5, file |-> FileOf(img), part |-> row.name, version |-> 1, mode |-> mode, spec |-> spec]
Malformed == [arity |-> 1, file |-> NoFile, part |-> Word("", 0), version |-> 0, mode |-> 0, spec |-> Word("", 0)]
Common == Word("common", 6)

\* One for each of the directories that has an image of the partition, in ls's
\* order.
Piled(row, dirs, entries) ==
    FlattenSeq([i \in DOMAIN DirOrder |->
        IF DirOrder[i] \in dirs /\ multi[<<DirOrder[i], row.part>>] # Nothing THEN <<entries[DirOrder[i]]>> ELSE <<>>])
BoardEntry(row, d) == Tuple(row, multi[<<d, row.part>>], OpMode(row, d), Word(d, 1))
FuseEntry(row, d) == Tuple(row, multi[<<d, row.part>>], OpMode(row, d), Common)
RowEntries(row) ==
    IF row.skip THEN <<>>
    ELSE IF row.board THEN Piled(row, Specs, [d \in Specs |-> BoardEntry(row, d)])
    ELSE IF row.mode THEN Piled(row, Fuses, [d \in Fuses |-> FuseEntry(row, d)])
    ELSE IF row.part \in Layout[idx] THEN <<Tuple(row, Source(row), 0, Common)>>
    ELSE <<>>
EntryListOf(list) ==
    FlattenSeq([i \in DOMAIN Table |-> IF Table[i].list = list THEN RowEntries(Table[i]) ELSE <<>>])
\* Joined with a semicolon; an empty side is an entry of no words.
BlAndKernel ==
    LET bl == EntryListOf("bl")
        kernel == EntryListOf("kernel")
    IN IF bl = <<>> \/ kernel = <<>> THEN bl \o <<Malformed>> \o kernel ELSE bl \o kernel
EntryListFor(name) == IF name = "bl_and_kernel" THEN BlAndKernel ELSE EntryListOf(name)

GeneratePayloads ==
    /\ pc = "generate" /\ UNCHANGED <<out, signed, idx, multi, rollback, made, builds>>
    /\ LET lists == [name \in Payloads |-> EntryListFor(name)]
           toPack == {name \in Payloads : lists[name] # <<>>}
           packable == {name \in toPack : Packable(lists[name])}
           packed(names) == [name \in Payloads |-> IF name \in names THEN GenerateBup(lists[name], rollback) ELSE payload[name]]
       IN \/ /\ packable = toPack
             /\ payload' = packed(toPack) /\ NextConfig /\ UNCHANGED <<failed, failures>>
          \/ /\ packable = toPack /\ ConfigFails
             /\ \E names \in SUBSET toPack : names # toPack /\ payload' = packed(names)
          \/ /\ packable # toPack /\ failed' = TRUE /\ NextConfig /\ UNCHANGED failures
             /\ \E names \in SUBSET packable : payload' = packed(names)

-----------------------------------------------------------------------------

\* With no failure so far the contents are printed, which may fail.
Report ==
    /\ pc = "report" /\ UNCHANGED <<files, session, at, failed, made, builds, sessions>>
    /\ \/ Ended(IF failed THEN "failed" ELSE "ok") /\ UNCHANGED failures
       \/ ~failed /\ session.kind = "soc" /\ Ended("failed") /\ MayFail

Kill == pc # "idle" /\ MayFail /\ Ended("killed")
        /\ UNCHANGED <<files, session, at, failed, made, builds, sessions>>

Init ==
    /\ out = NoImages /\ signed = NoImages /\ idx = "none" /\ multi = NoMulti
    /\ rollback = <<>> /\ payload = [name \in Payloads |-> NoBlob]
    /\ session \in Sessions /\ at = 1 /\ pc = "idle" /\ failed = FALSE /\ status = "none"
    /\ made = [s \in Specs |-> 0] /\ builds = 0 /\ sessions = 0 /\ failures = 0

Next == \/ \E s \in Sessions : Invoke(s)
        \/ CleanUp \/ SignImages \/ CopyImages \/ GeneratePayloads \/ TidyUp \/ Report
        \/ Kill

Spec == Init /\ [][Next]_vars

-----------------------------------------------------------------------------

\* The configurations that share a row's image with s, and the one built last
\* of them, whose image is the one to be in the package.
SharedBy(row, s) ==
    IF row.board THEN {s}
    ELSE IF row.mode THEN {x \in Range(session.specs) : Fuse[x] = Fuse[s] /\ row.part \in Layout[x]}
    ELSE Range(session.specs)
LastBuilt(among, when) == CHOOSE x \in among : \A y \in among : when[y] <= when[x]
Latest(row, s) == LastBuilt(SharedBy(row, s), made)
ImageMeant(row, s) == Image(row.part, Latest(row, s), made[Latest(row, s)])
Meant == {rs \in {Table[i] : i \in DOMAIN Table} \X Range(session.specs) :
            /\ InPackage(rs[1])
            /\ SharedBy(rs[1], rs[2]) # {} /\ rs[1].part \in Layout[Latest(rs[1], rs[2])]}
NameMeant(row, s) == <<row.name.word, OpStr(OpMode(row, IF row.board THEN s ELSE Fuse[s])), IF row.board THEN s ELSE "">>
BoardParts(s) == {Table[i].part : i \in {j \in DOMAIN Table :
                    Table[j].board /\ InPackage(Table[j]) /\ Table[j].part \in Layout[s]}}
\* Every configuration has something of its board, such as the BCT.
ASSUME BoardPartsAssumption == \A s \in Specs : BoardParts(s) # {}

\* Taken apart, the package gives the images meant and nothing else; -k says
\* true of it if the boards have the same partitions.  What is longer than
\* MaxEntries is not taken apart entirely; what comes out is right.
IsWhole(blob) ==
    LET got == ExtractBinaries(blob, {"all"})
        names == {NameMeant(rs[1], rs[2]) : rs \in Meant}
    IN /\ blob.accessory = RollbackBin(Levels)
       /\ DOMAIN got \subseteq names
       /\ ~Limited(blob) => DOMAIN got = names
       /\ \A rs \in Meant :
            LET name == NameMeant(rs[1], rs[2])
            IN name \in DOMAIN got => got[name] = FileOf(ImageMeant(rs[1], rs[2]))
       /\ ~Limited(blob) =>
            (CheckEntryTable(blob) <=> \A s, t \in Range(session.specs) : BoardParts(s) = BoardParts(t))

\* When the script ends well, taking the update payload apart gives, for every
\* configuration of this session, the images as this session built them: those
\* of a board from that board's configuration, those of a fuse level from the
\* last one of the level, common ones from the last of all - and nothing else,
\* whatever earlier sessions, failures and kills have left in multi_signed/.
\* It has the product's rollback levels.
PackageIsWhole == pc = "idle" /\ status = "ok" /\ session.kind # "add" => IsWhole(payload["bl_and_kernel"])
=============================================================================
