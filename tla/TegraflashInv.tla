---------------------------- MODULE TegraflashInv ----------------------------
(***************************************************************************)
(* What an invocation for an unsecured T234 knows of its files before each *)
(* of the steps still to be taken: a proof outline of todo.  A fact is a   *)
(* pair <<kind, of what>>; After gives the facts that are known after a    *)
(* step, or a call, from those known before it, Need those without which   *)
(* it must not be taken.  Steps and calls are those of TFlashT23x.         *)
(***************************************************************************)
EXTENDS Tegraflash

-----------------------------------------------------------------------------
(* The files of which something is known.                                  *)

BrBct == T23!BrBct
ABr == T23!ChainFile("A")
BBr == T23!ChainFile("B")

\* First words of the names of files that are signed one by one, and of those
\* that hold nothing but what the program or flash.sh has put into them.
Signers == {"mb1_bct", "mem_rcm", "applet", "bl", "mb2", "dce", "bpmp_dtb"}
Plain == Signers \cup {"mb1", "psc"}

\* What is signed how: whether data is encrypted, and whether the board is only
\* asked for its EEPROM.
Ways == [encrypt : BOOLEAN, asks : BOOLEAN]
Way == [encrypt |-> opt.encrypt, asks |-> asks]

\* The file that is signed, its copy with a header, and the result.
Given(h) == CASE h = "mb1_bct" -> <<"mb1_bct", "MB1">>
              [] h = "mb2" -> <<"mb2", "with_mb2_bct">>
              [] h = "dce" -> <<"dce", "with_kernel_dtb">>
              [] OTHER -> <<h>>
FileOf(w, h) == IF w.encrypt /\ h \in {"mb1_bct", "mem_rcm", "applet"}
                THEN Given(h) \o <<"encrypt">> ELSE Given(h)
HeaderOf(w, h) == T23!Aligned(FileOf(w, h)) \o <<"sigheader">>
ResultOf(w, h) == T23!OemSigned(FileOf(w, h))

IsSeq(s) == s \in Seq({s[i] : i \in DOMAIN s})
IsName(f) == IsSeq(f) /\ f # <<>>
Named(f, h) == IsName(f) /\ f[1] = h
\* Nothing in it keeps a signature from being one.
Signable(s) == IsSeq(s) /\ \A i \in DOMAIN s : s[i] # "unsigned"
Pure(c) == DOMAIN c = {"is", "mb1", "sig", "sha"} /\ Signable(c.is)

-----------------------------------------------------------------------------
(* Facts.                                                                  *)

KeptNames == {"pt", "bct", "chain_A", "mb1_bct", "membct_rcm"}
BrKinds == {"made", "digested", "sigfile", "signed", "shafile", "good", "goodA"}
Base == {<<"kept", "pt">>, <<"val", "raw">>}
Facts == ({"kept"} \X KeptNames) \cup {<<"val", "raw">>} \cup ({"list"} \X {"made", "signed"})
         \cup ({"br"} \X BrKinds) \cup ({"header", "sigfile", "attached", "signed"} \X Signers)

\* The first words of the files that a fact is about.
Of(x) == CASE x[1] \in {"kept", "val"} -> {}
           [] x[1] = "list" -> {"mb1", "psc"}
           [] x[1] = "br" -> IF x[2] \in {"digested", "good", "goodA"} THEN {"br_bct", "mb1"} ELSE {"br_bct"}
           [] OTHER -> {x[2]}

Expected(w, k) == CASE k = "bct" -> BrBct
                    [] k = "chain_A" -> ABr
                    [] k = "mb1_bct" -> ResultOf(w, "mb1_bct")
                    [] k = "membct_rcm" -> ResultOf(w, "mem_rcm")
KeptIs(k) == IF k = "pt" THEN kept.pt # None ELSE kept[k] = Expected(Way, k)

ListIs(w) == \A t \in {"mb1", "psc"} :
    list[t] \in DOMAIN disk /\ IF w = "made" THEN disk[list[t]].is # <<>> ELSE Signed(disk[list[t]])

NamesMb1(f) == f \in DOMAIN disk /\ disk[f].mb1 = Contents(S("mb1")).is
IsSigned(f) == f \in DOMAIN disk /\ Signed(disk[f])
Good(f) == IsSigned(f) /\ Hashed(disk[f]) /\ NamesMb1(f)
SigOf(f) == f \o <<"sig">>
ShaOf(f) == f \o <<"sha">>
HasSig(f, s) == f \in DOMAIN disk /\ s \in DOMAIN disk /\ Body(disk[s]) = Body(disk[f])
BrIs(w) ==
    CASE w = "made" -> BrBct \in DOMAIN disk /\ Pure(disk[BrBct]) /\ disk[BrBct].is # <<>>
      [] w = "digested" -> NamesMb1(BrBct)
      [] w = "sigfile" -> HasSig(BrBct, SigOf(BrBct))
      [] w = "signed" -> IsSigned(BrBct)
      [] w = "shafile" -> {BrBct, ShaOf(BrBct)} \subseteq DOMAIN disk /\ disk[ShaOf(BrBct)] = disk[BrBct]
      [] w = "good" -> Good(BrBct)
      [] w = "goodA" -> Good(ABr)

SignedOf(f) == f \o <<"signed">>
IsHeader(f) == f \in DOMAIN disk /\ disk[f].is # <<>>

\* What was made while a failure of tegrasign() went unheard counts for nothing.
Holds(x) ==
    CASE x[1] = "kept" -> KeptIs(x[2])
      [] x[1] = "val" -> val.rawkerneldtb # None
      [] x[1] = "list" -> Heard => ListIs(x[2])
      [] x[1] = "br" -> Heard => BrIs(x[2])
      [] x[1] = "header" -> Heard => IsHeader(HeaderOf(Way, x[2]))
      [] x[1] = "sigfile" -> Heard => IsHeader(SignedOf(HeaderOf(Way, x[2])))
                                      /\ HasSig(SignedOf(HeaderOf(Way, x[2])), SigOf(HeaderOf(Way, x[2])))
      [] x[1] = "attached" -> Heard => IsSigned(SignedOf(HeaderOf(Way, x[2])))
      [] x[1] = "signed" -> Heard => IsSigned(ResultOf(Way, x[2]))
Known23 == {x \in Facts : Holds(x)}

-----------------------------------------------------------------------------
(* What is known after a step.                                             *)

Unwritten(X, h) == {x \in X : h \notin Of(x)}
Br(ws) == {"br"} \X ws
If(c, X) == IF c THEN X ELSE {}
\* What a BR-BCT keeps when it is edited or signed.
Unsent(f, X) == If(f[1] = "br_bct", X \cap Br({"made", "digested"}))

AfterMake(f, X) == Unwritten(X, f[1]) \cup If(f = BrBct, Br({"made"}) \cup (X \cap Br({"goodA"})))
AfterEdit(r, X) ==
    IF r = S("mb1") THEN Unwritten(X, "mb1") \cup (X \cap {<<"list", "made">>})
    ELSE Unwritten(X, r[2][1]) \cup Unsent(r[2], X) \cup If(r = F(BrBct), X \cap Br({"goodA"}))
AfterCopy(w, r, f, X) ==
    Unwritten(X, f[1])
    \cup {x \in {"signed"} \X Signers : /\ r = F(SignedOf(HeaderOf(w, x[2]))) /\ f = ResultOf(w, x[2])
                                        /\ <<"attached", x[2]>> \in X}
AfterHeader(w, f, X) == Unwritten(X, f[1]) \cup {x \in {"header"} \X Signers : f = HeaderOf(w, x[2])}
AfterRename(k, f, X) ==
    Unwritten(X, "br_bct")
    \cup If(k = "bct" /\ f = ABr /\ <<"br", "good">> \in X, Br({"goodA"}))
    \cup If(k = "bct" /\ f = BBr, X \cap Br({"goodA"}))
    \cup If(k = "chain_A" /\ f = BrBct /\ <<"br", "goodA">> \in X, Br({"good"}))
AfterSign(w, r, s, X) ==
    Unwritten(X, s[1]) \cup Unsent(s, X)
    \cup {x \in {"sigfile"} \X Signers : /\ s = HeaderOf(w, x[2]) /\ r = F(s) /\ <<"header", x[2]>> \in X}
    \cup If(s = BrBct /\ r = F(s), (X \cap Br({"goodA"})) \cup If(<<"br", "made">> \in X, Br({"sigfile"})))
AfterAttach(w, r, s, X) ==
    Unwritten(X, s[1]) \cup Unsent(s, X)
    \cup {x \in {"attached"} \X Signers : /\ s = HeaderOf(w, x[2]) /\ r = F(SignedOf(s))
                                          /\ <<"sigfile", x[2]>> \in X}
    \cup If(s = BrBct /\ r = F(s),
            (X \cap Br({"goodA"})) \cup If(Br({"made", "sigfile"}) \subseteq X, Br({"signed"})))
AfterSha(X) ==
    Unwritten(X, "br_bct") \cup (X \cap Br({"made", "digested", "signed", "goodA"}))
    \cup If(<<"br", "made">> \in X, Br({"shafile"}))
AfterPutSha(X) ==
    Unwritten(X, "br_bct") \cup (X \cap Br({"goodA"}))
    \cup If(Br({"made", "digested", "signed", "shafile"}) \subseteq X, Br({"good"}))
AfterDigest(X) ==
    Unwritten(X, "br_bct") \cup (X \cap Br({"made", "goodA"})) \cup If(<<"br", "made">> \in X, Br({"digested"}))
AfterKeep(w, k, f, X) ==
    (X \ {<<"kept", k>>}) \cup If(k \in KeptNames \ {"pt"} /\ f = Expected(w, k), {<<"kept", k>>})
AfterSet(v, X) == X \cup If(v = "rawkerneldtb", {<<"val", "raw">>})
AfterSignList(X) == (X \cap Base) \cup If(<<"list", "made">> \in X, {<<"list", "signed">>})

-----------------------------------------------------------------------------
(* What is known after a method.  What comes after the device has been     *)
(* sent its images needs nothing that the methods there could tell.        *)

Neutral == {"get_key_mode", "preprocess_configs", "update_images", "generate_mb2_bct"}
Layouting == {"parse_partitionlayout", "parse_without_dce", "update_bpmp_dtb", "update_kernel_dtb",
              "update_cpubl_dtb", "concat_overlay_dtb", "concatenate_cpubl_bldtb", "combine_mb2",
              "combine_dce"}
Later23 == {"boot_mb2_applet", "poll_applet_bl", "get_storage_info", "flash_partitions",
            "sparse_update_part", "flash_bct", "signwrite_file", "write_file", "dump_from_applet",
            "read_fuses_from_applet", "encrypt_sign_br_bct", "sign_copies", "send_mb2_applet",
            "send_to_bootloader"}
Methods == Neutral \cup Layouting \cup Later23 \cup
    {"sign_images", "oem_sign_file", "oem_encrypt_and_sign_file", "fill_mb1_storage_info",
     "generate_br_bct", "multi_chain", "generate_bct", "generate_mb1_bct", "generate_mem_bct",
     "send_to_bootrom", "generate_blob"}

\* A file is signed, or not.
AfterSigning(w, f, signs, X) ==
    Unwritten(X, f[1]) \cup {x \in {"signed"} \X Signers : signs /\ f = FileOf(w, x[2])}
KeepBct == {<<"kept", "bct">>}
AfterBrBct(X) ==
    Unwritten(X, "br_bct") \cup (X \cap Br({"goodA"})) \cup KeepBct
    \cup If(<<"kept", "pt">> \in X, Br({"good"}))
Mb1Bct == {<<"signed", "mb1_bct">>, <<"kept", "mb1_bct">>}
MemBct == {<<"signed", "mem_rcm">>, <<"kept", "membct_rcm">>}
AfterMb1Bct(X) == Unwritten(X \ {<<"kept", "mb1_bct">>}, "mb1_bct") \cup Mb1Bct
AfterMemBct(w, X) ==
    IF w.asks THEN X
    ELSE Unwritten(Unwritten(X \ {<<"kept", "membct_rcm">>}, "mem_rcm"), "bpmp_dtb") \cup MemBct
AfterMultiChain(fill_mb1, X) ==
    IF fill_mb1 THEN X \cap (Base \cup {<<"list", "made">>})
    ELSE Unwritten(X \ {<<"kept", "chain_A">>}, "br_bct") \cup KeepBct
         \cup If(<<"kept", "pt">> \in X, Br({"good"}))
InBlob23 == {"bl", "mb2", "dce", "bpmp_dtb"}
AfterBlob(sign_images, X) ==
    IF sign_images
    THEN {x \in X : Of(x) \cap InBlob23 = {}}
         \cup If(<<"val", "raw">> \in X, {"signed"} \X InBlob23)
    ELSE X

AfterCall(w, m, a, X) ==
    CASE m \in Neutral -> X
      [] m \in {"parse_partitionlayout", "parse_without_dce"} -> Base
      [] m \in Layouting \ {"parse_partitionlayout", "parse_without_dce"} -> X \cap Base
      [] m = "sign_images" -> (X \cap Base) \cup {<<"list", "signed">>}
      [] m = "oem_sign_file" -> AfterSigning(w, a[1], a[2] # "FSKP", X)
      [] m = "oem_encrypt_and_sign_file" -> AfterSigning(w, a[1], ~a[2], X)
      [] m = "fill_mb1_storage_info" ->
             (X \cap (Base \cup {<<"list", "made">>, <<"kept", "chain_A">>})) \cup KeepBct
      [] m = "generate_br_bct" -> AfterBrBct(X)
      [] m = "multi_chain" -> AfterMultiChain(a[1], X)
      [] m = "generate_mb1_bct" -> IF a THEN X ELSE AfterMb1Bct(X)
      [] m = "generate_mem_bct" -> IF a THEN X ELSE AfterMemBct(w, X)
      [] m = "generate_bct" -> AfterMemBct(w, AfterMb1Bct(AfterMultiChain(FALSE, X)))
      [] m = "send_to_bootrom" -> X
      [] m = "generate_blob" -> AfterBlob(a, X)
      [] OTHER -> {}

After(w, st, X) ==
    CASE st[1] = "make" -> AfterMake(st[2], X)
      [] st[1] = "edit" -> AfterEdit(st[2], X)
      [] st[1] = "odm" -> Unwritten(X, st[2][1])
      [] st[1] = "copy" -> AfterCopy(w, st[2], st[3], X)
      [] st[1] = "header" -> AfterHeader(w, st[3], X)
      [] st[1] = "rename" -> AfterRename(st[2], st[3], X)
      [] st[1] = "sign" -> AfterSign(w, st[2], st[3], X)
      [] st[1] = "attach" -> AfterAttach(w, st[2], st[3], X)
      [] st[1] = "sha" -> AfterSha(X)
      [] st[1] = "putsha" -> AfterPutSha(X)
      [] st[1] = "digest" -> AfterDigest(X)
      [] st[1] = "keep" -> AfterKeep(w, st[2], st[3], X)
      [] st[1] = "set" -> AfterSet(st[2], X)
      [] st[1] = "pt" -> X \cup {<<"kept", "pt">>}
      [] st[1] = "list" -> (X \cap Base) \cup {<<"list", "made">>}
      [] st[1] = "signlist" -> AfterSignList(X)
      [] st[1] = "call" -> AfterCall(w, st[2], st[3], X)
      [] st[1] \in {"except", "read"} -> {}
      [] OTHER -> X

-----------------------------------------------------------------------------
(* What must be known before a step, and what steps there are.             *)

SendRom == <<"send", "bootrom", <<K("bct"), S("mb1"), S("psc"), K("mb1_bct")>>, "mb1">>
SendMb2(w) == <<"send", "mb1", <<K("membct_rcm"), F(ResultOf(w, "bl")), F(ResultOf(w, "mb2")),
                                 F(ResultOf(w, "dce")), F(ResultOf(w, "bpmp_dtb"))>>, "mb2">>
SendApplet(w) == <<"send", "mb1", <<F(ResultOf(w, "applet"))>>, "mb2applet">>

NeedRom == {<<"list", "signed">>, <<"br", "good">>} \cup KeepBct \cup Mb1Bct
Need(w, st) ==
    CASE st[1] = "send" /\ st = SendRom -> NeedRom
      [] st[1] = "send" /\ st = SendMb2(w) -> MemBct \cup ({"signed"} \X InBlob23)
      [] st[1] = "send" /\ st = SendApplet(w) -> {<<"signed", "applet">>}
      [] st[1] = "rename" -> {<<"kept", st[2]>>}
      [] st[1] = "call" /\ st[2] = "send_to_bootrom" -> NeedRom
      [] st[1] = "call" /\ st[2] = "send_to_bootloader" -> MemBct \cup {<<"val", "raw">>}
      [] OTHER -> {}

\* Changed from a file of the same first word.
SameHead(r, f) == IsName(f) /\ (f[1] \in Plain \cup {"br_bct"} =>
                                        r[1] = "file" /\ IsName(r[2]) /\ r[2][1] = f[1])
Target(r, s) == IsName(s) /\ r[1] = "file" /\ IsName(r[2]) /\ r[2][1] = s[1]
Cvm == <<"make", <<"cvm">>, <<"cvm">>>>
LegalCall(m, a) ==
    /\ m \in Methods
    /\ m \in {"oem_sign_file", "oem_encrypt_and_sign_file"} => IsName(a[1]) /\ a[1][1] # "aligned"
    /\ m = "oem_encrypt_and_sign_file" => a[2] \in BOOLEAN
    /\ m \in {"signwrite_file", "write_file"} => IsName(a[2]) /\ a[2][1] # "aligned"
    /\ m \in {"fill_mb1_storage_info", "generate_br_bct"} => a \in {"A", "B"}
    /\ m = "multi_chain" => a \in {<<TRUE, FALSE>>, <<FALSE, TRUE>>}
    /\ m \in {"sign_images", "generate_mb1_bct", "generate_mem_bct", "generate_blob"} => a \in BOOLEAN
    /\ m = "send_to_bootloader" => a = TRUE
Unmodelled == {"tool", "raise", "crash", "caught", "ask", "pt", "list", "signlist", "repoint", "create",
               "write", "erase", "reboot", "chipinfo"}
Legal(w, st) ==
    \/ st[1] \in Unmodelled
    \/ st[1] = "make" /\ IsName(st[2]) /\ Signable(st[3]) /\ st[3] # <<>>
    \/ st[1] = "edit" /\ (st[2] = S("mb1") \/ (st[2][1] = "file" /\ IsName(st[2][2]))) /\ st[3] # "unsigned"
    \/ st[1] = "odm" /\ IsName(st[2])
    \/ st[1] = "copy" /\ SameHead(st[2], st[3])
    \/ st[1] = "header" /\ Target(st[2], st[3])
    \/ st[1] = "join" /\ st[3] = <<"bct_backup">>
    \/ st[1] = "rename" /\ st[2] \in {"bct", "chain_A"} /\ st[3] \in {BrBct, ABr, BBr}
    \/ st[1] \in {"sign", "attach"} /\ Target(st[2], st[3])
    \/ st[1] \in {"sha", "putsha"} /\ st[2] = F(BrBct) /\ st[3] = BrBct
    \/ st[1] = "digest" /\ st[2] = F(BrBct)
    \/ st[1] = "set" /\ st[2] \in {"rawkerneldtb", "kerneldtb"} /\ Named(st[3], "kernel_dtb")
    \/ st[1] = "set" /\ st[2] = "bldtb" /\ Named(st[3], "bldtb")
    \/ st[1] = "keep" /\ st[2] \in Keepers \ {"pt", "unheard", "ramcode"} /\ IsName(st[3])
    \/ st[1] = "layout" /\ st[2] \in Types \ {"mb1", "psc"} /\ Named(st[3], st[2])
    \/ st[1] = "read" /\ IsName(st[3]) /\ st[3][1] \notin Plain \cup {"br_bct"}
    \/ st[1] = "poll" /\ st[4] \in {<<>>, T23!Raising}
    \/ st[1] = "except" /\ st[2] \in {<<>>, <<<<"chipinfo">>>>, <<Cvm>>}
    \/ st[1] = "send" /\ st \in {SendRom, SendMb2(w), SendApplet(w)}
    \/ st[1] = "call" /\ LegalCall(st[2], st[3])

\* From the facts X the steps s lead to the facts Y.
Outline(w, s, A, n) ==
    Legal(w, s[n]) /\ Need(w, s[n]) \subseteq A[n-1] /\ A[n] \subseteq After(w, s[n], A[n-1])
Leads(w, s, X, Y) ==
    /\ \E Z : s \in Seq(Z)
    /\ \E A \in [0..Len(s) -> SUBSET Facts] :
          A[0] \subseteq X /\ Y \subseteq A[Len(s)] /\ \A n \in 1..Len(s) : Outline(w, s, A, n)

-----------------------------------------------------------------------------
(* The invariant.                                                          *)

\* The options that the outline is about, and what flash.sh may ask for then: it
\* signs or writes no file that "aligned" begins the name of, and reads no
\* partition into a file of an image that is signed.
Covered == opt.chip = "0x23" /\ ~opt.secure
LawfulFile(f) == IsName(f) /\ f[1] # "aligned"
LawfulCommand(c) ==
    /\ Len(c) \in Nat /\ c[1] # "secureflash"
    /\ c[1] \in {"write", "signwrite", "read"} /\ Len(c) = 3 => LawfulFile(c[3])
    /\ c[1] = "read" /\ Len(c) = 3 => c[3][1] \notin Plain \cup {"br_bct"}
    /\ c[1] = "sign" /\ Len(c) > 1 => LawfulFile(c[2])
    /\ c[1] = "nvsign" /\ Len(c) > 2 => LawfulFile(c[2])
Lawful(cs) == IsSeq(cs) /\ \A n \in DOMAIN cs : LawfulCommand(cs[n])
AllLawful(js) == IsSeq(js) /\ \A n \in DOMAIN js : Lawful(js[n])

ASSUME SessionsAssumption ==
    \A o \in Options : o.chip = "0x23" /\ ~o.secure => \A js \in Sessions[o.use] : AllLawful(js)
ASSUME SourcesAssumption ==
    /\ {<<t>> : t \in Types} \subseteq Sources
    /\ \A f \in Sources : IsName(f) /\ f[1] # "br_bct" /\ Signable(f)
ASSUME RamcodesAssumption == "unsigned" \notin Ramcodes /\ \A o \in Options : o.ramcode # "unsigned"
ASSUME BoundsAssumption == MaxWords \in Nat /\ \A o \in Options : MaxSwaps[o.use] \in Nat

\* What the files that the facts are about hold, and what the tables name.
Clean == \A f \in DOMAIN disk : f[1] \in Plain \cup {"br_bct"} => Pure(disk[f])
Naming(table) == DOMAIN table = Types /\ \A t \in Types : Named(table[t], t)
NamesOk ==
    /\ Naming(layout) /\ Naming(pt) /\ Naming(list)
    /\ \A t \in Types : list[t] \in DOMAIN disk
    /\ Named(val.bldtb, "bldtb") /\ (val.kerneldtb # None => Named(val.kerneldtb, "kernel_dtb"))
Board23 == dev \in [stage : Stages, starts : Stages, ram : Ramcodes]
Told == AllLawful(jobs) /\ Lawful(cmds)
Outlined == Leads(Way, todo, Known23, {})
Sound == TypeOK /\ Board23 /\ Told /\ Clean /\ NamesOk /\ Outlined
IInv == Covered => Sound
=============================================================================
