------------------------------ MODULE TFlashT19x ------------------------------
(***************************************************************************)
(* The methods of tegraflash_internal.py for chip 0x19 (T194), each as the *)
(* sequence of its steps.  Names are those of the code without the prefix  *)
(* tegraflash_.  Branches for other chips are left out.  The stage "mb2"   *)
(* is the CPU bootloader here, "mb2applet" is MB2 started as an applet.    *)
(* Of the T194's firmware the partition types psc and dce stand for what   *)
(* is neither MB1, MB2 nor a device tree.                                  *)
(***************************************************************************)
EXTENDS FlashSteps

Mb1 == dev.stage = "mb1"
Mb2 == dev.stage = "mb2applet"
Cpubl == dev.stage = "mb2"
Raising == <<<<"raise">>>>
Crashing == <<<<"crash">>>>
Except(steps) == <<<<"except", steps>>>>

-----------------------------------------------------------------------------
(* Device trees and the partition layout.                                  *)

Suffixed(f, suffix) == Append(Without(f, suffix), suffix)
CreateBackupFile(f, suffix) ==
    IF ~Exists(Without(f, suffix)) THEN Raising
    ELSE When(~Exists(Suffixed(f, suffix)), <<<<"copy", F(Without(f, suffix)), Suffixed(f, suffix)>>>>)

\* tegraflash_update_t194_bpmp_dtb(): in a copy, which then replaces the file.
UpdateT194BpmpDtb ==
    LET f == Suffixed(<<"bpmp_dtb">>, "with_odm") IN
    CreateBackupFile(<<"bpmp_dtb">>, "with_odm") \o <<<<"odm", f>>, <<"copy", F(f), <<"bpmp_dtb">>>>>>

\* concat_file_4k(), of the file that --bldtb names at the time.
ConcatOverlayDtb(f) == When(opt.overlay, <<<<"edit", F(f), "overlay">>>>)

\* The tree with ODM data and the one with the overlay are backup files; the last
\* one replaces the file of --bldtb.
OdmBldtb == CreateBackupFile(<<"bldtb">>, "with_odm") \o <<<<"odm", <<"bldtb", "with_odm">>>>>>
OverlayBldtb(f) ==
    CreateBackupFile(f, "overlay") \o <<CallWith("concat_overlay_dtb", Suffixed(f, "overlay")),
                                        <<"copy", F(Suffixed(f, "overlay")), <<"bldtb">>>>>>
ParsePartitionlayout ==
    When(opt.odm, <<Call("update_t194_bpmp_dtb"), Call("odm_bldtb")>>)
    \o <<CallWith("overlay_bldtb", IF opt.odm THEN <<"bldtb", "with_odm">> ELSE <<"bldtb">>), <<"pt">>>>

TrimBpmpFwDtb == <<<<"ramcode">>>> \o When(opt.trim, <<Call("bpmp_generate_dtb")>>)
\* In place, and once in an invocation (bpmp_fw_dtb_trimmed).
BpmpGenerateDtb ==
    When(\A r \in Ramcodes : Pieces(r, Contents(F(<<"bpmp_dtb">>))) = {},
         <<<<"tool">>, <<"edit", F(<<"bpmp_dtb">>), kept.ramcode[1]>>>>)

-----------------------------------------------------------------------------
(* Signing.                                                                *)

GetKeyMode == RunTool
PreprocessConfigs == RunTool
Aligned(f) == f \o <<"aligned">>
Signing(f, sh) ==
    <<<<"sign", F(sh), sh>>, <<"attach", F(sh \o <<"signed">>), sh>>,
      <<"copy", F(sh \o <<"signed">>), Without(sh, "aligned") \o <<"signed">>>>>>
OemSignFile(f) ==
    LET sh == Aligned(f) \o <<"sigheader">> IN
    When(Exists(f), <<<<"copy", F(f), Aligned(f)>>>>)
    \o <<<<"tool">>, <<"header", F(Aligned(f)), sh>>>> \o Signing(f, sh)
OemSigned(f) == f \o <<"sigheader", "signed">>
OemEncryptAndSignFile(f, header) ==
    LET a == Aligned(f) IN
    When(Exists(f), <<<<"copy", F(f), a>>>>) \o RunTool
    \o (IF header
        THEN <<<<"copy", F(a), f \o <<"encrypt">>>>, <<"edit", F(f \o <<"encrypt">>), "encrypted">>>>
        ELSE <<<<"header", F(a), a \o <<"sigheader">>>>>> \o Signing(f, a \o <<"sigheader">>))

\* With --encrypt_key a file is first encrypted, then signed.
Encrypting(f) == <<CallWith("oem_encrypt_and_sign_file", <<f, TRUE>>),
                   CallWith("oem_encrypt_and_sign_file", <<f \o <<"encrypt">>, FALSE>>)>>
SignOem(f) == IF opt.encrypt THEN Encrypting(f) ELSE <<CallWith("oem_sign_file", f)>>
SignedOem(f) == IF opt.encrypt THEN OemSigned(f \o <<"encrypt">>) ELSE OemSigned(f)

\* tegraflash_nvsign(): with NVIDIA's key.
NvSign(f, only_sign) ==
    LET a == Aligned(f)
        e == IF only_sign THEN a ELSE a \o <<"encrypt">>
        sh == e \o <<"sigheader">>
    IN When(Exists(f), <<<<"copy", F(f), a>>>>) \o RunTool
       \o When(~only_sign, <<<<"copy", F(a), e>>>>) \o <<<<"header", F(e), sh>>>>
       \o <<<<"sign", F(sh), sh>>, <<"attach", F(sh), sh>>, <<"copy", F(sh), f \o <<"dev">>>>>>

\* MB1 goes to the boot ROM as an RCM message: --applet, with a header and a
\* signature, within a message that is signed too.  --applet then names the file
\* with the header.
GenerateRcmMessage ==
    LET f == IF opt.encrypt THEN val.applet \o <<"encrypt">> ELSE val.applet
        sh == f \o <<"sigheader">>
    IN <<Call("preprocess_configs")>>
       \o When(opt.encrypt, <<<<"copy", F(val.applet), f>>, <<"edit", F(f), "encrypted">>>>)
       \o <<<<"header", F(f), sh>>, Call("get_key_mode"), <<"sign", F(sh), sh>>, <<"attach", F(sh), sh>>,
            <<"set", "applet", sh>>, <<"tool">>>>
       \o When(opt.ratchet, RunTool)
       \o <<<<"join", <<F(sh)>>, <<"rcm">>>>, <<"sign", F(<<"rcm">>), <<"rcm">>>>,
            <<"attach", F(<<"rcm">>), <<"rcm">>>>>>

-----------------------------------------------------------------------------
(* Boot configuration tables.                                              *)

BrBct == <<"br_bct", "BR">>
ChainFile(c) == IF c = "A" THEN <<"br_bct", "a_BR">> ELSE <<"br_bct", "b_BR">>
ChainKey(c) == IF c = "A" THEN "chain_A" ELSE "chain_B"
\* Most generators look for .dts in --sdram_config, which fails on None.
SdramCrash == When(~opt.sdram, Crashing)

FillMb1StorageInfo(c) ==
    SdramCrash \o <<<<"keep", "bct", BrBct>>, <<"make", BrBct, <<"bct", c>>>>>>
    \o When(kept.pt # None, <<<<"edit", S("mb1"), "storage">>>>)

UpdateBoardinfo(f) == When(opt.nct, <<<<"edit", F(f), "boardinfo">>>>)
UpdateOdmdata(f) == When(opt.odm, <<<<"edit", F(f), "odm">>>>)
GenerateBrBct(c) ==
    SdramCrash \o <<<<"keep", "bct", BrBct>>, <<"make", BrBct, <<"bct", c>>>>>>
    \o When(kept.pt # None, <<<<"digest", F(BrBct)>>, <<"tool">>>>)
    \o UpdateBoardinfo(BrBct) \o UpdateOdmdata(BrBct)
    \o When(opt.encrypt, <<<<"tool">>, <<"edit", F(BrBct), "encrypted">>>>)
    \o <<<<"tool">>, <<"sign", F(BrBct), BrBct>>, <<"attach", F(BrBct), BrBct>>>>

GenerateBctBackupImage ==
    <<<<"tool">>,
      <<"join", IF opt.chains = 1 THEN <<K("chain_A")>> ELSE <<K("chain_A"), K("chain_B")>>,
        <<"bct_backup">>>>,
      <<"keep", "backup", <<"bct_backup">>>>>>
OneChain(c, fill_mb1, gen_br_bct) ==
    When(fill_mb1, <<CallWith("fill_mb1_storage_info", c)>>)
    \o When(gen_br_bct, <<CallWith("generate_br_bct", c)>>)
    \o <<<<"rename", "bct", ChainFile(c)>>, <<"keep", ChainKey(c), ChainFile(c)>>>>
GenerateBrBctMultiChain(fill_mb1, gen_br_bct) ==
    OneChain("A", fill_mb1, gen_br_bct)
    \o When(opt.chains = 2, OneChain("B", fill_mb1, gen_br_bct))
    \o <<<<"rename", "chain_A", BrBct>>, <<"keep", "chain_A", BrBct>>>>
    \o When(opt.backup, GenerateBctBackupImage)

GenerateMb1Bct(is_cold_boot) ==
    LET f == IF is_cold_boot THEN <<"mb1_cold_boot_bct", "MB1">> ELSE <<"mb1_bct", "MB1">>
        k == IF is_cold_boot THEN "mb1_cold_boot_bct" ELSE "mb1_bct"
    IN SdramCrash \o <<<<"make", f, <<"mb1_bct">>>>, <<"keep", k, f>>>>
       \o When(kept.pt # None, <<<<"edit", F(f), "fwinfo">>>>)
       \o When(opt.ratchet, <<<<"edit", F(f), "ratchet">>>>)
       \o SignOem(f) \o <<<<"keep", k, SignedOem(f)>>>>

\* The four tables of the cold boot are one file; that for recovery is the one of
\* the board's RAM strap.
GenerateMemBct(is_cold_boot) ==
    IF is_cold_boot
    THEN <<<<"tool">>, <<"make", <<"mem_coldboot">>, <<"mem">>>>>>
         \o When(opt.encrypt, <<CallWith("oem_encrypt_and_sign_file", <<<<"mem_coldboot">>, FALSE>>)>>)
         \o <<CallWith("oem_sign_file", <<"mem_coldboot">>),
              <<"keep", "membct_cold_boot", OemSigned(<<"mem_coldboot">>)>>>>
    ELSE <<<<"tool">>, <<"ramcode">>, Call("mem_rcm")>>
MemRcm == <<<<"make", <<"mem_rcm">>, <<"mem", kept.ramcode[1]>>>>>> \o SignOem(<<"mem_rcm">>)
          \o <<<<"keep", "membct_rcm", SignedOem(<<"mem_rcm">>)>>>>

GenerateBct ==
    IF opt.external THEN <<>>
    ELSE <<CallWith("multi_chain", <<FALSE, TRUE>>),
           CallWith("generate_mb1_bct", TRUE), CallWith("generate_mb1_bct", FALSE),
           CallWith("generate_mem_bct", TRUE), CallWith("generate_mem_bct", FALSE)>>

SignImages(bct_flag) ==
    <<<<"list">>>> \o When(bct_flag, <<CallWith("multi_chain", <<TRUE, FALSE>>)>>) \o <<<<"signlist">>>>
UpdateImages == <<<<"repoint">>>>

-----------------------------------------------------------------------------
(* Sending.                                                                *)

PollAppletBl == <<<<"poll", {"mb1", "mb2applet", "mb2"}, MaxPolls, Raising>>>>
SendTboot(r) == <<<<"send", "bootrom", <<r>>, "mb1">>, Call("poll_applet_bl")>>
\* With --securedev the command gives the signed message as --applet.
Tboot == IF opt.secure THEN SendTboot(F(<<"mb1">>)) ELSE SendTboot(F(<<"rcm">>))

SendBct ==
    When(opt.secure, RunTool)
    \o IF None \in {kept.bct, kept.mb1_bct, kept.membct_rcm} THEN Crashing
       ELSE <<<<"send", "mb1", <<K("bct"), K("mb1_bct"), K("membct_rcm")>>, "mb1">>>>

Boot19(boot_type) == <<<<"boot">>>> \o When(boot_type = "recovery", <<Call("poll_applet_bl")>>)

\* The files of --bl and --bins by links blob_...: a link is a copy that is made
\* when it is read.
InBlob == <<"bl", "mb2", "bldtb", "bpmp_dtb">>
BlobFile(x, sign_images) == IF sign_images THEN OemSigned(<<x, "blob">>) ELSE <<x, "blob">>
BlobPiece(x, sign_images) ==
    <<<<"copy", F(<<x>>), <<x, "blob">>>>>> \o When(sign_images, <<CallWith("oem_sign_file", <<x, "blob">>)>>)
GenerateBlob(sign_images) ==
    BlobPiece("bl", sign_images) \o BlobPiece("mb2", sign_images)
    \o BlobPiece("bldtb", sign_images) \o BlobPiece("bpmp_dtb", sign_images) \o RunTool
SendBootloader(sign_images) ==
    <<CallWith("generate_blob", sign_images),
      <<"send", "mb1", [i \in 1..4 |-> F(BlobFile(InBlob[i], sign_images))], "blob">>>>

SendMb2Applet == SignOem(<<"applet">>) \o <<<<"send", "mb1", <<F(SignedOem(<<"applet">>))>>, "applet">>>>
BootMb2Applet ==
    <<Call("send_mb2_applet")>> \o Boot19("recovery") \o <<<<"poll", {"mb2applet"}, MaxPolls, <<>>>>>>

\* The tables of secure images are those of the command line.
KeepBct == <<<<"keep", "bct", <<"bct">>>>>>
KeepGiven == KeepBct \o <<<<"keep", "mb1_bct", <<"mb1_bct">>>>, <<"keep", "membct_rcm", <<"mem_bct">>>>>>
KeepColdBoot == <<<<"keep", "bct_cold_boot", <<"bct">>>>, <<"keep", "mb1_cold_boot_bct", <<"mb1_bct">>>>,
                  <<"keep", "membct_cold_boot", <<"mem_bct">>>>>>
\* tegraflash_send_bootloader(), tegraflash_boot('recovery').
UpToCpubl(sign_images) == <<CallWith("send_bootloader", sign_images)>> \o Boot19("recovery")

-----------------------------------------------------------------------------
(* Writing.                                                                *)

FlashSecondaryGptBackup == RunTool
JustFlash == <<<<"create">>>> \o When(opt.gpt_backup, FlashSecondaryGptBackup)
SparseUpdatePart(p) ==
    <<<<"tool">>>> \o When(part[p] # Contents(P(p)), <<<<"erase", p>>, <<"write", p, P(p)>>>>)
SparseUpdateQspi == [i \in 1..5 |->
    CallWith("sparse_update_part", <<"mb1", "psc", "mb2", "dce", "bpmp_dtb">>[i])]
CompareGPTOfQspi == \E p \in Types : part[p] # Absent
OtherDevice == <<<<"write", "kernel_dtb", P("kernel_dtb")>>>>
FlashPartitions ==
    RunTool \o (IF opt.sparse /\ CompareGPTOfQspi THEN SparseUpdateQspi \o OtherDevice ELSE JustFlash)

FlashBct ==
    LET key == ChainKey(opt.chain)
        binary == IF kept.bct_cold_boot # None THEN "bct_cold_boot"
                  ELSE IF kept[key] # None THEN key ELSE "bct"
        mb1 == IF kept.mb1_cold_boot_bct # None THEN "mb1_cold_boot_bct" ELSE "mb1_bct"
    IN <<<<"write", "BCT", K(binary)>>>>
       \o When(opt.backup /\ kept.backup # None, <<<<"write", "BCT_backup", K("backup")>>>>)
       \o <<<<"write", "MB1_BCT", K(mb1)>>>>
       \o When(kept.membct_cold_boot # None, <<<<"write", "MEM_BCT", K("membct_cold_boot")>>>>)

GetStorageInfo == RunTool \o Except(RunTool)
ToPartitions == UpToCpubl(~opt.secure) \o Calls(<<"get_storage_info", "flash_partitions", "flash_bct">>)
Flash ==
    Calls(<<"get_key_mode", "preprocess_configs", "generate_rcm_message", "parse_partitionlayout",
            "trim_bpmp_fw_dtb">>)
    \o <<CallWith("sign_images", TRUE)>>
    \o Calls(<<"generate_bct", "update_images", "send_tboot", "send_bct">>) \o ToPartitions
SecureFlash ==
    KeepGiven \o KeepColdBoot \o Calls(<<"parse_partitionlayout", "send_tboot", "send_bct">>) \o ToPartitions

RcmBoot ==
    RunTool
    \o (IF opt.secure THEN KeepGiven ELSE Calls(<<"get_key_mode", "generate_rcm_message", "generate_bct">>))
    \o Calls(<<"send_tboot", "send_bct">>) \o <<CallWith("send_bootloader", ~opt.secure)>> \o Boot19("rcm")

\* tegraflash_rcmbl() needs --applet-cpu.
RcmBl ==
    RunTool
    \o (IF opt.secure THEN KeepBct
        ELSE Calls(<<"generate_rcm_message", "parse_partitionlayout">>) \o <<CallWith("sign_images", TRUE)>>
             \o Calls(<<"generate_bct", "update_images">>))
    \o Calls(<<"send_tboot", "send_bct">>) \o RunTool \o UpToCpubl(TRUE)

\* What read, write, erase and others begin with: up to the BCTs.  sign_images
\* gives --bct a name, so that a BCT is made and sent.  With --securedev only the
\* BR-BCT of the command line is kept, and SendBct fails on the two it lacks.
Begin ==
    RunTool
    \o (IF opt.secure THEN KeepBct \o <<Call("send_tboot")>>
        ELSE Calls(<<"generate_rcm_message", "send_tboot", "get_key_mode", "parse_partitionlayout">>)
             \o <<CallWith("sign_images", TRUE), Call("generate_bct")>>)
    \o <<Call("send_bct")>>
\* CcgUpdate and SetVerify take the device's own BCT when they have no other.
BeginCcg ==
    RunTool
    \o (IF opt.secure THEN KeepBct \o <<Call("send_tboot")>>
        ELSE Calls(<<"generate_rcm_message", "send_tboot", "get_key_mode", "parse_partitionlayout">>)
             \o <<CallWith("sign_images", TRUE), Call("generate_bct"), Call("send_bct")>>)

\* With --sdram_config the CPU bootloader reads; without it MB2, and when that
\* has not come up nothing is read.
ReadPartition(p, f) ==
    IF opt.sdram \/ opt.secure THEN Begin \o <<CallWith("read_file", <<p, f>>)>>
    ELSE RunTool \o Calls(<<"generate_rcm_message", "send_tboot", "get_key_mode">>)
         \o <<CallWith("read_by_mb2", <<p, f>>)>>
ReadFile(p, f) ==
    When(~Cpubl, UpToCpubl(TRUE) \o <<Call("poll_applet_bl")>>) \o <<<<"read", p, f>>>>
ReadByMb2(p, f) == When(Mb1, <<Call("boot_mb2_applet")>>) \o <<CallWith("read_if_mb2", <<p, f>>)>>
ReadIfMb2(p, f) == When(Mb2, RunTool \o <<<<"make", f, part[p].is>>>>)

WritePartition(p, f) == Begin \o UpToCpubl(TRUE) \o <<CallWith("write_file", <<p, f>>)>>
\* Without one of this invocation the tables are made again; the backup comes first.
WriteFile(p, f) ==
    LET key == ChainKey(opt.chain) IN
    IF p # "BCT" THEN <<<<"write", p, F(f)>>>>
    ELSE When(kept[key] = None, <<CallWith("multi_chain", <<FALSE, TRUE>>)>>)
         \o When(opt.backup, <<<<"write", "BCT_backup", K("backup")>>>>) \o <<<<"write", "BCT", K(key)>>>>
\* The file is signed through a link 1_..., and then written like any other.
SignWrite(p, f) ==
    <<Call("get_key_mode"), <<"copy", F(f), f \o <<"1">>>>, CallWith("oem_sign_file", f \o <<"1">>)>>
    \o WritePartition(p, OemSigned(f \o <<"1">>))
ErasePartition(p) == Begin \o UpToCpubl(TRUE) \o <<<<"erase", p>>>>
CcgUpdate == BeginCcg \o UpToCpubl(TRUE) \o RunTool
SetVerify == BeginCcg \o UpToCpubl(TRUE) \o RunTool

RebootTo(kind) ==
    IF kind \notin {"coldboot", "recovery"} THEN Raising ELSE <<<<"reboot", kind>>>>

-----------------------------------------------------------------------------
(* Reading and burning.                                                    *)

\* What they begin with.
RcmTboot == When(~opt.secure, <<Call("generate_rcm_message")>>) \o <<Call("send_tboot")>>

FetchChipInfo == <<<<"chipinfo">>>> \o Except(<<<<"chipinfo">>>>)
FetchBoardInfo == RunTool
DumpEeprom ==
    When(~Mb2, <<Call("boot_mb2_applet")>>) \o FetchChipInfo
    \o RunTool \o Except(RunTool) \o <<<<"make", <<"cvm">>, <<"cvm">>>>>>
\* A dump of RAM below and above 4 GiB: above, the CPU has to be started first.
DumpRam(above) == RunTool \o When(above, RunTool) \o RunTool \o <<<<"reboot", "coldboot">>>>
DumpPtm == RunTool
Dump(what) ==
    (IF opt.secure THEN KeepBct \o Calls(<<"send_tboot", "send_bct">>) ELSE RcmTboot)
    \o (CASE what = "eeprom" -> <<Call("dumpeeprom")>>
          [] what = "ram" -> DumpRam(TRUE)
          [] what \in {"ptm", "bit"} -> DumpPtm
          [] OTHER -> Raising)

\* With the CPU bootloader, where MB1 cannot do it.
FuseSendbl ==
    (IF opt.secure THEN KeepGiven \o KeepColdBoot \o <<Call("send_bct")>>
     ELSE Calls(<<"get_key_mode", "parse_partitionlayout">>)
          \o <<CallWith("sign_images", TRUE)>> \o Calls(<<"generate_bct", "update_images", "send_bct">>))
    \o UpToCpubl(~opt.secure)
\* When the boot ROM does not answer, something else may be running already.
TbootOrPoll == RcmTboot \o Except(<<Call("poll_applet_bl")>>)
BurnFuses ==
    RunTool \o TbootOrPoll \o RunTool
    \o <<<<"tool">>, <<"boot">>>> \o Except(<<Call("fuse_sendbl"), <<"tool">>, <<"reboot", "recovery">>>>)
BlowFuses == RunTool \o RcmTboot \o RunTool
ReadFuses == TbootOrPoll \o RunTool \o <<Call("fuse_sendbl"), <<"tool">>, <<"make", <<"fuses">>, <<"fuses">>>>>>
ProvisionRollback ==
    When(opt.bct, <<Call("generate_rcm_message"), Call("generate_bct")>>)
    \o When(~opt.bct /\ ~opt.secure, <<Call("generate_rcm_message")>>)
    \o <<Call("send_tboot")>> \o When(opt.bct, <<Call("send_bct"), Call("get_storage_info")>>) \o RunTool
Test(what) ==
    RunTool \o RcmTboot
    \o (CASE what = "sdram" -> When(opt.bct, <<Call("generate_bct"), Call("send_bct")>>) \o RunTool
          [] what = "eeprom" -> RunTool
          [] OTHER -> Raising)
UfsOtp == RunTool \o RcmTboot \o Calls(<<"get_key_mode", "generate_bct", "send_bct">>) \o UpToCpubl(TRUE) \o RunTool
\* parse fusebypass <file> <sku> [forcebypass]; a SKU "auto" is asked of the device.
ParseFuseBypass(c) ==
    IF c[2] # "fusebypass" \/ Len(c) < 4 \/ (Len(c) = 5 /\ c[5] # "forcebypass") THEN Raising
    ELSE When(c[4] = "auto", <<Call("generate_rcm_message"), Call("send_tboot")>> \o FetchChipInfo \o FetchBoardInfo)
         \o RunTool
ReadMrr == RcmTboot \o When(opt.bct, <<Call("generate_bct"), Call("send_bct")>>) \o RunTool

-----------------------------------------------------------------------------
(* Only files.                                                             *)

\* tegraflash_t19x_encrypt_and_sign(): the list's images, encrypted and signed.
T19xEncryptAndSign ==
    <<Call("parse_partitionlayout"), <<"list">>, <<"signlist">>, CallWith("multi_chain", <<TRUE, FALSE>>)>>
    \o Encrypting(list["mb2"]) \o <<<<"copy", F(OemSigned(list["mb2"] \o <<"encrypt">>)), <<"out", "mb2">>>>>>
EncryptSignBrBct ==
    <<Call("get_key_mode")>>
    \o (IF opt.encrypt
        THEN <<Call("generate_rcm_message"), Call("t19x_encrypt_and_sign"), CallWith("multi_chain", <<TRUE, TRUE>>)>>
        ELSE <<Call("parse_partitionlayout"), CallWith("sign_images", TRUE),
               CallWith("multi_chain", <<FALSE, TRUE>>), Call("update_images")>>)
    \o <<Call("copy_br_bct_multi_chain")>>
\* tegraflash_encrypt_sign_binary(), which does "sign F T" for both.
EncryptSignBinary(f, type) ==
    When(type = "bpmp_dtb", <<Call("trim_bpmp_fw_dtb")>>) \o <<Call("get_key_mode")>> \o RunTool
    \o When(opt.ratchet, RunTool)
    \o IF type = "BCT" THEN <<Call("encrypt_sign_br_bct")>>
       ELSE <<<<"copy", F(f), f \o <<"1">>>>>> \o SignOem(f \o <<"1">>)
            \o <<<<"copy", F(SignedOem(f \o <<"1">>)), <<"out", type>>>>>>

SignedDir(t) == <<"out", t>>
CopyBrBctMultiChain == <<<<"copy", K("chain_A"), SignedDir("BCT")>>>>
                       \o When(kept.backup # None, <<<<"copy", K("backup"), SignedDir("BCT_backup")>>>>)
CopySignedBinaries == <<<<"copy", S("mb1"), SignedDir("mb1")>>, <<"copy", S("mb2"), SignedDir("mb2")>>>>
\* tegraflash_update_cfg_file(): file names of signed images and of the tables.
CopyKept(k, t) == When(kept[k] # None, <<<<"copy", K(k), SignedDir(t)>>>>)
CopyTables == CopyKept("mb1_bct", "mb1_bct") \o CopyKept("mb1_cold_boot_bct", "MB1_BCT")
              \o CopyKept("membct_rcm", "membct_rcm") \o CopyKept("membct_cold_boot", "MEM_BCT")
CopyBinaries(fs) == [i \in DOMAIN fs |-> <<"copy", F(fs[i]), <<"out">> \o fs[i]>>]
GenerateIndexFile == RunTool
\* tegraflash_sign(): MB2 and the bootloader are signed again from their files.
SignAll ==
    Calls(<<"trim_bpmp_fw_dtb", "get_key_mode", "preprocess_configs", "generate_rcm_message",
            "parse_partitionlayout">>)
    \o <<CallWith("sign_images", TRUE)>> \o Calls(<<"generate_bct", "update_images">>) \o RunTool
    \o <<CallWith("oem_sign_file", <<"mb2">>), CallWith("oem_sign_file", <<"bl">>), Call("sign_copies")>>
\* tegraflash_update_cfg_file() writes a layout beside the copies, which nothing
\* here reads; it names no BCT when there is none.
SignCopies ==
    CopySignedBinaries \o CopyBrBctMultiChain \o CopyTables
    \o CopyBinaries(<<OemSigned(<<"mb2">>), OemSigned(<<"bl">>)>>) \o GenerateIndexFile
\* tegraflash_encrypt_and_sign(): the same, with encryption.
EncryptAndSign ==
    Calls(<<"trim_bpmp_fw_dtb", "get_key_mode", "generate_rcm_message", "t19x_encrypt_and_sign">>)
    \o Encrypting(<<"mb2">>) \o Encrypting(<<"bl">>)
    \o <<CallWith("multi_chain", <<TRUE, FALSE>>), Call("generate_bct"), Call("encrypted_copies")>>
EncryptedCopies == CopySignedBinaries \o CopyBrBctMultiChain \o CopyTables \o RunTool \o GenerateIndexFile

GenerateDevimages == RunTool \o RunTool
MkDevimages(bct_flag) ==
    Calls(<<"get_key_mode", "parse_partitionlayout">>) \o <<CallWith("sign_images", bct_flag)>>
    \o When(bct_flag, <<Call("generate_bct")>>) \o <<Call("update_images")>> \o GenerateDevimages
GenerateRecoveryBlob == <<Call("get_key_mode"), CallWith("generate_blob", TRUE)>>

-----------------------------------------------------------------------------
(* The method of a call, and the program of a command.                     *)

Method(m, a) ==
    CASE m = "get_key_mode" -> GetKeyMode
      [] m = "preprocess_configs" -> PreprocessConfigs
      [] m = "parse_partitionlayout" -> ParsePartitionlayout
      [] m = "update_t194_bpmp_dtb" -> UpdateT194BpmpDtb
      [] m = "odm_bldtb" -> OdmBldtb
      [] m = "overlay_bldtb" -> OverlayBldtb(a)
      [] m = "concat_overlay_dtb" -> ConcatOverlayDtb(a)
      [] m = "trim_bpmp_fw_dtb" -> TrimBpmpFwDtb
      [] m = "bpmp_generate_dtb" -> BpmpGenerateDtb
      [] m = "sign_images" -> SignImages(a)
      [] m = "oem_sign_file" -> OemSignFile(a)
      [] m = "oem_encrypt_and_sign_file" -> OemEncryptAndSignFile(a[1], a[2])
      [] m = "generate_rcm_message" -> GenerateRcmMessage
      [] m = "fill_mb1_storage_info" -> FillMb1StorageInfo(a)
      [] m = "generate_br_bct" -> GenerateBrBct(a)
      [] m = "multi_chain" -> GenerateBrBctMultiChain(a[1], a[2])
      [] m = "generate_bct" -> GenerateBct
      [] m = "generate_mb1_bct" -> GenerateMb1Bct(a)
      [] m = "generate_mem_bct" -> GenerateMemBct(a)
      [] m = "mem_rcm" -> MemRcm
      [] m = "update_images" -> UpdateImages
      [] m = "send_tboot" -> Tboot
      [] m = "send_bct" -> SendBct
      [] m = "generate_blob" -> GenerateBlob(a)
      [] m = "send_bootloader" -> SendBootloader(a)
      [] m = "send_mb2_applet" -> SendMb2Applet
      [] m = "boot_mb2_applet" -> BootMb2Applet
      [] m = "poll_applet_bl" -> PollAppletBl
      [] m = "get_storage_info" -> GetStorageInfo
      [] m = "flash_partitions" -> FlashPartitions
      [] m = "sparse_update_part" -> SparseUpdatePart(a)
      [] m = "flash_bct" -> FlashBct
      [] m = "read_file" -> ReadFile(a[1], a[2])
      [] m = "read_by_mb2" -> ReadByMb2(a[1], a[2])
      [] m = "read_if_mb2" -> ReadIfMb2(a[1], a[2])
      [] m = "write_file" -> WriteFile(a[1], a[2])
      [] m = "dumpeeprom" -> DumpEeprom
      [] m = "fuse_sendbl" -> FuseSendbl
      [] m = "t19x_encrypt_and_sign" -> T19xEncryptAndSign
      [] m = "encrypt_sign_br_bct" -> EncryptSignBrBct
      [] m = "copy_br_bct_multi_chain" -> CopyBrBctMultiChain
      [] m = "sign_copies" -> SignCopies
      [] m = "encrypted_copies" -> EncryptedCopies

Program(c) ==
    CASE c[1] = "flash" -> Flash
      [] c[1] = "secureflash" -> SecureFlash
      [] c[1] = "rcmboot" -> RcmBoot
      [] c[1] = "rcmbl" -> RcmBl
      [] c[1] = "reboot" -> RebootTo(IF Len(c) = 1 THEN "coldboot" ELSE c[2])
      [] c[1] = "write" -> WritePartition(c[2], c[3])
      [] c[1] = "signwrite" -> SignWrite(c[2], c[3])
      [] c[1] = "read" -> ReadPartition(c[2], c[3])
      [] c[1] = "erase" -> ErasePartition(c[2])
      [] c[1] = "setverify" -> SetVerify
      [] c[1] = "dump" -> Dump(c[2])
      [] c[1] = "readfuses" -> ReadFuses
      [] c[1] = "burnfuses" -> BurnFuses
      [] c[1] = "blowfuses" -> BlowFuses
      [] c[1] = "setrollback" -> ProvisionRollback
      [] c[1] = "test" -> Test(c[2])
      [] c[1] = "parse" -> ParseFuseBypass(c)
      [] c[1] = "readmrr" -> ReadMrr
      [] c[1] \in {"verify", "flush_sata", "sata_fwdownload", "packageccg"} -> RunTool
      [] c[1] = "updaterpmb" -> <<>>   \* not supported
      [] c[1] = "sign" /\ Len(c) = 1 -> IF opt.encrypt THEN EncryptAndSign ELSE SignAll
      [] c[1] = "sign" /\ Len(c) > 1 -> EncryptSignBinary(c[2], IF Len(c) = 3 THEN c[3] ELSE "data")
      [] c[1] = "nvsign" -> NvSign(c[2], Len(c) = 4 /\ c[4] = "only_sign")
      [] c[1] = "ccgupdate" -> CcgUpdate
      [] c[1] = "ufsotp" -> UfsOtp
      [] c[1] = "mkdevimages" -> MkDevimages(Len(c) = 1 \/ c[2] # "nobct")
      [] c[1] = "generate_recovery_blob" -> GenerateRecoveryBlob
=============================================================================
