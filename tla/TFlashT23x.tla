------------------------------ MODULE TFlashT23x ------------------------------
(***************************************************************************)
(* The methods of class TFlashT23x_Base (tegraflash_impl_t234.py), each as *)
(* the sequence of its steps.  Names are those of the code without their   *)
(* prefix tegraflash_.  Body gives the steps of a called method.           *)
(***************************************************************************)
EXTENDS FlashSteps

Mb2 == dev.stage = "mb2"
Mb2Applet == dev.stage = "mb2applet"
Raising == <<<<"raise">>>>
Crashing == <<<<"crash">>>>

-----------------------------------------------------------------------------
(* Device trees and the partition layout.                                  *)

\* tegraflash_create_backup_file(): the file without the suffix is copied,
\* unless there is such a copy already.
Backup(f, suffix) == Append(Without(f, suffix), suffix)
CreateBackupFile(f, suffix) ==
    IF ~Exists(Without(f, suffix)) THEN Raising
    ELSE When(~Exists(Backup(f, suffix)), <<<<"copy", F(Without(f, suffix)), Backup(f, suffix)>>>>)

\* Any exception is turned into one of the program; dtbcheck.py runs on a copy.
UpdateBpmpDtb ==
    LET f == Backup(layout["bpmp_dtb"], "with_odm") IN
    CreateBackupFile(layout["bpmp_dtb"], "with_odm")
    \o <<<<"layout", "bpmp_dtb", f>>, <<"odm", f>>, <<"tool">>>>

UpdateKernelDtb ==
    LET named == IF val.kerneldtb # None THEN val.kerneldtb ELSE layout["kernel_dtb"]
        f == Backup(named, "with_odm")
    IN CreateBackupFile(named, "with_odm")
       \o <<<<"layout", "kernel_dtb", f>>, <<"set", "kerneldtb", f>>, <<"odm", f>>>>

UpdateCpublDtb ==
    LET f == Backup(val.bldtb, "with_odm") IN
    CreateBackupFile(val.bldtb, "with_odm") \o <<<<"set", "bldtb", f>>, <<"odm", f>>>>

\* tegraflash_concat_overlay_dtb(): in place.
ConcatOverlayDtb ==
    When(opt.overlay /\ ~asks /\ Exists(val.bldtb), <<<<"edit", F(val.bldtb), "overlay">>>>)

\* The copy of a file with another one after it; both have to be there.
Concatenate(f, with, x) ==
    IF Exists(f) THEN <<<<"copy", F(f), f \o <<with>>>>, <<"edit", F(f \o <<with>>), x>>>>
    ELSE Raising

ConcatenateCpublBldtb == Concatenate(<<"bl">>, "with_dtb", "bldtb")
ConcatenateDcebinKerneldtb(f) == Concatenate(f, "with_kernel_dtb", "dtb")
ConcatenateMb2bctMb2(f) == Concatenate(f, "with_mb2_bct", "mb2bct")

\* tegraflash_generate_mb2_bct() writes the MB2 BCT, and --updatestorageinfo
\* needs the parsed layout: ' '.join() fails on None.
GenerateMb2Bct == IF kept.pt = None THEN RunTool \o Crashing ELSE RunTool \o RunTool
CombineMb2 == GenerateMb2Bct \o ConcatenateMb2bctMb2(layout["mb2"])
              \o <<<<"layout", "mb2", layout["mb2"] \o <<"with_mb2_bct">>>>>>
CombineDce == ConcatenateDcebinKerneldtb(layout["dce"])
              \o <<<<"layout", "dce", layout["dce"] \o <<"with_kernel_dtb">>>>>>

\* The combined files are named in flash.xml.tmp, which is parsed twice.
ParsePartitionlayout(dce_comb) ==
    <<<<"pt">>, <<"set", "rawkerneldtb", layout["kernel_dtb"]>>>>
    \o When(opt.odm /\ ~asks, Calls(<<"update_bpmp_dtb", "update_kernel_dtb", "update_cpubl_dtb">>))
    \o <<Call("concat_overlay_dtb")>>
    \o When(opt.concat /\ ~asks, <<Call("concatenate_cpubl_bldtb")>>)
    \o When(opt.mb2cfg /\ ~asks, <<Call("combine_mb2")>>)
    \o When(dce_comb /\ ~asks, <<Call("combine_dce")>>)
    \o <<<<"pt">>>>

-----------------------------------------------------------------------------
(* Signing.                                                                *)

GetKeyMode == RunTool
PreprocessConfigs == RunTool
Aligned(f) == f \o <<"aligned">>
\* A special case of encryption and several digests, for the magic id FSKP.
OemEncFskp(f) == <<<<"tool">>, <<"copy", F(f), f \o <<"encrypt">>>>, <<"edit", F(f \o <<"encrypt">>), "encrypted">>>>
OemSignFskp(f) ==
    LET e == f \o <<"encrypt">> IN
    OemEncFskp(f) \o <<<<"edit", F(e), "sha">>, <<"sign", F(e), e>>,
                       <<"attach", F(e \o <<"signed">>), e>>, <<"tool">>>>

\* The file that is signed is the aligned copy with a header.  A missing file
\* is not noticed while a copy of it is there from before.
Signing(f, sh) ==
    <<<<"sign", F(sh), sh>>, <<"attach", F(sh \o <<"signed">>), sh>>,
      <<"copy", F(sh \o <<"signed">>), Without(sh, "aligned") \o <<"signed">>>>>>
OemSignFile(f, magic) ==
    LET sh == Aligned(f) \o <<"sigheader">> IN
    When(Exists(f), <<<<"copy", F(f), Aligned(f)>>>>)
    \o <<<<"tool">>, <<"header", F(Aligned(f)), sh>>>>
    \o (IF magic = "FSKP" THEN OemSignFskp(sh) ELSE Signing(f, sh))
OemSigned(f) == f \o <<"sigheader", "signed">>

\* _is_ratchet_set_needed() lacks its parameter self.
IsRatchetSetNeeded == When(opt.ratchet, Crashing)
\* With header the data is encrypted, without it what was encrypted is signed.
OemEncryptAndSignFile(f, header) ==
    LET a == Aligned(f) IN
    When(Exists(f), <<<<"copy", F(f), a>>>>) \o RunTool
    \o (IF header
        THEN <<<<"copy", F(a), f \o <<"encrypt">>>>, <<"edit", F(f \o <<"encrypt">>), "encrypted">>>>
        ELSE IsRatchetSetNeeded
             \o <<<<"header", F(a), a \o <<"sigheader">>>>>> \o Signing(f, a \o <<"sigheader">>))

\* What the methods do with a file: encrypt and sign it, or sign it.
SignOem(f, magic) ==
    IF opt.encrypt
    THEN <<CallWith("oem_encrypt_and_sign_file", <<f, TRUE>>),
           CallWith("oem_encrypt_and_sign_file", <<f \o <<"encrypt">>, FALSE>>)>>
    ELSE <<CallWith("oem_sign_file", <<f, magic>>)>>
SignedOem(f) == IF opt.encrypt THEN OemSigned(f \o <<"encrypt">>) ELSE OemSigned(f)

\* tegraflash_nvsign(): with NVIDIA's key; the data is encrypted unless only_sign.
NvSign(f, only_sign) ==
    LET a == Aligned(f)
        e == IF only_sign THEN a ELSE a \o <<"encrypt">>
        sh == e \o <<"sigheader">>
    IN When(Exists(f), <<<<"copy", F(f), a>>>>) \o RunTool
       \o When(~only_sign, <<<<"copy", F(a), e>>>>) \o <<<<"header", F(e), sh>>>>
       \o When(~only_sign, <<<<"edit", F(sh), "encrypted">>, <<"edit", F(sh), "sha">>>>)
       \o <<<<"sign", F(sh), sh>>, <<"attach", F(sh), sh>>, <<"copy", F(sh), f \o <<"dev">>>>>>

-----------------------------------------------------------------------------
(* Boot configuration tables.                                              *)

BrBct == <<"br_bct", "BR">>
ChainFile(c) == IF c = "A" THEN <<"br_bct", "a_BR">> ELSE <<"br_bct", "b_BR">>
ChainKey(c) == IF c = "A" THEN "chain_A" ELSE "chain_B"

UpdateBoardinfo(f) == When(opt.nct, <<<<"edit", F(f), "boardinfo">>>>)

\* The list holds the images without signatures yet: MB1 gets its storage
\* information from a BR-BCT made for the purpose.
FillMb1StorageInfo(c) ==
    <<<<"keep", "bct", BrBct>>, <<"make", BrBct, <<"bct", c>>>>>>
    \o When(kept.pt # None, <<<<"edit", S("mb1"), "storage">>>>)

\* Mutant: the SHA is computed before the signature.
GenerateBrBctShaFirst(c) ==
    <<<<"keep", "bct", BrBct>>, <<"make", BrBct, <<"bct", c>>>>>>
    \o When(opt.custinfo, <<<<"edit", F(BrBct), "custinfo">>>>)
    \o When(kept.pt # None, <<<<"digest", F(BrBct)>>>>)
    \o UpdateBoardinfo(BrBct) \o RunTool
    \o <<<<"sha", F(BrBct), BrBct>>, <<"putsha", F(BrBct), BrBct>>, <<"sign", F(BrBct), BrBct>>, <<"attach", F(BrBct), BrBct>>>>
GenerateBrBct(c) ==
    <<<<"keep", "bct", BrBct>>, <<"make", BrBct, <<"bct", c>>>>>>
    \o When(opt.custinfo, <<<<"edit", F(BrBct), "custinfo">>>>)
    \o When(kept.pt # None, <<<<"digest", F(BrBct)>>>>)
    \o UpdateBoardinfo(BrBct) \o RunTool
    \o When(opt.encrypt, <<<<"sign", F(BrBct), BrBct>>, <<"attach", F(BrBct), BrBct>>>>)
    \o <<<<"sign", F(BrBct), BrBct>>, <<"attach", F(BrBct), BrBct>>, <<"sha", F(BrBct), BrBct>>, <<"putsha", F(BrBct), BrBct>>>>

\* generate_bct_backup_image(): the tables of all chains.
GenerateBctBackupImage ==
    <<<<"tool">>,
      <<"join", IF opt.chains = 1 THEN <<K("chain_A")>> ELSE <<K("chain_A"), K("chain_B")>>,
        <<"bct_backup">>>>,
      <<"keep", "backup", <<"bct_backup">>>>>>

\* One table for each boot chain; the one of chain A gets back the name br_bct.
OneChain(c, fill_mb1, gen_br_bct) ==
    When(fill_mb1, <<CallWith("fill_mb1_storage_info", c)>>)
    \o When(gen_br_bct, <<CallWith("generate_br_bct", c)>>)
    \o <<<<"rename", "bct", ChainFile(c)>>, <<"keep", ChainKey(c), ChainFile(c)>>>>
GenerateBrBctMultiChain(fill_mb1, gen_br_bct) ==
    OneChain("A", fill_mb1, gen_br_bct)
    \o When(opt.chains = 2, OneChain("B", fill_mb1, gen_br_bct))
    \o <<<<"rename", "chain_A", BrBct>>, <<"keep", "chain_A", BrBct>>>>
    \o When(opt.backup, GenerateBctBackupImage)

GenerateMb1Bct(is_cold_boot) ==
    LET f == IF is_cold_boot THEN <<"mb1_cold_boot_bct", "MB1">> ELSE <<"mb1_bct", "MB1">>
        k == IF is_cold_boot THEN "mb1_cold_boot_bct" ELSE "mb1_bct"
    IN <<<<"make", f, <<"mb1_bct">>>>, <<"keep", k, f>>>>
       \o When(kept.pt # None, <<<<"edit", F(f), "fwinfo">>>>)
       \o When(opt.ratchet, <<<<"edit", F(f), "ratchet">>>>)
       \o SignOem(f, "MBCT") \o <<<<"keep", k, SignedOem(f)>>>>

\* chip_info.bin is only ever there as chip_info.bin_bak, which stays.
\* bpmp_generate_dtb() trims the file in place.
Ramcode == IF ramfile # NoRam THEN ramfile ELSE opt.ramcode
BpmpGenerateDtb == When(opt.trim, <<<<"tool">>, <<"edit", F(<<"bpmp_dtb">>), Ramcode>>>>)
GenerateMemBct(is_cold_boot) ==
    IF asks THEN <<>>
    ELSE IF is_cold_boot
    THEN <<<<"tool">>, <<"make", <<"mem_coldboot">>, <<"mem">>>>>>
         \o <<CallWith("oem_sign_file", <<<<"mem_coldboot">>, "MEMB">>),
              <<"keep", "membct_cold_boot", OemSigned(<<"mem_coldboot">>)>>>>
    ELSE RunTool \o BpmpGenerateDtb \o <<<<"make", <<"mem_rcm">>, <<"mem", Ramcode>>>>>>
         \o SignOem(<<"mem_rcm">>, "MEM") \o <<<<"keep", "membct_rcm", SignedOem(<<"mem_rcm">>)>>>>

GenerateBct ==
    <<Call("preprocess_configs"), CallWith("multi_chain", <<FALSE, TRUE>>),
      CallWith("generate_mb1_bct", TRUE), CallWith("generate_mb1_bct", FALSE),
      CallWith("generate_mem_bct", TRUE), CallWith("generate_mem_bct", FALSE)>>

SignImages(bct_flag) ==
    <<<<"list">>>> \o When(bct_flag, <<CallWith("multi_chain", <<TRUE, FALSE>>)>>) \o <<<<"signlist">>>>
    \o When(opt.mode \in {"pkc", "sbk"}, <<<<"layout", "dce", layout["dce"] \o <<"sigheader">>>>>>)
\* Mutant: the layout keeps the names of the unsigned files.
UpdateNothing == RunTool
UpdateImages == <<<<"repoint">>>>

-----------------------------------------------------------------------------
(* Sending.                                                                *)

\* get_file_name_from_images_list() finds names for the modes pkc and sbk only;
\* printing None + ... is a TypeError.
FromImagesList == When(~opt.mb1_bin /\ opt.mode \notin {"pkc", "sbk"}, Crashing)

\* With --securedev the board information goes outside what was signed.
SendToBootrom ==
    When(opt.secure /\ opt.nct, RunTool) \o FromImagesList
    \o <<<<"send", "bootrom", <<K("bct"), S("mb1"), S("psc"), K("mb1_bct")>>, "mb1">>>>

\* The images of --bins.  MB2 gets its BCT, and the DCE firmware the kernel's
\* device tree, again, from the source files.
Blobbed(t) == CASE t = "mb2" -> <<"mb2", "with_mb2_bct">>
                [] t = "dce" /\ val.rawkerneldtb # None -> <<"dce", "with_kernel_dtb">>
                [] OTHER -> <<t>>
InBlob == <<"bl", "mb2", "dce", "bpmp_dtb">>
BlobFile(t, sign_images) == IF sign_images THEN OemSigned(Blobbed(t)) ELSE <<t>>
GenerateBlob(sign_images) ==
    When(sign_images,
         <<CallWith("oem_sign_file", <<<<"bl">>, "CPBL">>), Call("generate_mb2_bct")>>
         \o ConcatenateMb2bctMb2(<<"mb2">>)
         \o <<CallWith("oem_sign_file", <<Blobbed("mb2"), "MB2B">>)>>
         \o When(val.rawkerneldtb # None, ConcatenateDcebinKerneldtb(<<"dce">>))
         \o <<CallWith("oem_sign_file", <<Blobbed("dce"), "DCE">>),
              CallWith("oem_sign_file", <<<<"bpmp_dtb">>, "BPMD">>)>>)
    \o RunTool
SendToBootloader(sign_images) ==
    <<CallWith("generate_blob", sign_images),
      <<"send", "mb1", <<K("membct_rcm")>> \o [i \in 1..4 |-> F(BlobFile(InBlob[i], sign_images))],
        "mb2">>>>

SendMb2Applet ==
    SignOem(<<"applet">>, "MB2A") \o <<<<"send", "mb1", <<F(SignedOem(<<"applet">>))>>, "mb2applet">>>>
\* Not a word when the rounds are over.
BootMb2Applet == <<Call("send_mb2_applet"), <<"poll", {"mb2applet"}, MaxPolls, <<>>>>>>
PollAppletBl == <<<<"poll", {"mb2applet", "mb2"}, MaxPolls, Raising>>>>

\* What most commands begin with, some of them with tegraflash_preprocess_configs()
\* before or after the layout.
PrepareFrom(first) ==
    Calls(<<"get_key_mode">> \o first) \o <<CallWith("sign_images", TRUE)>>
    \o Calls(<<"generate_bct", "update_images">>)
Layout == <<"parse_partitionlayout">>
ConfigsLayout == <<"preprocess_configs">> \o Layout
LayoutConfigs == Layout \o <<"preprocess_configs">>
SendBoth == <<Call("send_to_bootrom"), CallWith("send_to_bootloader", TRUE)>>
UpToMb2(first) == PrepareFrom(first) \o SendBoth \o <<Call("poll_applet_bl")>>

-----------------------------------------------------------------------------
(* Writing.                                                                *)

FlashSecondaryGptBackup == RunTool
JustFlash == <<<<"create">>>> \o When(opt.gpt_backup, FlashSecondaryGptBackup)

\* sparseUpdateQspi(): a partition that differs from its file is written.
SparseUpdatePart(p) ==
    <<<<"tool">>>> \o When(part[p] # Contents(P(p)), <<<<"erase", p>>, <<"write", p, P(p)>>>>)
SparseUpdateQspi == [i \in 1..5 |->
    CallWith("sparse_update_part", <<"mb1", "psc", "mb2", "dce", "bpmp_dtb">>[i])]
\* compareGPTOfQspi(): any failure counts as a difference.
CompareGPTOfQspi == \E p \in Types : part[p] # Absent
OtherDevice == <<<<"write", "kernel_dtb", P("kernel_dtb")>>>>
FlashPartitions ==
    RunTool \o (IF opt.sparse /\ CompareGPTOfQspi THEN SparseUpdateQspi \o OtherDevice ELSE JustFlash)

\* Mutant: always the table of chain A.
FlashBctA ==
    <<<<"write", "BCT", K("chain_A")>>>>
    \o When(opt.backup /\ kept.backup # None, <<<<"write", "BCT_backup", K("backup")>>>>)
    \o When(kept.mb1_cold_boot_bct # None, <<<<"write", "MB1_BCT", K("mb1_cold_boot_bct")>>>>)
    \o When(kept.membct_cold_boot # None, <<<<"write", "MEM_BCT", K("membct_cold_boot")>>>>)
\* BCT first, then its backup and the tables of MB1.
FlashBct ==
    LET key == ChainKey(opt.chain) IN
    <<<<"write", "BCT", K(IF kept[key] # None THEN key ELSE "bct")>>>>
    \o When(opt.backup /\ kept.backup # None, <<<<"write", "BCT_backup", K("backup")>>>>)
    \o When(kept.mb1_cold_boot_bct # None, <<<<"write", "MB1_BCT", K("mb1_cold_boot_bct")>>>>)
    \o When(kept.membct_cold_boot # None, <<<<"write", "MEM_BCT", K("membct_cold_boot")>>>>)

\* Any failure is passed over.
GetStorageInfo == RunTool \o <<<<"except", <<>>>>>>
Flash ==
    PrepareFrom(Layout) \o SendBoth
    \o Calls(<<"get_storage_info", "poll_applet_bl", "flash_partitions", "flash_bct">>)

\* tegraflash_secureflash() of images that were signed before.
SecureFlash ==
    <<<<"keep", "bct", <<"bct">>>>, <<"keep", "mb1_bct", <<"mb1_bct">>>>,
      <<"keep", "mb1_cold_boot_bct", <<"mb1_bct">>>>, <<"keep", "membct_rcm", <<"mem_bct">>>>,
      <<"keep", "membct_cold_boot", <<"mem_bct">>>>,
      Call("parse_without_dce"), Call("send_to_bootrom"), CallWith("send_to_bootloader", FALSE)>>
    \o Calls(<<"get_storage_info", "poll_applet_bl", "flash_partitions", "flash_bct">>)

RcmBoot ==
    IF opt.secure
    THEN FromImagesList
         \o <<<<"send", "bootrom", <<F(<<"bct">>), S("mb1"), S("psc"), F(<<"mb1_bct">>)>>, "mb1">>,
              CallWith("generate_blob", FALSE),
              <<"send", "mb1", <<F(<<"mem_bct">>)>>, "mb2">>>>
    ELSE PrepareFrom(ConfigsLayout) \o SendBoth

\* tboot_reset() and mb2applet_reset() refuse what their stage cannot do.
RebootTo(kind) ==
    CASE Mb2 -> IF kind \in {"coldboot", "recovery"} THEN <<<<"reboot", kind>>>> ELSE Raising
      [] Mb2Applet -> IF kind \in {"rcm", "recovery"} THEN <<<<"reboot", kind>>>> ELSE Raising
      [] OTHER -> <<<<"reboot", kind>>>>

\* tegraflash_concat_partition(): what belongs to the DCE firmware is put after it.
ConcatPartition(p, f) ==
    IF p # "dce" THEN <<>>
    ELSE IF val.rawkerneldtb = None THEN Crashing ELSE ConcatenateDcebinKerneldtb(f)
Mb2Partition(p, f) ==
    IF p # "mb2" THEN <<>>
    ELSE IF ~opt.mb2cfg THEN Raising
         ELSE <<Call("generate_mb2_bct")>> \o ConcatenateMb2bctMb2(f)
Combined(p, f) == CASE p = "dce" -> f \o <<"with_kernel_dtb">>
                    [] p = "mb2" -> f \o <<"with_mb2_bct">>
                    [] OTHER -> f
EraseAndWrite(p, r) == <<<<"erase", p>>, <<"write", p, r>>>>

\* tegraflash_signwrite(): does not look whether MB2 runs already.
SignWrite(p, f) ==
    IF opt.secure THEN <<>>
    ELSE UpToMb2(LayoutConfigs) \o RunTool \o <<CallWith("signwrite_file", <<p, f>>)>>
SignWriteFile(p, f) ==
    ConcatPartition(p, f) \o Mb2Partition(p, f)
    \o <<CallWith("oem_sign_file", <<Combined(p, f), p>>)>> \o EraseAndWrite(p, F(OemSigned(Combined(p, f))))

WriteBct(p) ==
    LET key == ChainKey(opt.chain) IN
    When(kept[key] = None, <<CallWith("multi_chain", <<FALSE, TRUE>>)>>)
    \o When(opt.backup, EraseAndWrite("BCT_backup", K("backup"))) \o EraseAndWrite("BCT", K(key))
WritePartition(p, f) ==
    IF opt.secure THEN <<>>
    ELSE When(~Mb2, UpToMb2(LayoutConfigs)) \o <<CallWith("write_file", <<p, f>>)>>
WriteFile(p, f) ==
    IF p = "BCT" THEN WriteBct(p)
    ELSE ConcatPartition(p, f) \o Mb2Partition(p, f) \o EraseAndWrite(p, F(Combined(p, f)))

ErasePartition(p) == RunTool \o When(~opt.secure, When(~Mb2, UpToMb2(Layout)) \o <<<<"erase", p>>>>)
ReadPartition(p, f) == RunTool \o When(~opt.secure, When(~Mb2, UpToMb2(Layout)) \o <<<<"read", p, f>>>>)

-----------------------------------------------------------------------------
(* With the MB2 applet.                                                    *)

UpToApplet(bct_flag) ==
    Calls(<<"get_key_mode", "preprocess_configs", "parse_partitionlayout">>)
    \o <<CallWith("sign_images", bct_flag)>>
    \o Calls(<<"generate_bct", "update_images", "send_to_bootrom", "boot_mb2_applet">>)

FetchChipInfo == <<<<"chipinfo">>, <<"except", <<<<"chipinfo">>>>>>>>
DumpEeprom ==
    LET cvm == <<"make", <<"cvm">>, <<"cvm">>>> IN FetchChipInfo \o <<cvm, <<"except", <<cvm>>>>>>
DumpCustinfo == RunTool \o <<<<"make", <<"custinfo">>, <<"custinfo">>>>>>
\* Without the applet it only says so.
Dump(what) == When(~Mb2Applet, UpToApplet(FALSE)) \o <<CallWith("dump_from_applet", what)>>
DumpFromApplet(what) ==
    IF ~Mb2Applet THEN <<>>
    ELSE CASE what = "eeprom" -> DumpEeprom
           [] what = "custinfo" -> DumpCustinfo
           [] OTHER -> Raising
ReadFuses ==
    IF opt.secure THEN <<>> ELSE When(~Mb2Applet, UpToApplet(TRUE)) \o <<Call("read_fuses_from_applet")>>
ReadFusesFromApplet == IF Mb2Applet THEN RunTool \o RunTool \o <<<<"make", <<"fuses">>, <<"fuses">>>>>> ELSE <<>>

BurnFuses ==
    IF opt.secure THEN <<>>
    ELSE When(~Mb2Applet, PrepareFrom(ConfigsLayout) \o SendBoth \o Calls(<<"get_storage_info", "poll_applet_bl">>))
         \o RunTool \o RunTool \o <<<<"reboot", "recovery">>>>
\* parse fusebypass <file> <sku> [forcebypass]
ParseFuseBypass(c) ==
    IF c[2] # "fusebypass" \/ Len(c) < 4 \/ (Len(c) = 5 /\ c[5] # "forcebypass") THEN Raising ELSE RunTool
UfsOtp == IF opt.secure THEN <<>> ELSE PrepareFrom(Layout) \o SendBoth \o RunTool \o RunTool
CcgUpdate == RunTool \o When(~opt.secure, UpToMb2(LayoutConfigs) \o RunTool \o RunTool)

-----------------------------------------------------------------------------
(* Only files.                                                             *)

EncryptSignBrBct ==
    IF opt.mode # "zerosbk" THEN Raising
    ELSE <<Call("parse_partitionlayout"), CallWith("sign_images", TRUE),
           CallWith("multi_chain", <<FALSE, TRUE>>), Call("update_images")>>
TypeIn(c) == IF Len(c) = 3 THEN c[3] ELSE "data"
SignBinary(f, type) ==
    Calls(<<"get_key_mode">>)
    \o IF type = "BCT" THEN <<Call("encrypt_sign_br_bct"), <<"copy", K("bct"), <<"out", "BCT">>>>>>
       ELSE <<CallWith("oem_sign_file", <<f, type>>), <<"copy", F(OemSigned(f)), <<"out", type>>>>>>
EncryptSignBinary(f, type) ==
    IF type = "FSKP" THEN <<CallWith("oem_sign_file", <<f, type>>)>>
    ELSE IF type = "BCT"
    THEN <<Call("encrypt_sign_br_bct"), <<"copy", K("bct"), <<"out", "BCT">>>>>>
    ELSE <<Call("get_key_mode")>> \o SignOem(f, type) \o <<<<"copy", F(SignedOem(f)), <<"out", type>>>>>>

\* tegraflash_copy_signed_binaries(), update_cfg_file(): the signed images, their
\* layout and the tables are copied to the directory signed.
SignedDir(t) == <<"out", t>>
CopySignedBinaries == <<<<"copy", S("mb1"), SignedDir("mb1")>>, <<"copy", S("psc"), SignedDir("psc")>>,
                        <<"copy", S("mb2"), SignedDir("mb2")>>, <<"copy", S("dce"), SignedDir("dce")>>>>
CopyBrBctMultiChain == <<<<"copy", K("chain_A"), SignedDir("BCT")>>>>
                       \o When(kept.backup # None, <<<<"copy", K("backup"), SignedDir("BCT_backup")>>>>)
CopyKept(k, t) == When(kept[k] # None, <<<<"copy", K(k), SignedDir(t)>>>>)
\* tegraflash_update_cfg_file() writes a layout beside the copies, which nothing
\* here reads; it names no BCT when there is none.
SignCopies ==
    CopySignedBinaries \o CopyBrBctMultiChain
    \o CopyKept("mb1_bct", "mb1_bct") \o CopyKept("mb1_cold_boot_bct", "MB1_BCT")
    \o CopyKept("membct_rcm", "membct_rcm") \o CopyKept("membct_cold_boot", "MEM_BCT") \o RunTool
\* tegraflash_sign(): all of it, in the order in which flash needs it.
SignAll ==
    Calls(<<"get_key_mode", "parse_partitionlayout">>) \o <<CallWith("sign_images", TRUE)>>
    \o Calls(<<"generate_bct", "update_images">>)
    \o RunTool \o <<Call("generate_mb2_bct")>> \o ConcatenateMb2bctMb2(<<"mb2">>)
    \o <<CallWith("oem_sign_file", <<Blobbed("mb2"), "MB2B">>),
         CallWith("oem_sign_file", <<<<"dce">>, "DCE">>),
         CallWith("oem_sign_file", <<<<"bpmp_dtb">>, "BPMD">>),
         CallWith("oem_sign_file", <<<<"applet">>, "MB2A">>),
         CallWith("oem_sign_file", <<<<"bl">>, "CPBL">>), Call("sign_copies")>>

GenerateDevimages == RunTool \o RunTool
MkDevimages(bct_flag) ==
    Calls(<<"get_key_mode", "parse_partitionlayout">>) \o <<CallWith("sign_images", bct_flag)>>
    \o When(bct_flag, <<Call("generate_bct")>>) \o <<Call("update_images")>> \o GenerateDevimages
GenerateRecoveryBlob == <<Call("get_key_mode"), CallWith("generate_blob", TRUE)>>

-----------------------------------------------------------------------------
(* The method of a call, and the program of a command.                     *)

Method(m, a) ==
    CASE m = "get_key_mode" -> GetKeyMode
      [] m = "preprocess_configs" -> PreprocessConfigs
      [] m = "parse_partitionlayout" -> ParsePartitionlayout(TRUE)
      [] m = "parse_without_dce" -> ParsePartitionlayout(FALSE)
      [] m = "update_bpmp_dtb" -> UpdateBpmpDtb
      [] m = "update_kernel_dtb" -> UpdateKernelDtb
      [] m = "update_cpubl_dtb" -> UpdateCpublDtb
      [] m = "concat_overlay_dtb" -> ConcatOverlayDtb
      [] m = "concatenate_cpubl_bldtb" -> ConcatenateCpublBldtb
      [] m = "combine_mb2" -> CombineMb2
      [] m = "combine_dce" -> CombineDce
      [] m = "sign_images" -> SignImages(a)
      [] m = "oem_sign_file" -> OemSignFile(a[1], a[2])
      [] m = "oem_encrypt_and_sign_file" -> OemEncryptAndSignFile(a[1], a[2])
      [] m = "fill_mb1_storage_info" -> FillMb1StorageInfo(a)
      [] m = "generate_br_bct" -> GenerateBrBct(a)
      [] m = "multi_chain" -> GenerateBrBctMultiChain(a[1], a[2])
      [] m = "generate_bct" -> GenerateBct
      [] m = "generate_mb1_bct" -> GenerateMb1Bct(a)
      [] m = "generate_mb2_bct" -> GenerateMb2Bct
      [] m = "generate_mem_bct" -> GenerateMemBct(a)
      [] m = "update_images" -> UpdateImages
      [] m = "send_to_bootrom" -> SendToBootrom
      [] m = "generate_blob" -> GenerateBlob(a)
      [] m = "send_to_bootloader" -> SendToBootloader(a)
      [] m = "send_mb2_applet" -> SendMb2Applet
      [] m = "boot_mb2_applet" -> BootMb2Applet
      [] m = "poll_applet_bl" -> PollAppletBl
      [] m = "get_storage_info" -> GetStorageInfo
      [] m = "flash_partitions" -> FlashPartitions
      [] m = "sparse_update_part" -> SparseUpdatePart(a)
      [] m = "flash_bct" -> FlashBct
      [] m = "signwrite_file" -> SignWriteFile(a[1], a[2])
      [] m = "write_file" -> WriteFile(a[1], a[2])
      [] m = "dump_from_applet" -> DumpFromApplet(a)
      [] m = "read_fuses_from_applet" -> ReadFusesFromApplet
      [] m = "encrypt_sign_br_bct" -> EncryptSignBrBct
      [] m = "sign_copies" -> SignCopies

Program(c) ==
    CASE c[1] = "flash" -> Flash
      [] c[1] = "secureflash" -> SecureFlash
      [] c[1] = "rcmboot" -> RcmBoot
      [] c[1] = "reboot" -> RebootTo(IF Len(c) = 1 THEN "coldboot" ELSE c[2])
      [] c[1] = "write" -> WritePartition(c[2], c[3])
      [] c[1] = "signwrite" -> SignWrite(c[2], c[3])
      [] c[1] = "read" -> ReadPartition(c[2], c[3])
      [] c[1] = "erase" -> ErasePartition(c[2])
      [] c[1] = "dump" -> Dump(c[2])
      [] c[1] = "readfuses" -> ReadFuses
      [] c[1] = "burnfuses" -> BurnFuses
      [] c[1] = "parse" -> ParseFuseBypass(c)
      [] c[1] = "sign" /\ Len(c) = 1 -> IF opt.encrypt THEN Crashing ELSE SignAll
      [] c[1] = "sign" /\ Len(c) > 1 ->
             IF opt.encrypt THEN EncryptSignBinary(c[2], TypeIn(c)) ELSE SignBinary(c[2], TypeIn(c))
      [] c[1] = "nvsign" -> NvSign(c[2], Len(c) = 4 /\ c[4] = "only_sign")
      [] c[1] = "packageccg" -> RunTool
      [] c[1] = "ccgupdate" -> CcgUpdate
      [] c[1] = "ufsotp" -> UfsOtp
      [] c[1] = "mkdevimages" -> MkDevimages(Len(c) = 1 \/ c[2] # "nobct")
      [] c[1] = "generate_recovery_blob" -> GenerateRecoveryBlob
      [] OTHER -> Crashing   \* an AttributeError: this chip has no such method
=============================================================================
