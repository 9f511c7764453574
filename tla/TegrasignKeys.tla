---------------------------- MODULE TegrasignKeys ----------------------------
(***************************************************************************)
(* The keys of tegrasign_v3.py: what a key file is taken for, on the       *)
(* native route and on the HSM route, and the chain of derivations from    *)
(* the SBK to the key (DK) that a firmware image is encrypted with.        *)
(*                                                                         *)
(* A key file is a record: what it holds and which one it is.  A symmetric *)
(* key is where it was read from and the messages it was derived with, in  *)
(* order.  The table of KDKs and DKs is a constant: it is a YAML file that *)
(* the repository does not contain (tegrasign_v3_oemkey.yaml).             *)
(***************************************************************************)
EXTENDS Integers, Sequences, SequencesExt

CONSTANTS
    KdkTable,      \* parent of every KDK of the table
    DkTable,       \* the KDK of every DK
    MagicTable,    \* the KDK that a MAGICID labels
    NvDebug,       \* is there a debug key file of NVIDIA's on the PATH?
    NvLoad         \* is there a tegrasign_v3_nvkey_load.py?

KeyFile(type, id) == [type |-> type, id |-> id]
KeyIn(kf) == [root |-> kf, path |-> <<>>]
Kdf(key, msg) == [key EXCEPT !.path = Append(@, msg)]
NoKey == KeyIn(KeyFile("none", 0))
Zero == KeyIn(KeyFile("zero", 0))
NoKeyFile == KeyFile("omitted", 0)

-----------------------------------------------------------------------------
(* What a key file is taken for.  The tests for RSA, ECC and Ed25519 keys  *)
(* are tegraopenssl's; what it answers is taken to be true.                *)

\* 16 or 32 bytes, or 32 or 64 hexadecimal digits.  A binary key in which
\* the byte '0' occurs is read as text if it can be: mixed.
AesKeys == {"sbk", "fskp", "zero"}
ExtractAesKey(kf) == kf.type \in AesKeys
AesKeyOf(kf) == IF kf.type = "zero" THEN Zero ELSE KeyIn(kf)
AesMode(kf) == IF kf.type = "fskp" THEN "FSKP" ELSE "SBK"

\* The key file that stands for the HSM's: NVIDIA's debug key of that type, if
\* there is one, or the one named with --key.
DebugKeys == [SBK |-> "sbk", KEK0 |-> "sbk", FSKP |-> "fskp", PKC |-> "pkc", EDDSA |-> "eddsa"]
KeyFileHsm(p) == IF p.algo \/ p.file.type = "None" \/ ~NvDebug \/ p.type \notin DOMAIN DebugKeys THEN p.file
                 ELSE KeyFile(DebugKeys[p.type], 0)
CanReadSbk(p) == KeyFileHsm(p).type \notin {"missing", "omitted", "unknown"}
SbkKeyContent(p) == IF KeyFileHsm(p).type = "None" THEN p.key ELSE AesKeyOf(KeyFileHsm(p))

IsPkcKeyHsm(kf) == kf.type = "pkc"
IsPkcKey(kf, hsm) == IF hsm THEN IsPkcKeyHsm(kf) ELSE kf.type = "pkc"
IsEccKey(kf, hsm) == ~hsm /\ kf.type = "ecc"
IsEd25519KeyHsm(kf) == kf.type = "eddsa"
IsEd25519Key(kf, hsm) == IF hsm THEN IsEd25519KeyHsm(kf) ELSE kf.type = "eddsa"
IsXmssKey(kf) == kf.type = "xmss"

PublicMode(kf, hsm) == CASE IsPkcKey(kf, hsm) -> "PKC"
                         [] IsEccKey(kf, hsm) -> "ECC"
                         [] IsEd25519Key(kf, hsm) -> "EDDSA"
                         [] OTHER -> "Unknown"

-----------------------------------------------------------------------------
(* SignKey: one key of a call.                                             *)

FreshSignKey == [mode |-> "Unknown", key |-> Zero, file |-> KeyFile("unknown", 0),
                 type |-> "UNKNOWN", algo |-> FALSE]

\* --hsm names a type; without one, the type is the mode given.
ParseHsm(p, hsm, mode) ==
    IF hsm \in {"off", "bare"} THEN [p EXCEPT !.type = mode]
    ELSE IF hsm = "ALGO" THEN [p EXCEPT !.algo = TRUE] ELSE [p EXCEPT !.type = hsm]

ExtractNone(p, kf) == [p EXCEPT !.mode = IF p.type = "FSKP" THEN "FSKP" ELSE "SBK",
                                !.key = Zero, !.file = kf]
\* The XMSS test is not made here.
ExtractHsm(p, kf, hsm) ==
    LET named == [p EXCEPT !.file = kf]
        file == IF hsm THEN KeyFileHsm(named) ELSE kf
    IN CASE p.type \in {"SBK", "KEK0"} -> [named EXCEPT !.mode = "SBK"]
         [] p.type = "FSKP" -> [named EXCEPT !.mode = "FSKP"]
         [] OTHER -> [p EXCEPT !.file = file, !.mode = PublicMode(file, hsm)]
ExtractNative(p, kf, hsm) ==
    IF kf.type = "missing" THEN [p EXCEPT !.mode = "SBK"]
    ELSE [p EXCEPT !.file = kf,
                   !.key = IF ExtractAesKey(kf) THEN AesKeyOf(kf) ELSE p.key,
                   !.mode = IF ExtractAesKey(kf) THEN AesMode(kf)
                            ELSE IF PublicMode(kf, hsm) # "Unknown" THEN PublicMode(kf, hsm)
                            ELSE IF IsXmssKey(kf) THEN "XMSS" ELSE "Unknown"]
\* Mode "Unknown": "Invalid key format".
ExtractKey(p, kf, hsm) ==
    IF kf.type = "None" THEN ExtractNone(p, kf)
    ELSE IF p.type # "UNKNOWN" THEN ExtractHsm(p, kf, hsm)
    ELSE ExtractNative(p, kf, hsm)

HsmModeValid(p) == \/ p.type = p.mode
                   \/ p.type \in {"SBK", "KEK0"} /\ p.mode = "SBK"
                   \/ p.algo

\* A key file of the --kdf kind sets the mode; the key is a placeholder that
\* is not zero, as encryption is skipped with a zero key.
ParseKdfFile(p, kf, hsm) == [p EXCEPT !.file = kf, !.key = KeyIn(KeyFile("placeholder", 0)),
                                      !.mode = IF hsm = "off" THEN "FSKP" ELSE p.type]

-----------------------------------------------------------------------------
(* Which DK an image is encrypted with: the first rule that its name fits. *)
(* A name is the set of the words in question that it contains.            *)

Rule(has, dk) == [has |-> has, dk |-> dk]
MemRules == [i \in 1..4 |-> Rule({"mem", ".bct", ToString(i - 1)}, "SBK_MEMBCT" \o ToString(i - 1) \o "_DK")]
Rules == <<
    Rule({"bpmp", "ist"}, "SBK_BPMP_IST_DK"), Rule({"bpmp", ".dtb"}, "SBK_BPMP_DTB_DK"),
    Rule({"ape"}, "SBK_APE_DK"), Rule({"applet"}, "SBK_BPMP_MB2_DK"), Rule({"bpmp"}, "SBK_BPMP_FW_DK"),
    Rule({"br_bct"}, "SBK_BCT_DK"), Rule({"cpurf"}, "SBK_MB2_RF_DK"), Rule({"dce"}, "SBK_DCE_DK"),
    Rule({"eks"}, "SBK_EKS_DK"), Rule({"fsi"}, "SBK_FSI_DK"), Rule({"ist", "config"}, "SBK_IST_CONFIG_DK"),
    Rule({"ist", "ucode"}, "SBK_IST_UCODE_DK"), Rule({"oist", "ucode"}, "SBK_CCPLEX_IST_DK"),
    Rule({"mb1", "bct"}, "SBK_MB1BCT_DK"), Rule({"mb1"}, "SBK_MB1_DK"),
    Rule({"mb2_bct"}, "SBK_MB2BCT_DK"), Rule({"mb2"}, "SBK_MB2_DK"), Rule({"mce"}, "SBK_MCE_DK")>>
    \o MemRules \o <<
    Rule({"nvdec"}, "SBK_NVDEC_DK"), Rule({"psc_bl"}, "SBK_BL1_DK"), Rule({"pscfw"}, "SBK_PSCFW_PKG_DK"),
    Rule({"psc_rf"}, "SBK_PSC_RF_DK"), Rule({"rce"}, "SBK_RCE_DK"), Rule({"sc7"}, "SBK_SC7_RF_DK"),
    Rule({"sce"}, "SBK_SCE_DK"), Rule({"spe"}, "SBK_SPE_DK"), Rule({"tz", "vault"}, "SBK_TZ_VAULT_DK"),
    Rule({"tos"}, "SBK_TOSB_DK"), Rule({"tsec"}, "SBK_TSEC_DK"), Rule({"jetson"}, "SBK_CPU_BL_DK"),
    Rule({"xusb"}, "SBK_XUSB_DK"), Rule({"os"}, "SBK_OS_DK"), Rule({"hv"}, "SBK_OS_DK")>>

NoDk == "none"
Fitting(words) == SelectSeq(Rules, LAMBDA r : r.has \subseteq words)
MagicDks(magic) == {dk \in DOMAIN DkTable : magic \in DOMAIN MagicTable /\ DkTable[dk] = MagicTable[magic]}
\* The DKs there may be: a dictionary's order decides between several of one KDK.
MapBinToDk(words, dk, magic) ==
    IF dk # NoDk THEN {dk}
    ELSE IF Fitting(words) # <<>> THEN {Head(Fitting(words)).dk}
    ELSE MagicDks(magic)

-----------------------------------------------------------------------------
(* The chain of derivations.                                               *)

NoMsg == <<"none", 0>>
Upper == {"SBK_NVMB_KDK", "SBK_TZ_KDK", "SBK_GP_KDK", "SBK_GP_TOSB_KDK", "SBK_FW_KDK"}
Rank(k) == CASE k = "SBK_NVMB_KDK" -> 1 [] k = "SBK_TZ_KDK" -> 2 [] k = "SBK_GP_KDK" -> 3
             [] k = "SBK_GP_TOSB_KDK" -> 4 [] k = "SBK_FW_KDK" -> 5
\* What the code takes for granted of the table: a KDK is below one of the five
\* or below the root, and one of them only below those before it, which is the
\* order in which the tool derives them.
ASSUME KdkTableAssumption ==
    /\ \A dk \in DOMAIN DkTable : DkTable[dk] \in DOMAIN KdkTable
    /\ \A k \in DOMAIN KdkTable : KdkTable[k] \in DOMAIN KdkTable <=> KdkTable[k] \in Upper
    /\ \A k \in Upper \cap DOMAIN KdkTable : KdkTable[k] \in Upper => Rank(KdkTable[k]) < Rank(k)
Msg(k) == <<k, 0>>               \* composed of the KDK's label
DkMsg(dk, ver) == <<dk, ver>>    \* label and version come with the image

\* KDKs above the DK's own, found going up at most five levels.
Above(dk) == LET up[n \in 0..5] == IF n = 0 THEN KdkTable[DkTable[dk]]
                                   ELSE IF up[n - 1] \in Upper THEN KdkTable[up[n - 1]] ELSE up[n - 1]
             IN up
Visited(dk) == {Above(dk)[n] : n \in 0..4} \cap Upper
MsgOf(dk, k) == IF k \in Visited(dk) THEN Msg(k) ELSE NoMsg

\* The list handed to the tool.  The message of SBK_FW_KDK is not in it.
KdfParamsOem(dk, ver, p) ==
    [sbk  |-> IF ExtractAesKey(p.file) THEN AesKeyOf(p.file) ELSE KeyIn(KeyFile("plain", 0)),
     bl   |-> MsgOf(dk, "SBK_NVMB_KDK"),
     tz   |-> MsgOf(dk, "SBK_TZ_KDK"),
     gp   |-> MsgOf(dk, "SBK_GP_KDK"),
     gpto |-> MsgOf(dk, "SBK_GP_TOSB_KDK"),
     kdk  |-> Msg(DkTable[dk]),
     dk   |-> DkMsg(dk, ver)]

Derive(key, msg) == IF msg = NoMsg THEN key ELSE Kdf(key, msg)
Unwrapped(sbk, flag) == IF flag = "SBK_WRAP" THEN Kdf(sbk, Msg("deckdk")) ELSE sbk
ChainOfTzFirst(m, sbk, flag) ==
    LET tz == Derive(Unwrapped(sbk, flag), m.tz)
        bl == Derive(tz, m.bl)
        gp == Derive(bl, m.gp)
        gpto == Derive(gp, m.gpto)
    IN Kdf(Kdf(gpto, m.kdk), m.dk)
ChainOf(m, sbk, flag) ==
    LET bl == Derive(Unwrapped(sbk, flag), m.bl)
        tz == Derive(bl, m.tz)
        gp == Derive(tz, m.gp)
        gpto == Derive(gp, m.gpto)
    IN Kdf(Kdf(gpto, m.kdk), m.dk)
\* --kdfoem of tegraopenssl, with the list in the order it is written.
KdfOemKey(m, flag) == ChainOf(m, m.sbk, flag)
\* The HSM's SBK is not that of the list; it is read anew, by a SignKey that
\* has no file name.
HsmSignKey == [FreshSignKey EXCEPT !.type = "SBK"]
KdfOemHsmKey(m, flag) == ChainOf(m, SbkKeyContent(HsmSignKey), flag)

\* Keys of NVIDIA's own (flag DEV): parameters of a module that is not in the
\* repository, and a chain of at most two KDKs above the DK's own.
KdfParamsT234(dk, ver) ==
    LET k == DkTable[dk]
    IN <<Msg("deckdk"), IF KdkTable[k] \in Upper THEN Msg(KdkTable[k]) ELSE NoMsg, Msg(k), DkMsg(dk, ver)>>
DevKey(dk, ver) == FoldLeft(Derive, KeyIn(KeyFile("KDK+KDD", 0)), KdfParamsT234(dk, ver))

\* Reference: a KDK's key is derived from its parent's, the root's is the SBK.
RefKdkKey(sbk) == LET key[k \in DOMAIN KdkTable] ==
                          Kdf(IF KdkTable[k] \in DOMAIN KdkTable THEN key[KdkTable[k]] ELSE sbk, Msg(k))
                  IN key
RefDkKey(dk, ver, sbk) == Kdf(RefKdkKey(sbk)[DkTable[dk]], DkMsg(dk, ver))

\* Label and context (--kdf with both): one derivation.
KdfKdf2(p, label) == Kdf(p.key, label)
KdfKdf2Hsm(p, label) == Kdf(SbkKeyContent(p), label)
=============================================================================
