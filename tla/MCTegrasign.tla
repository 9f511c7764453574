----------------------------- MODULE MCTegrasign -----------------------------
(***************************************************************************)
(* Calls of tegrasign on two small files: the lists of tegraflash, single  *)
(* files, derivations natively and by an HSM, and calls that cannot work.  *)
(***************************************************************************)
EXTENDS Tegrasign

MCFiles == {"mb1", "rcm"}
MCSize == [mb1 |-> 4, rcm |-> 5]

MCKdkTable == [k \in Upper \cup {"TOSB_KDK", "BPMP_KDK", "MB1_KDK", "RCE_KDK", "APP_KDK"} |->
    CASE k = "TOSB_KDK" -> "SBK_GP_TOSB_KDK" [] k = "SBK_GP_TOSB_KDK" -> "SBK_GP_KDK"
      [] k = "SBK_GP_KDK" -> "SBK_TZ_KDK" [] k = "SBK_TZ_KDK" -> "SBK_NVMB_KDK"
      [] k \in {"MB1_KDK", "SBK_FW_KDK"} -> "SBK_NVMB_KDK"
      [] k = "RCE_KDK" -> "SBK_FW_KDK" [] OTHER -> "SBK"]
MCDkTable == [d \in {"SBK_TOSB_DK", "SBK_BPMP_DTB_DK", "SBK_MB1_DK", "SBK_RCE_DK", "SBK_APP_DK"} |->
    CASE d = "SBK_TOSB_DK" -> "TOSB_KDK" [] d = "SBK_BPMP_DTB_DK" -> "BPMP_KDK"
      [] d = "SBK_MB1_DK" -> "MB1_KDK" [] d = "SBK_RCE_DK" -> "RCE_KDK" [] OTHER -> "APP_KDK"]
MCMagicTable == [m \in {"APPL"} |-> "APP_KDK"]

Sbk1 == KeyFile("sbk", 1)
Sbk2 == KeyFile("sbk", 2)
Ec1 == KeyFile("ecc", 1)
Ec2 == KeyFile("ecc", 2)

Tags == {"sbk", "pkc", "ec", "eddsa", "xmss"}
Node(f, off, len, key) == [file |-> f, off |-> off, len |-> len, key |-> key, tags |-> Tags,
                           encrypt |-> TRUE, sign |-> TRUE, sha |-> NoSha]
Plain(nd) == [nd EXCEPT !.encrypt = FALSE]
Digested(nd, f, off, len) == [nd EXCEPT !.sha = [file |-> f, off |-> off, len |-> len]]

Call == [what |-> "list", keys |-> <<Sbk1>>, isList |-> FALSE, hsm |-> "off", kdf |-> "no", list |-> <<>>,
         file |-> "mb1", off |-> 0, len |-> 0, block |-> 0, enc |-> "no", sign |-> "no", getmode |-> FALSE,
         pkh |-> "no", iv |-> "none", algo |-> "none", standalone |-> FALSE, words |-> {}, dk |-> NoDk,
         magic |-> "none", ver |-> 1, flag |-> "SBK_PT"]
OfList(ks, l) == [Call EXCEPT !.keys = ks, !.isList = TRUE, !.list = l]
OfFile(kf, f, off, len) == [Call EXCEPT !.what = "file", !.keys = <<kf>>, !.file = f, !.off = off, !.len = len]
OfKdf(f, words) == [OfFile(Sbk1, f, 0, 0) EXCEPT !.kdf = "file", !.words = words]
Keyless(what) == [Call EXCEPT !.what = what, !.keys = <<>>]

ListCalls == {
    OfList(<<Sbk1, Sbk2>>, <<Digested(Node("mb1", 0, 0, 1), "mb1", 1, 2), Plain(Node("rcm", 1, 4, 0))>>),
    OfList(<<Sbk1>>, <<Digested(Node("mb1", 0, 2, 0), "rcm", 0, 0), Digested(Node("rcm", 0, 4, 0), "rcm", 4, 2)>>),
    OfList(<<KeyFile("None", 0)>>, <<Node("mb1", 2, 2, 0), Node("rcm", 0, 2, 0)>>),
    [OfList(<<Ec1, Ec2>>, <<Node("mb1", 0, 2, 0), Node("rcm", 1, 0, 1)>>) EXCEPT !.pkh = "pair"],
    [OfList(<<XmssKey>>, <<Node("mb1", 0, 0, 0), Node("rcm", 0, 0, 0)>>) EXCEPT !.pkh = "pair"],
    OfList(<<Sbk1, Ec1>>, <<Node("mb1", 0, 0, 0)>>),
    OfList(<<Sbk1>>, <<Node("mb1", 0, 0, 0), Node("rcm", 0, 0, 1)>>)}
FileCalls == {
    [OfFile(Sbk1, "rcm", 1, 4) EXCEPT !.getmode = TRUE, !.iv = "random"],
    [OfFile(KeyFile("fskp", 1), "mb1", 0, 2) EXCEPT !.enc = "aesgcm", !.sign = "hmacsha256"],
    [OfFile(Sbk2, "mb1", 0, 0) EXCEPT !.sign = "hmacsha256"],
    [OfFile(KeyFile("pkc", 1), "mb1", 1, 2) EXCEPT !.pkh = "pair"],
    OfFile(XmssKey, "mb1", 0, 0),
    OfFile(KeyFile("eddsa", 1), "rcm", 1, 5),
    [OfFile(Sbk1, "mb1", 0, 0) EXCEPT !.hsm = "SBK", !.enc = "aesgcm", !.sign = "hmacsha256"],
    [OfFile(KeyFile("pkc", 1), "mb1", 0, 0) EXCEPT !.hsm = "bare"]}
KdfCalls == {
    OfKdf("mb1", {"tos"}), OfKdf("rcm", {"bpmp", ".dtb"}),
    [OfKdf("mb1", {"mb1"}) EXCEPT !.off = 2, !.flag = "SBK_WRAP"],
    [OfKdf("mb1", {"rce"}) EXCEPT !.flag = "DEV"],
    [OfKdf("rcm", {}) EXCEPT !.magic = "APPL", !.keys = <<>>],
    [OfKdf("rcm", {"tos"}) EXCEPT !.hsm = "SBK", !.block = 2],
    [OfKdf("mb1", {"tos"}) EXCEPT !.hsm = "SBK", !.block = 2],
    [OfFile(Sbk1, "mb1", 0, 0) EXCEPT !.kdf = "one"],
    [OfFile(Sbk1, "mb1", 0, 2) EXCEPT !.kdf = "two"],
    [OfFile(Sbk1, "mb1", 0, 2) EXCEPT !.kdf = "two", !.enc = "aesgcm"],
    [OfFile(Sbk1, "rcm", 0, 0) EXCEPT !.kdf = "two", !.sign = "hmacsha256", !.hsm = "SBK"]}
KeylessCalls == {
    Keyless("random"), Keyless("pubkey"), [Keyless("pubkey") EXCEPT !.algo = "openssl"], [Keyless("pubkey") EXCEPT !.algo = "tegrasign"],
    [Keyless("sha") EXCEPT !.off = 3, !.len = 2, !.standalone = TRUE], Keyless("sha")}
MCCalls == ListCalls \cup FileCalls \cup KdfCalls \cup KeylessCalls
=============================================================================
