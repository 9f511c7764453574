------------------------------ MODULE MCSocBup ------------------------------
(***************************************************************************)
(* A T23x with four configurations, one of them without MB1_BCT and one    *)
(* without a kernel, and a table with a row of every kind.                 *)
(***************************************************************************)
EXTENDS SocBup

MCSpecs == {"agx0", "agx4", "holo", "open"}
MCFuse == [s \in MCSpecs |-> IF s = "open" THEN "nofuse" ELSE "production"]
Small == {"BCT", "A_mb1", "A_psc_bl1", "A_MB1_BCT", "A_eks"}
Full == Small \cup {"A_smm-fw", "A_kernel", "A_kernel-dtb", "A_xusb-fw"}
MCLayout == [s \in MCSpecs |-> CASE s = "holo" -> Full \ {"A_MB1_BCT"} [] s = "open" -> Small [] OTHER -> Full]

Row(list, part, name, signedImage, board, mode, skip) ==
    [list |-> list, part |-> part, name |-> Word(name, 1),
     signed |-> signedImage, board |-> board, mode |-> mode, skip |-> skip]
MCTable == <<
    Row("bl", "BCT", "BCT", TRUE, TRUE, TRUE, FALSE), Row("bl", "A_mb1", "mb1", TRUE, TRUE, TRUE, FALSE),
    Row("bl", "A_psc_bl1", "psc_bl1", TRUE, FALSE, TRUE, FALSE), Row("bl", "A_MB1_BCT", "MB1_BCT", TRUE, TRUE, FALSE, FALSE),
    Row("bl", "A_eks", "eks", TRUE, FALSE, FALSE, FALSE), Row("bl", "A_smm-fw", "smm-fw", TRUE, FALSE, FALSE, TRUE),
    Row("bl", "A_xusb-fw", "xusb-fw", TRUE, FALSE, TRUE, FALSE),
    Row("kernel", "A_kernel", "kernel", FALSE, FALSE, FALSE, FALSE), Row("kernel", "A_kernel-dtb", "kernel-dtb", TRUE, TRUE, FALSE, FALSE),
    Row("xusb", "A_xusb-fw", "xusb-fw", TRUE, FALSE, TRUE, FALSE)>>
MCDirOrder == <<"agx0", "agx4", "holo", "nofuse", "open", "production">>
MCPartSize == [p \in {MCTable[i].part : i \in DOMAIN MCTable} |-> IF p \in {"BCT", "A_kernel"} THEN 2 ELSE 1]
MCLevels == [mb1_ratchet_level |-> 1, mts_ratchet_level |-> 2]

Soc(specs, debug) == [kind |-> "soc", specs |-> specs, debug |-> debug]
MCSessions == {
    Soc(<<"agx0", "agx4", "holo">>, FALSE), Soc(<<"agx0", "open">>, TRUE), Soc(<<"holo">>, TRUE),
    [kind |-> "one", specs |-> <<"agx4">>, debug |-> FALSE], [kind |-> "add", specs |-> <<"open">>, debug |-> FALSE]}
=============================================================================
