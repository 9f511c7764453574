---------------------------- MODULE MCTegraflash ----------------------------
(***************************************************************************)
(* Sessions of flash.sh: flashing, one partition, signing, secure images,  *)
(* booting without flashing; for a T234 (0x23) and a T194 (0x19).          *)
(***************************************************************************)
EXTENDS TegraflashInv

MCSources == {<<"mb1">>, <<"psc">>, <<"mb2">>, <<"dce">>, <<"kernel_dtb">>, <<"bpmp_dtb">>,
              <<"bl">>, <<"bldtb">>, <<"applet">>, <<"bct">>, <<"mb1_bct">>, <<"mem_bct">>}

\* What is common to all sessions; the board is a T234.
Orin == [chip |-> "0x23", use |-> "flash", batch |-> TRUE, secure |-> FALSE, mode |-> "pkc",
         encrypt |-> FALSE, odm |-> TRUE, overlay |-> TRUE, concat |-> TRUE, mb2cfg |-> TRUE,
         mb1_bin |-> FALSE, nct |-> TRUE, custinfo |-> FALSE, ratchet |-> FALSE, chains |-> 1,
         chain |-> "A", backup |-> FALSE, gpt_backup |-> FALSE, sparse |-> FALSE, trim |-> FALSE,
         ramcode |-> "ram0", sdram |-> TRUE, external |-> FALSE, bct |-> FALSE,
         unheard |-> FALSE, lacks |-> {}]
Xavier == [Orin EXCEPT !.chip = "0x19", !.use = "flash19"]
TwoChains(o) == [o EXCEPT !.encrypt = TRUE, !.chains = 2, !.chain = "B", !.backup = TRUE, !.gpt_backup = TRUE]
\* Two sessions, with fewer files to combine.
Trimmed(o) == [o EXCEPT !.use = IF o.chip = "0x23" THEN "again" ELSE "again19", !.trim = TRUE, !.sparse = TRUE,
                        !.ratchet = o.chip = "0x19", !.overlay = FALSE, !.concat = FALSE, !.nct = FALSE]
\* Images that were signed before come with their own layout and trees.
Secure(o) == [o EXCEPT !.use = IF o.chip = "0x23" THEN "secure" ELSE "secure19", !.secure = TRUE,
                       !.mb1_bin = TRUE, !.odm = FALSE, !.overlay = FALSE, !.concat = FALSE, !.mb2cfg = FALSE]
MCOptions ==
    {Orin, TwoChains(Orin), Trimmed(Orin), [Orin EXCEPT !.use = "part"], [Orin EXCEPT !.use = "rest"],
     [Orin EXCEPT !.use = "files", !.unheard = TRUE], [Orin EXCEPT !.use = "files", !.mode = "zerosbk", !.encrypt = TRUE],
     [Orin EXCEPT !.use = "odd", !.lacks = {"nv_key"}], [Xavier EXCEPT !.use = "odd", !.lacks = {"nv_key"}],
     [Orin EXCEPT !.use = "odd", !.batch = FALSE],
     [Orin EXCEPT !.use = "rest", !.mode = "ec", !.custinfo = TRUE],
     [Orin EXCEPT !.use = "rest", !.ratchet = TRUE, !.encrypt = TRUE],
     Secure([Orin EXCEPT !.backup = TRUE]), Secure([Orin EXCEPT !.batch = FALSE]), Secure(Xavier),
     Xavier, TwoChains(Xavier), Trimmed(Xavier),
     [Xavier EXCEPT !.use = "part19", !.unheard = TRUE], [Xavier EXCEPT !.use = "part19", !.sdram = FALSE],
     [Xavier EXCEPT !.use = "rest19", !.bct = TRUE], [Xavier EXCEPT !.use = "files19", !.encrypt = TRUE],
     [Xavier EXCEPT !.use = "files19", !.ratchet = TRUE, !.backup = TRUE],
     [Xavier EXCEPT !.use = "files19", !.external = TRUE]}

AskOrin == << <<"readfuses">>, <<"dump", "eeprom">>, <<"dump", "custinfo">>, <<"reboot", "recovery">> >>
AskXavier == << <<"dump", "eeprom">>, <<"reboot", "recovery">> >>
ColdBoot == <<"reboot", "coldboot">>
FlashAll == << <<"flash">>, ColdBoot >>
One(c) == << <<c>> >>
\* flash.sh -k: one partition.
WritesOf(ps) == {<< << <<w, p, f>>, ColdBoot >> >> : w \in {"write", "signwrite"}, p \in ps, f \in {<<"mb2">>}}
MCSessions ==
    [flash |-> {<<AskOrin, FlashAll>>}, only |-> {<<FlashAll>>}, again |-> {<<AskXavier, FlashAll>>},
     part |-> WritesOf({"mb2", "dce", "kernel_dtb"}) \cup
              {<< << <<"write", "BCT", <<"bct">> >>, ColdBoot >> >>,
               << << <<"erase", "mb2">>, <<"signwrite", "mb2", <<"mb2">> >>, ColdBoot >> >>,
               << << <<"sign">>, <<"write", "MB1_BCT", <<"out", "MB1_BCT">> >>, ColdBoot >> >>,
               << << <<"read", "mb2", <<"back">> >> >> >>},
     rest |-> {One(<<"rcmboot">>), One(<<"burnfuses">>), One(<<"ufsotp", "params">>),
               One(<<"ccgupdate", "fw1", "fw2">>), One(<<"dump", "ram">>),
               << << <<"parse", "fusebypass", "xml", "misc">>, <<"reboot", "halt">> >> >>},
     files |-> {One(<<"sign">>), One(<<"sign", <<"mb2">>, "BCT">>), One(<<"sign", <<"mb2">>, "FSKP">>),
                One(<<"sign", <<"mb2">>, "mb2">>), One(<<"sign", <<"mb2">> >>),
                One(<<"nvsign", <<"mb2">>, "MB2B", "only_sign">>), One(<<"nvsign", <<"mb2">>, "MB2B">>),
                One(<<"mkdevimages">>), One(<<"mkdevimages", "nobct">>), One(<<"generate_recovery_blob">>)},
     \* Commands with too few or too many words, unknown ones, and those that only
     \* one of the chips has.
     odd |-> {<< << <<"read", "mb2">>, <<"write">>, <<"signwrite", "mb2">>, <<"erase">>, <<"dump">>,
                    <<"nvsign", <<"mb2">> >>, <<"ufsotp">>, <<"test", "sdram">>, <<"parse", "fusebypass">>,
                    <<"burnfuses", "a", "b", "c">>, <<"nvsign", <<"mb2">>, "MB2B">> >> >>,
              One(<<"flsh">>), One(<<"nvsign", <<"mb2">>, "MB2B", "sign_only">>), One(<<"parse", "fuses", "xml">>),
              One(<<"packageccg", "fw1", "fw2">>), One(<<"readmrr">>), One(<<"verify">>), One(<<"flush_sata">>),
              One(<<"sata_fwdownload">>), One(<<"updaterpmb">>)},
     read |-> {One(<<"read", "mb2", <<"back">> >>)},
     secure |-> {<< << <<"secureflash">>, ColdBoot >> >>, One(<<"rcmboot">>)},
     flash19 |-> {<<AskXavier, FlashAll>>}, again19 |-> {<<AskXavier, FlashAll>>},
     part19 |-> WritesOf({"mb2"}) \cup
                {<< << <<"sign">>, <<"write", "MB1_BCT", <<"out", "MB1_BCT">> >>, ColdBoot >> >>,
                 << << <<"write", "BCT", <<"bct">> >>, ColdBoot >> >>,
                 << << <<"erase", "mb2">>, <<"signwrite", "mb2", <<"mb2">> >>, ColdBoot >> >>,
                 << << <<"read", "mb2", <<"back">> >> >> >>},
     rest19 |-> {One(<<"rcmboot">>), One(<<"rcmbl">>), One(<<"burnfuses">>), One(<<"blowfuses">>),
                 One(<<"readfuses">>), One(<<"setrollback">>), One(<<"test", "sdram", "x">>), One(<<"test", "eeprom">>),
                 One(<<"dump", "ram">>), One(<<"dump", "ptm">>), One(<<"parse", "fusebypass", "xml", "auto">>),
                 One(<<"ufsotp", "params">>), One(<<"ccgupdate", "fw1", "fw2">>), One(<<"setverify", "mb2">>), << << <<"reboot", "halt">> >> >>},
     files19 |-> {One(<<"sign">>), One(<<"sign", <<"mb2">>, "BCT">>), One(<<"sign", <<"bpmp_dtb">>, "bpmp_dtb">>),
                  One(<<"nvsign", <<"mb2">>, "MB2B">>), One(<<"mkdevimages">>),
                  One(<<"generate_recovery_blob">>)},
     secure19 |-> {<< << <<"secureflash">>, ColdBoot >> >>, One(<<"rcmboot">>), One(<<"readfuses">>)}]
MCMaxSwaps == [u \in DOMAIN MCSessions |-> IF u \in {"again", "again19"} THEN 1 ELSE 0]
MCRamcodes == {"ram0", "ram1"}

\* Only sessions with several boards need boards that differ.
MCInit == Init /\ (MaxSwaps[opt.use] > 0 \/ dev.ram = opt.ramcode)
MCSpec == MCInit /\ [][Next]_vars /\ Fairness

\* For the two runs that are about one session each.
StaleOptions == {Trimmed(Orin)}
UnheardOptions == {[TwoChains(Orin) EXCEPT !.use = "only", !.encrypt = FALSE, !.unheard = TRUE]}
ReadOptions == {[Orin EXCEPT !.use = "read"], [Xavier EXCEPT !.use = "read", !.sdram = FALSE]}
=============================================================================
