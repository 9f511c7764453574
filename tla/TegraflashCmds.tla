--------------------------- MODULE TegraflashCmds ---------------------------
(***************************************************************************)
(* The handlers do_X() of tegraflash.py: how many words each takes, and    *)
(* which options it asks the user for when they are missing.  With another *)
(* number of words most only print their help, and the program goes on.    *)
(***************************************************************************)
EXTENDS FlashHost

AnyWords == 0..MaxWords
Handler(words, options) == [words |-> words, options |-> options]

\* compulsory_args.  An option that was asked for is kept for the invocation.
DoMkdevimages == Handler(AnyWords, {"cfg", "chip"})
DoFlash == Handler(AnyWords, {"cfg", "bl", "chip", "applet"})
DoSecureflash == Handler(AnyWords, {"bct", "cfg", "bl", "applet"})
DoRcmbl == Handler(AnyWords, {"chip", "applet", "bct", "bldtb", "applet-cpu", "bl"})
DoRcmboot == Handler(AnyWords, {"bl", "chip", "applet"})
DoRead == Handler({2}, {"chip", "applet"})
DoWrite == Handler({2}, {"chip", "applet"})
DoPackageccg == Handler(AnyWords \ 0..1, {"chip"})
DoCcgupdate == Handler({2}, {"bl", "chip", "applet"})
DoSignwrite == Handler({2}, {"chip", "applet"})
DoNvsign == Handler(AnyWords \ 0..1, {"chip", "nv_key", "nvencrypt_key"})
DoErase == Handler({1}, {"bl", "chip", "applet"})
DoVerify == Handler(AnyWords, {})
DoSetverify == Handler({1}, {"bl", "chip", "applet"})
DoReboot == Handler(AnyWords, {})
\* Only without words; a file is signed with what there is.
DoSign == Handler(AnyWords, {"chip", "key"})
DoTest == Handler(AnyWords \ {0}, {"chip", "applet"})
DoParse == Handler(AnyWords \ 0..1, {"chip", "applet"})
DoDump == Handler(AnyWords \ {0}, {"chip", "applet"})
DoBurnfuses == Handler(0..2, {"chip", "applet"})
DoBlowfuses == Handler(AnyWords, {"chip", "applet"})
DoReadfuses == Handler(AnyWords, {"chip", "applet"})
DoFlushSata == Handler(AnyWords, {})
DoSataFwdownload == Handler(AnyWords, {})
DoSetrollback == Handler(AnyWords, {"chip", "applet", "bl"})
DoReadmrr == Handler(AnyWords, {"chip", "applet"})
DoUfsotp == Handler({1}, {"chip", "applet"})
DoGenerateRecoveryBlob == Handler(AnyWords, {"chip", "key", "bins"})
DoUpdaterpmb == Handler(AnyWords, {"bl", "odmdata"})

Commands ==
    [mkdevimages |-> DoMkdevimages, flash |-> DoFlash, secureflash |-> DoSecureflash,
     rcmbl |-> DoRcmbl, rcmboot |-> DoRcmboot, read |-> DoRead, write |-> DoWrite,
     packageccg |-> DoPackageccg, ccgupdate |-> DoCcgupdate, signwrite |-> DoSignwrite,
     nvsign |-> DoNvsign, erase |-> DoErase, verify |-> DoVerify, setverify |-> DoSetverify,
     reboot |-> DoReboot, sign |-> DoSign, test |-> DoTest, parse |-> DoParse, dump |-> DoDump,
     burnfuses |-> DoBurnfuses, blowfuses |-> DoBlowfuses, readfuses |-> DoReadfuses,
     flush_sata |-> DoFlushSata, sata_fwdownload |-> DoSataFwdownload,
     setrollback |-> DoSetrollback, readmrr |-> DoReadmrr, ufsotp |-> DoUfsotp,
     generate_recovery_blob |-> DoGenerateRecoveryBlob, updaterpmb |-> DoUpdaterpmb]

Known(c) == c[1] \in DOMAIN Commands
Words(c) == Len(c) - 1
\* do_test() wants a second word but for "eeprom".
Counted(c) ==
    /\ Words(c) \in Commands[c[1]].words
    /\ c[1] = "test" => Words(c) > 1 \/ c[2] = "eeprom"
Asks(c) ==
    IF (c[1] = "sign" /\ Words(c) > 0) \/ kept.asked # None THEN {}
    ELSE Commands[c[1]].options \cap opt.lacks
\* do_nvsign() calls tegraflash_err() for a third word that it does not know.
WrongOption(c) == c[1] = "nvsign" /\ Words(c) = 3 /\ c[4] # "only_sign" /\ opt.batch

\* What is done of a command, given the program of its method.
Done(c, program) ==
    IF ~Counted(c) THEN <<>>
    ELSE When(Asks(c) # {}, <<<<"ask">>>>)
         \o (IF WrongOption(c) THEN <<<<"caught">>>> ELSE program)

\* input(): the user answers, or there is nobody (EOFError).
Ask ==
    /\ Step("ask")
    /\ \/ Next1 /\ kept' = [kept EXCEPT !.asked = <<"yes">>]
          /\ UNCHANGED <<run, disk, val, layout, pt, list, ramfile, device>>
       \/ status' = "failed" /\ todo' = <<>> /\ UNCHANGED <<opt, jobs, cmds, now, host, device>>
=============================================================================
