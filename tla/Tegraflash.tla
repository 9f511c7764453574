------------------------------ MODULE Tegraflash ------------------------------
(***************************************************************************)
(* tegraflash.py: the commands of an invocation, one after the other.  A   *)
(* handler do_X() gives its command to the methods of the chip and catches *)
(* tegraflash_exception; most handlers then end the program, some do not.  *)
(***************************************************************************)
EXTENDS TegraflashCmds

T19 == INSTANCE TFlashT19x
T23 == INSTANCE TFlashT23x

\* chip_parser()
Program(c) == IF opt.chip = "0x23" THEN T23!Program(c) ELSE T19!Program(c)

\* onecmd(): what does not have a handler goes to default(), an empty line nowhere.
OneCmd(c) == IF ~Known(c) THEN <<<<"caught">>>> ELSE Done(c, Program(c))
Method(m, a) == IF opt.chip = "0x23" THEN T23!Method(m, a) ELSE T19!Method(m, a)

\* The handlers that do not call tegraflash_err().
Quiet == {"read", "erase", "readfuses", "verify", "setverify", "updaterpmb"}

\* tegraflash_run_commands(): the next command; update() makes values[...] anew.
Command ==
    /\ status = "running" /\ todo = <<>> /\ cmds # <<>>
    /\ now' = Head(cmds) /\ cmds' = Tail(cmds)
    /\ val' = FreshValues /\ todo' = OneCmd(now')
    /\ UNCHANGED <<opt, jobs, status, disk, kept, layout, pt, list, ramfile, device>>

\* A method is called.
Calling ==
    /\ Step("call") /\ Instead(Method(Arg(1), Arg(2)))
    /\ UNCHANGED <<run, host, device>>

\* The handler's except clause.
Caught ==
    /\ Step("caught") /\ todo' = <<>>
    /\ status' = IF opt.batch /\ now[1] \notin Quiet THEN "failed" ELSE status
    /\ UNCHANGED <<opt, jobs, cmds, now, host, device>>

\* The program ends; flash.sh starts the next invocation.
EndInvocation ==
    /\ status = "running" /\ todo = <<>> /\ cmds = <<>>
    /\ status' = IF jobs = <<>> THEN "done" ELSE "idle"
    /\ UNCHANGED <<opt, jobs, cmds, now, todo, host, device>>

Next == Start \/ Command \/ Ask \/ Calling \/ TakeStep \/ Caught \/ EndInvocation \/ ComesUp \/ Again

\* The program goes on while it has something to do.
GoesOn == Start \/ Command \/ Ask \/ Calling \/ TakeStep \/ Caught \/ EndInvocation
Fairness == WF_vars(GoesOn)
Spec == Init /\ [][Next]_vars /\ Fairness

-----------------------------------------------------------------------------
(* Properties.                                                             *)

Stages == {"bootrom", "mb1", "starting", "mb2", "mb2applet", "hung", "os"}
TypeOK ==
    /\ opt \in Options /\ status \in {"idle", "running", "done", "failed"}
    /\ DOMAIN val = Values /\ DOMAIN kept = Keepers
    /\ DOMAIN layout = Types /\ DOMAIN pt = Types /\ DOMAIN list = Types
    /\ ramfile \in Ramcodes \cup {NoRam} /\ dev.ram \in Ramcodes /\ dev.stage \in Stages
    /\ DOMAIN part = Partitions /\ swaps \in 0..MaxSwaps[opt.use]
    /\ Sources \subseteq DOMAIN disk

\* What the device is about to be sent, however many methods have worked on it,
\* has a signature over what it is now; the BR-BCT holds the hash of the MB1 that
\* goes with it and a SHA over its own signature (generate_br_bct(), sign_images(),
\* oem_sign_file(), generate_rcm_message()).
\* A failure of tegrasign() that goes unheard may break that, see FlashedIsSigned.
Heard == kept.unheard = None
SentIsSigned == Heard /\ Step("send") /\ dev.stage = Arg(1) => Acceptable(Arg(1), Arg(2))

\* The BCT on a board names the MB1 on it and is signed with the name in it, after
\* every step, failure, retry and session (flash_bct(), write(), just_flash()).
\* Only the T234 flow hashes a BR-BCT.
BctNamesMb1 ==
    part["BCT"] # Absent /\ part["mb1"] # Absent =>
        /\ part["BCT"].mb1 = part["mb1"].is
        /\ Heard => Signed(part["BCT"])
        /\ Heard /\ opt.chip = "0x23" => Hashed(part["BCT"])

\* No image that is sent or written is combined with its configuration, its device
\* tree, ODM data or, for a T234, the overlay twice, though files are changed in
\* place and commands parse the layout, which they change too, again (a T194's
\* "sign; write" does append the overlay again, see the README).
WrittenOnce == \A p \in Partitions \ {"BCT_backup"} : MadeOnce(part[p])
SentOnce == Step("send") => \A i \in DOMAIN Arg(2) : MadeOnce(Contents(Arg(2)[i]))
CombinedOnce == WrittenOnce /\ SentOnce

\* A device tree of the BPMP that was trimmed for a RAM strap is sent only with the
\* memory table of that strap, whatever chip_info.bin_bak was there, in which
\* command, and however often it was asked for (get_ramcode(), generate_mem_bct()).
TrimMatchesMem ==
    Step("send") /\ Arg(3) \in {"mb2", "blob"} /\ ~opt.secure =>
        \A r \in Ramcodes :
            Pieces(r, Contents(F(<<"bpmp_dtb">>))) # {} => Pieces(r, Contents(K("membct_rcm"))) # {}

\* A flash command that ends without an error has written every partition with the
\* image that the layout names, signed; the BCT is the one of the boot chain asked
\* for, its backup has those of all chains in their order, and the tables of MB1
\* are there: also on the sparse path, and when a poll or a query failed on the way
\* (flash(), secureflash(), flash_partitions(), flash_bct()).
Chains == IF opt.chains = 1 THEN <<"A">> ELSE <<"A", "B">>
Whole ==
    /\ \A t \in Types : part'[t] = Contents(P(t)) /\ Signed(part'[t])
    /\ Signed(part'["BCT"]) /\ Signed(part'["MB1_BCT"]) /\ Signed(part'["MEM_BCT"])
    /\ ~opt.secure => Pieces(opt.chain, part'["BCT"]) # {}
    /\ opt.backup /\ ~opt.secure =>
           SelectSeq(part'["BCT_backup"].is, LAMBDA x : x \in {"A", "B", "unsigned"}) = Chains
EndsFlash == Heard /\ now[1] \in {"flash", "secureflash"} /\ todo # <<>> /\ todo' = <<>>
FlashIsWhole == [][EndsFlash /\ Head(todo)[1] # "caught" /\ status' = "running" => Whole]_vars

\* Every invocation comes to an end, whatever the device does (poll_applet_bl(),
\* boot_mb2_applet()).
Ends == (status = "running") ~> (status # "running")

\* What flash.sh takes for granted after it has asked a board (818, "Reading board
\* information failed." otherwise) and found chip_info.bin_bak (879): the memory
\* table sent is that of this board's RAM strap.
RamcodeIsBoards ==
    Step("send") /\ Arg(3) \in {"mb2", "blob"} /\ ~opt.secure /\ ramfile # NoRam =>
        Pieces(dev.ram, Contents(K("membct_rcm"))) # {}

\* What flash.sh says after "read P F" (3673, "has been read successfully."): F is
\* there and holds what P holds.
ReadIsTrue ==
    status = "done" /\ now[1] = "read" => Exists(now[3]) /\ disk[now[3]] = part[now[2]]

\* What flash.sh says after a flash command (3866, "has been flashed successfully."):
\* the BCT on the board is signed.
FlashedIsSigned == status = "done" /\ now[1] = "reboot" /\ opt.use \in {"flash", "only"} => Signed(part["BCT"])
=============================================================================
