------------------------------ MODULE FlashHost ------------------------------
(***************************************************************************)
(* The working directory, the partition layout, the device at the other    *)
(* end of the cable, and the steps by which a command changes them: one    *)
(* action takes one step of todo.  Calling a method puts its steps in      *)
(* place of the call, so a method's conditions are read when it is called. *)
(* A tool that fails raises tegraflash_exception, which ends the command.  *)
(***************************************************************************)
EXTENDS FlashSteps, SequencesExt

files == <<disk, val, kept, layout, pt, list>>
host == <<files, ramfile>>
device == <<dev, part, swaps>>
run == <<opt, jobs, cmds, now, status>>
vars == <<run, todo, host, device>>

Text(s) == [Absent EXCEPT !.is = s]
Partitions == Types \cup {"BCT", "BCT_backup", "MB1_BCT", "MEM_BCT"}

\* What argument parsing gives values[...] that commands change.
Values == {"bldtb", "rawkerneldtb", "kerneldtb", "applet"}
FreshValues == [v \in Values |-> CASE v = "bldtb" -> <<"bldtb">>
                                   [] v = "applet" -> <<"mb1">>
                                   [] OTHER -> None]
Keepers == {"pt", "bct", "mb1_bct", "mb1_cold_boot_bct", "membct_rcm", "bct_cold_boot",
            "membct_cold_boot", "chain_A", "chain_B", "backup", "rcm", "ramcode",
            "asked",       \* an option that the user was asked for
            "unheard"}   \* history: a failure of tegrasign() that nobody heard of
NothingKept == [k \in Keepers |-> None]
OwnFiles == [t \in Types |-> <<t>>]

-----------------------------------------------------------------------------
(* What is true of a file.                                                 *)

Body(c) == <<c.is, c.mb1>>
\* Its signature is over what it is now.
Signed(c) == c.is # <<>> /\ c.sig = Body(c) /\ Pieces("unsigned", c) = {}
\* So is the SHA of a BR-BCT, and the signature is part of what it covers.
Hashed(c) == c.sha = <<Body(c), c.sig>>
Once(x, c) == \A i, j \in Pieces(x, c) : i = j
MadeOnce(c) ==
    \A x \in {"mb2bct", "dtb", "odm"} \cup (IF opt.chip = "0x23" THEN {"overlay"} ELSE {}) : Once(x, c)

\* What the boot ROM accepts.
BootromAccepts(bct, mb1) == Signed(bct) /\ Hashed(bct) /\ bct.mb1 = mb1.is

\* With --securedev all files have been signed before.
Presigned(f) ==
    LET c == [Text(f) EXCEPT !.mb1 = IF f = <<"bct">> THEN <<"mb1">> ELSE <<>>]
    IN [c EXCEPT !.sig = Body(c), !.sha = <<Body(c), Body(c)>>]
SourceFiles == [f \in Sources |-> IF opt.secure THEN Presigned(f) ELSE Text(f)]

-----------------------------------------------------------------------------
(* Steps.                                                                  *)

Step(name) == status = "running" /\ todo # <<>> /\ Head(todo)[1] = name
Arg(i) == Head(todo)[i + 1]
Next1 == todo' = Tail(todo)
Instead(steps) == todo' = steps \o Tail(todo)

\* <<"except", steps>> ends a try statement: the steps are taken when one before
\* it raises tegraflash_exception.  Without one the rest of the command is not done.
Handlers == {i \in 2..Len(todo) : todo[i][1] = "except"}
Raised ==
    IF Handlers = {} THEN todo' = <<<<"caught">>>>
    ELSE LET n == CHOOSE i \in Handlers : \A j \in Handlers : i <= j
         IN todo' = todo[n][2] \o SubSeq(todo, n + 1, Len(todo))

\* A tool, or a method, that changes nothing that is modelled; the end of a try
\* statement in which nothing was raised.
Tool ==
    /\ Step("tool") \/ Step("except")
    /\ Next1
    /\ UNCHANGED <<run, host, device>>

\* run_command(): any call of a tool may fail.
Fallible == {"tool", "make", "edit", "header", "join", "sign", "sha", "attach", "putsha",
             "digest", "pt", "list", "signlist", "repoint", "send", "boot", "create", "write",
             "erase", "read", "reboot", "chipinfo"}
Fails ==
    /\ status = "running" /\ todo # <<>> /\ Head(todo)[1] \in Fallible
    /\ Raised /\ UNCHANGED <<run, host, device>>

\* The files of new, and those on the disk.
Written(new) ==
    [g \in DOMAIN new \cup DOMAIN disk |-> IF g \in DOMAIN new THEN new[g] ELSE disk[g]]
Put(f, c) == disk' = Written([g \in {f} |-> c])
ChangeFile(f, c) ==
    Put(f, c) /\ Next1 /\ UNCHANGED <<run, val, kept, layout, pt, list, ramfile, device>>

\* <<"make", f, s>>: a tool writes f anew.
Make == Step("make") /\ ChangeFile(Arg(1), Text(Arg(2)))

\* <<"edit", r, x>>: a tool, or the method itself, adds to a file in place.
Edit == /\ Step("edit") /\ Exists(Name(Arg(1)))
        /\ ChangeFile(Name(Arg(1)), [Contents(Arg(1)) EXCEPT !.is = Append(@, Arg(2))])

\* <<"odm", f>>: pyfdt reads the first tree of a file and writes it again with
\* the new /chosen/odm-data; what followed the tree is gone.
\* Mutant: the old node stays.
OdmAppends == Step("odm") /\ ChangeFile(Arg(1), [Contents(F(Arg(1))) EXCEPT !.is = Append(@, "odm")])
Odm == /\ Step("odm")
       /\ ChangeFile(Arg(1), [Contents(F(Arg(1))) EXCEPT
             !.is = Append(Removing(@, {"odm", "overlay"}), "odm")])

\* <<"copy", r, f>>: shutil.copyfile(); and <<"header", r, f>>, where the tool
\* writes a copy with a header.
Copy == /\ Step("copy") /\ Exists(Name(Arg(1)))
        /\ ChangeFile(Arg(2), Contents(Arg(1)))
Header == /\ Step("header") /\ Exists(Name(Arg(1)))
          /\ ChangeFile(Arg(2), Text(Append(Contents(Arg(1)).is, "header")))
\* The file is not there.
Missing == /\ Step("copy") /\ ~Exists(Name(Arg(1)))
           /\ Raised /\ UNCHANGED <<run, host, device>>

\* <<"join", refs, f>>: f holds the files one after the other, signed or not.
Joined(rs) ==
    FlattenSeq([i \in DOMAIN rs |-> Contents(rs[i]).is \o When(~Signed(Contents(rs[i])), <<"unsigned">>)])
Join == Step("join") /\ ChangeFile(Arg(2), Text(Joined(Arg(1))))

\* <<"rename", k, f>>: os.rename() of what k names, which then names f.
Rename ==
    /\ Step("rename") /\ Next1
    /\ disk' = [g \in (DOMAIN disk \ {kept[Arg(1)]}) \cup {Arg(2)} |->
                   IF g = Arg(2) THEN Contents(K(Arg(1))) ELSE disk[g]]
    /\ UNCHANGED <<run, val, kept, layout, pt, list, ramfile, device>>

\* <<"sign", r, s>>: tegrasign writes s.sig, a signature of r, and s.signed, a
\* copy of it.  <<"attach", r, s>>: --updatesig, --updatesigheader.
Sign ==
    /\ Step("sign") /\ Next1
    /\ disk' = Written([g \in {Arg(2) \o <<"sig">>, Arg(2) \o <<"signed">>} |-> Contents(Arg(1))])
    /\ UNCHANGED <<run, val, kept, layout, pt, list, ramfile, device>>
Attach ==
    /\ Step("attach") /\ Exists(Arg(2) \o <<"sig">>)
    /\ ChangeFile(Name(Arg(1)), [Contents(Arg(1)) EXCEPT !.sig = Body(disk[Arg(2) \o <<"sig">>])])

\* <<"sha", r, s>>: the SHA of the file with its signature, in s.sha; and
\* <<"putsha", r, s>>: --updatesha.
Sha == /\ Step("sha") /\ ChangeFile(Arg(2) \o <<"sha">>, Contents(Arg(1)))
PutSha ==
    /\ Step("putsha") /\ Exists(Arg(2) \o <<"sha">>)
    /\ LET c == disk[Arg(2) \o <<"sha">>]
       IN ChangeFile(Name(Arg(1)), [Contents(Arg(1)) EXCEPT !.sha = <<Body(c), c.sig>>])

\* call_tegrasign() drops what tegrasign() returns, and tegrasign() catches all
\* exceptions of its own: nothing is signed, and the program goes on with what
\* signatures there are from before.  Bounds: once in an invocation, and only in
\* the sessions of options that say so.
SignsNothing ==
    /\ opt.unheard /\ kept.unheard = None
    /\ status = "running" /\ todo # <<>> /\ Head(todo)[1] \in {"sign", "sha", "signlist"}
    /\ Next1 /\ kept' = [kept EXCEPT !.unheard = <<"yes">>]
    /\ UNCHANGED <<run, disk, val, layout, pt, list, ramfile, device>>

\* <<"digest", r>>: --updateblinfo and --updatesig images_list_signed.xml put
\* the hash of MB1 into a BR-BCT.
SignedList == <<"images_list", "signed">>
Digest == Step("digest") /\ Exists(SignedList) /\ ChangeFile(Name(Arg(1)),
             [Contents(Arg(1)) EXCEPT !.mb1 = Contents(S("mb1")).is])

\* <<"set", v, f>>, <<"keep", k, f>> and <<"layout", t, f>>: assignments, the
\* last one in flash.xml.tmp.
Set ==
    /\ Step("set") /\ Next1 /\ val' = [val EXCEPT ![Arg(1)] = Arg(2)]
    /\ UNCHANGED <<run, disk, kept, layout, pt, list, ramfile, device>>
Keep ==
    /\ Step("keep") /\ Next1 /\ kept' = [kept EXCEPT ![Arg(1)] = Arg(2)]
    /\ UNCHANGED <<run, disk, val, layout, pt, list, ramfile, device>>
SetLayout ==
    /\ Step("layout") /\ Next1 /\ layout' = [layout EXCEPT ![Arg(1)] = Arg(2)]
    /\ UNCHANGED <<run, disk, val, kept, pt, list, ramfile, device>>

\* <<"pt">>: tegraparser --pt flash.xml.tmp writes flash.xml.bin.
ParsePt ==
    /\ Step("pt") /\ Next1 /\ pt' = layout /\ kept' = [kept EXCEPT !.pt = <<"flash", "bin">>]
    /\ UNCHANGED <<run, disk, val, layout, list, ramfile, device>>

\* <<"list">>: tegrahost --list, which puts headers before the images.
\* Mutant: MB1 is not listed.
ListOthers ==
    /\ Step("list") /\ Next1
    /\ list' = [t \in Types \ {"mb1"} |-> pt[t] \o <<"sigheader">>]
    /\ UNCHANGED <<run, disk, val, kept, layout, pt, ramfile, device>>
ListImages ==
    /\ Step("list") /\ Next1
    /\ list' = [t \in Types |-> pt[t] \o <<"sigheader">>]
    /\ disk' = Written([f \in {list'[t] : t \in Types} |->
                   LET t == CHOOSE u \in Types : list'[u] = f
                   IN Text(Append(Contents(P(t)).is, "header"))])
    /\ UNCHANGED <<run, val, kept, layout, pt, ramfile, device>>

\* <<"signlist">>: tegrasign --list, all images of the list.
SignList ==
    /\ Step("signlist") /\ Next1
    /\ disk' = Written([f \in {SignedList} \cup {list[t] : t \in Types} |->
                   IF f = SignedList THEN Text(SignedList) ELSE [disk[f] EXCEPT !.sig = Body(disk[f])]])
    /\ UNCHANGED <<run, val, kept, layout, pt, list, ramfile, device>>

\* <<"repoint">>: tegrahost --updatesig; the .bin now names the signed files.
Repoint ==
    /\ Step("repoint") /\ Exists(SignedList) /\ Next1 /\ pt' = list
    /\ UNCHANGED <<run, disk, val, kept, layout, list, ramfile, device>>

\* <<"raise">>
Raise == Step("raise") /\ Raised /\ UNCHANGED <<run, host, device>>

\* <<"crash">>: another exception than tegraflash_exception ends the program.
Crash ==
    /\ Step("crash") /\ status' = "failed" /\ todo' = <<>>
    /\ UNCHANGED <<opt, jobs, cmds, now, host, device>>

-----------------------------------------------------------------------------
(* Steps that talk to the device.                                          *)

\* The boot ROM and MB1 take what is signed; where the boot ROM gets a BR-BCT,
\* it goes by that.
Acceptable(stage, fs) ==
    /\ \A i \in DOMAIN fs : Signed(Contents(fs[i]))
    /\ stage = "bootrom" /\ Len(fs) > 1 => BootromAccepts(Contents(fs[1]), Contents(fs[2]))

\* <<"send", stage, files, to>>: --rcm or --download, to a device in the stage.
\* What it starts takes its time, or never comes up; what is only loaded waits
\* for --boot.  A device past the stage is sent nothing, and that is no failure:
\* flash.sh's "erase ...; signwrite ..." depends on it.
Loads == [blob |-> "mb2", applet |-> "mb2applet"]
Later(stage) == IF stage = "bootrom" THEN {"mb1", "mb2", "mb2applet"} ELSE {"mb2", "mb2applet"}
Send ==
    /\ Step("send") /\ Next1
    /\ \/ /\ dev.stage = Arg(1) /\ Acceptable(Arg(1), Arg(2))
          /\ dev' = IF Arg(3) \in DOMAIN Loads THEN [dev EXCEPT !.starts = Loads[Arg(3)]]
                    ELSE [dev EXCEPT !.stage = IF Arg(3) = "mb1" THEN "mb1" ELSE "starting",
                                     !.starts = Arg(3)]
       \/ dev.stage \in Later(Arg(1)) /\ UNCHANGED dev
    /\ UNCHANGED <<run, host, part, swaps>>

\* <<"boot">>: --boot, of what MB1 was sent.
Boot ==
    /\ Step("boot") /\ Next1
    /\ \/ dev.stage = "mb1" /\ dev.starts # "mb1" /\ dev' = [dev EXCEPT !.stage = "starting"]
       \/ dev.stage \in Later("mb1") /\ UNCHANGED dev
    /\ UNCHANGED <<run, host, part, swaps>>

\* The device: external.
ComesUp ==
    /\ dev.stage = "starting"
    /\ \E s \in {dev.starts, "hung"} : dev' = [dev EXCEPT !.stage = s]
    /\ UNCHANGED <<run, todo, host, part, swaps>>

\* <<"poll", stages, n, steps>>: n rounds at most, and then the steps.
\* Mutant: the rounds are not counted.
PollForEver ==
    /\ Step("poll")
    /\ dev.stage \in Arg(1) /\ Next1
    /\ UNCHANGED <<run, host, device>>
Poll ==
    /\ Step("poll")
    /\ LET up == dev.stage \in Arg(1) IN
         \/ up /\ Next1
         \/ ~up /\ Arg(2) > 0 /\ Instead(<<<<"poll", Arg(1), Arg(2) - 1, Arg(3)>>>>)
         \/ ~up /\ Arg(2) = 0 /\ Instead(Arg(3))
    /\ UNCHANGED <<run, host, device>>

\* <<"reboot", kind>>
Reboot ==
    /\ Step("reboot") /\ dev.stage \in {"mb2", "mb2applet"} /\ Next1
    /\ dev' = [dev EXCEPT !.stage = IF Arg(1) = "coldboot" THEN "os" ELSE "bootrom"]
    /\ UNCHANGED <<run, host, part, swaps>>

\* <<"create">>: tegradevflash --pt --create writes every partition with a file.
Create ==
    /\ Step("create") /\ dev.stage = "mb2" /\ Next1
    /\ part' = [p \in Partitions |-> IF p \in Types THEN Contents(P(p)) ELSE Absent]
    /\ UNCHANGED <<run, host, dev, swaps>>

\* <<"write", p, r>>, <<"erase", p>> and <<"read", p, f>>: tegradevflash.
WritePart(p, c) ==
    /\ part' = [part EXCEPT ![p] = c]
    /\ UNCHANGED <<run, host, dev, swaps>>
Write == Step("write") /\ dev.stage = "mb2" /\ Next1 /\ WritePart(Arg(1), Contents(Arg(2)))
Erase == Step("erase") /\ dev.stage = "mb2" /\ Next1 /\ WritePart(Arg(1), Absent)
Read == Step("read") /\ dev.stage = "mb2" /\ ChangeFile(Arg(2), part[Arg(1)])
\* A write that fails may have changed the partition.
Torn == Step("write") /\ dev.stage = "mb2" /\ Raised /\ WritePart(Arg(1), Absent)

\* <<"chipinfo">>: chip_info.bin of the device, and its copy chip_info.bin_bak.
ChipInfo ==
    /\ Step("chipinfo") /\ dev.stage = "mb2applet" /\ Next1
    /\ ramfile' = dev.ram
    /\ UNCHANGED <<run, files, device>>

\* <<"ramcode">>: the RAM strap is looked for once; chip_info.bin_bak is removed.
\* Mutant: it is looked for each time.
TakeRamcodeAgain ==
    /\ Step("ramcode") /\ Next1 /\ ramfile' = NoRam
    /\ kept' = [kept EXCEPT !.ramcode = <<IF ramfile # NoRam THEN ramfile ELSE opt.ramcode>>]
    /\ UNCHANGED <<run, disk, val, layout, pt, list, device>>
TakeRamcode ==
    /\ Step("ramcode") /\ Next1
    /\ \/ kept.ramcode # None /\ UNCHANGED <<kept, ramfile>>
       \/ /\ kept.ramcode = None /\ ramfile' = NoRam
          /\ kept' = [kept EXCEPT !.ramcode = <<IF ramfile # NoRam THEN ramfile ELSE opt.ramcode>>]
    /\ UNCHANGED <<run, disk, val, layout, pt, list, device>>

-----------------------------------------------------------------------------
(* Invocations.                                                            *)

\* A new process: a new directory TMP with links to the files of flash.sh, so
\* what is changed in place there is changed for good.
Start ==
    /\ status = "idle" /\ jobs # <<>>
    /\ jobs' = Tail(jobs) /\ cmds' = Head(jobs) /\ now' = None
    /\ status' = "running" /\ todo' = <<>>
    /\ disk' = [f \in Sources |-> disk[f]] /\ val' = FreshValues /\ kept' = NothingKept
    /\ layout' = OwnFiles /\ pt' = OwnFiles /\ list' = OwnFiles
    /\ UNCHANGED <<opt, ramfile, device>>

\* Another session of flash.sh, which copies the files again: with this board as
\* it was left, with this one in recovery mode, or with another one.
Board(stage, r) == [stage |-> stage, starts |-> "mb1", ram |-> r]
Again ==
    /\ status \in {"done", "failed"} /\ dev.stage # "starting" /\ swaps < MaxSwaps[opt.use]
    /\ swaps' = swaps + 1
    /\ jobs' \in Sessions[opt.use] /\ cmds' = <<>> /\ now' = None /\ status' = "idle"
    /\ disk' = SourceFiles
    /\ \/ UNCHANGED <<dev, part>>
       \/ dev' = Board("bootrom", dev.ram) /\ UNCHANGED part
       \/ /\ \E r \in Ramcodes : dev' = Board("bootrom", r)
          /\ part' = [p \in Partitions |-> Absent]
    /\ todo' = <<>> /\ val' = FreshValues /\ kept' = NothingKept
    /\ layout' = OwnFiles /\ pt' = OwnFiles /\ list' = OwnFiles
    /\ UNCHANGED <<opt, ramfile>>

Init ==
    /\ opt \in Options
    /\ jobs \in Sessions[opt.use] /\ cmds = <<>> /\ now = None
    /\ status = "idle" /\ todo = <<>>
    /\ disk = SourceFiles /\ val = FreshValues /\ kept = NothingKept
    /\ layout = OwnFiles /\ pt = OwnFiles /\ list = OwnFiles
    /\ ramfile = NoRam
    /\ \E r \in Ramcodes : dev = Board("bootrom", r)
    /\ part = [p \in Partitions |-> Absent]
    /\ swaps = 0

TakeStep ==
    \/ Tool \/ Fails \/ Make \/ Edit \/ Odm \/ Copy \/ Header \/ Missing \/ Join \/ Rename
    \/ Sign \/ Attach \/ Sha \/ PutSha \/ Digest \/ SignsNothing
    \/ Set \/ Keep \/ SetLayout \/ ParsePt \/ ListImages \/ SignList \/ Repoint
    \/ Raise \/ Crash
    \/ Send \/ Boot \/ Poll \/ Reboot \/ Create \/ Write \/ Torn \/ Erase \/ Read \/ ChipInfo \/ TakeRamcode
=============================================================================
