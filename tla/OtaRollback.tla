---------------------------- MODULE OtaRollback ----------------------------
(***************************************************************************)
(* The rollback protocol of an update that changes the partition layout:   *)
(* ota_check_rollback() of nv_ota_check_version.sh decides from the        *)
(* versions in VER and VER_b whether the package in an OTA work directory  *)
(* may be applied, and ota_update_all_in_recovery() writes VER_b, then     *)
(* every other partition, then VER.  Faults are power cuts, at any point,  *)
(* and failures of the update script.                                      *)
(*                                                                         *)
(* A version is the number get_bsp_version_number() makes of a text, 0 for *)
(* a text that is torn, erased or absent.  Partitions carry the version    *)
(* written to them, 0 when torn.  The update script                        *)
(* l4t_update_partitions.sh is external: it may write in any order.        *)
(***************************************************************************)
EXTENDS Naturals, FiniteSets

CONSTANTS
    Dirs,        \* OTA work directories, on different storage devices
    PkgOf,       \* version of the package in each
    Base,        \* version installed at the start
    BaseHasVer,  \* FALSE for a base before R32.3: no VER, no VER_b
    Cells, Home, \* Home[l][n]: where layout l, "old" or "new", has partition n
    Split,       \* cells that straddle mmcblk0boot0 and mmcblk0boot1
    Rest,        \* partitions besides the boot images and the GPT
    Board,       \* "tx2", "xavier" (both eMMC) or "nx" (QSPI)
    MaxFaults    \* bound: faults explored

Names == {"VER", "VER_b"}
Layouts == {"old", "new"}
Slots == {"A", "B"}     \* the two copies of BCT, MB1 and MB1_BCT
Parts == Slots \cup Rest

ASSUME PackagesAssumption == PkgOf \in [Dirs -> Nat \ {0}] /\ Base \in Nat \ {0}
ASSUME LayoutAssumption ==
    /\ Home \in [Layouts -> [Names -> Cells]] /\ Split \subseteq Cells
    /\ \A l \in Layouts : Home[l]["VER"] # Home[l]["VER_b"]
ASSUME RestAssumption == "gpt" \notin Rest /\ "none" \notin Rest
ASSUME BoardAssumption ==
    Board \in {"tx2", "xavier", "nx"} /\ BaseHasVer \in BOOLEAN /\ MaxFaults \in Nat

VARIABLES
    cells,     \* version readable in each cell
    gpt,       \* layout of the secondary GPT: "old", "new" or "torn"
    part,      \* version in each partition
    env,       \* the u-boot environment: its old and its new place
    img,       \* uboot_env.img of each work directory
    marker,    \* work directories with the file ota_update_start
    packs,     \* work directories not yet deleted
    pc, dir, todo, busy,
    open,      \* history: version of an upgrade some partition has and some has not
    faults

disk == <<cells, gpt, part, env, img, marker, packs, open>>
vars == <<disk, pc, dir, todo, busy, faults>>

Labels == {"off", "check", "env", "envcopy", "verb", "verbhalf", "mark", "parts",
           "restore", "ver", "verhalf", "unmark", "clean", "shell", "failed"}
Contents == {"none", "partial", "base", "junk"}
Updating == {"verb", "verbhalf", "mark", "parts", "restore", "ver", "verhalf"}

v == PkgOf[dir]
Erases == Board = "nx"                       \* mtd_debug erase before every write
Relocates == Home["old"] # Home["new"]

Init ==
    /\ cells = [c \in Cells |->
                  IF BaseHasVer /\ \E n \in Names : c = Home["old"][n] THEN Base ELSE 0]
    /\ gpt = "old" /\ part = [p \in Parts |-> Base]
    /\ env = [old |-> "base", new |-> "none"] /\ img = [d \in Dirs |-> "none"]
    /\ marker = {} /\ packs = Dirs
    /\ pc = "off" /\ dir \in Dirs /\ todo = {} /\ busy = "none"
    /\ open = 0 /\ faults = 0

Goto(l) == pc' = l
Control(l) == Goto(l) /\ UNCHANGED <<dir, todo, busy, faults>>

-----------------------------------------------------------------------------
(* ota_check_rollback()                                                    *)

\* VER and VER_b are sought where flash.idx has them once the update has
\* started, and before that where the secondary GPT has them.
LayoutUsed(d) == IF d \in marker THEN "new" ELSE gpt
Found(d) == LayoutUsed(d) # "torn" /\ (LayoutUsed(d) = "old" => BaseHasVer)
CellOf(d, n) == Home[LayoutUsed(d)][n]
Number(d, n) == IF Found(d) THEN cells[CellOf(d, n)] ELSE 0

\* A cell on both boot devices: the shell rejects the arithmetic on a device
\* path and drops the whole `if ! ota_check_rollback' of nv_ota_update.sh.
ReadFails(d) == Board # "nx" /\ Found(d) /\ \E n \in Names : CellOf(d, n) \in Split

SlotsAgree == part["A"] = part["B"] /\ part["A"] # 0

\* Mutants: an unfinished update is treated as a fresh one; any package may
\* continue it; an invalid VER allows any package.
AcceptsAsFresh(d, ver, verb) == ver <= PkgOf[d] /\ SlotsAgree
AcceptsAny(d, ver, verb) ==
    IF ver = verb \/ verb = 0 THEN ver <= PkgOf[d] /\ SlotsAgree ELSE verb >= ver
AcceptsNoVer(d, ver, verb) ==
    IF ver = verb \/ verb = 0 \/ ver = 0 THEN ver <= PkgOf[d] /\ SlotsAgree
    ELSE verb >= ver /\ verb = PkgOf[d]

\* A fresh update: no older version, good boot images.  An unfinished one: the
\* same version, and nothing else is looked at.
Accepts(d, ver, verb) ==
    IF ver = verb \/ verb = 0 THEN ver <= PkgOf[d] /\ SlotsAgree
    ELSE verb >= ver /\ verb = PkgOf[d]

Boot(d) ==
    /\ pc = "off" /\ d \in packs
    /\ dir' = d /\ Goto("check") /\ UNCHANGED <<disk, todo, busy, faults>>

Check ==
    /\ pc = "check"
    /\ Control(IF ReadFails(dir) \/ Accepts(dir, Number(dir, "VER"), Number(dir, "VER_b"))
               THEN IF Board = "tx2" THEN "env" ELSE "verb"
               ELSE "shell")
    /\ UNCHANGED disk

-----------------------------------------------------------------------------
(* ota_update_all_in_recovery()                                            *)

\* Mutant: an image of the right size is made again.
BackupAlways ==
    /\ pc = "env" /\ Control("envcopy") /\ img' = [img EXCEPT ![dir] = "partial"]
    /\ UNCHANGED <<cells, gpt, part, env, marker, packs, open>>

\* The image is kept when it has its full size.
BackupEnv ==
    /\ pc = "env"
    /\ \/ img[dir] \in {"base", "junk"} /\ Control("verb") /\ UNCHANGED img
       \/ /\ img[dir] \in {"none", "partial"} /\ Control("envcopy")
          /\ img' = [img EXCEPT ![dir] = "partial"]
    /\ UNCHANGED <<cells, gpt, part, env, marker, packs, open>>

BackupDone ==
    /\ pc = "envcopy" /\ Control("verb") /\ img' = [img EXCEPT ![dir] = env.old]
    /\ UNCHANGED <<cells, gpt, part, env, marker, packs, open>>

\* Mutant: every board erases before it writes.
HalfErased(c) == 0

\* What a cell holds while write_ver() is at it: eMMC is overwritten in place,
\* so that rewriting the text already there changes nothing.
HalfWritten(c) == IF cells[c] = v /\ ~Erases THEN v ELSE 0
BeginWrite(n) == cells' = [cells EXCEPT ![Home["new"][n]] = HalfWritten(Home["new"][n])]
EndWrite(n) == cells' = [cells EXCEPT ![Home["new"][n]] = v]

WriteVerB ==
    /\ pc = "verb" /\ Control("verbhalf") /\ BeginWrite("VER_b")
    /\ UNCHANGED <<gpt, part, env, img, marker, packs, open>>

\* Mutant: VER_b is left for later.
SkipVerB ==
    /\ pc = "verbhalf" /\ Control("mark")
    /\ UNCHANGED disk

WriteVerBDone ==
    /\ pc = "verbhalf" /\ Control("mark") /\ EndWrite("VER_b")
    /\ UNCHANGED <<gpt, part, env, img, marker, packs, open>>

Mark ==
    /\ pc = "mark" /\ Goto("parts") /\ marker' = marker \cup {dir}
    /\ todo' = Parts \cup {"gpt"} /\ busy' = "none"
    /\ UNCHANGED <<cells, gpt, part, env, img, packs, open, dir, faults>>

\* Partitions of the new layout lie where the old one had VER and VER_b, and
\* the GPT where it had the u-boot environment.
Overwrites(p) ==
    \E S \in SUBSET {Home["old"][n] : n \in Names} :
       /\ S # {} => p \in Rest
       /\ S \cap {Home["new"][n] : n \in Names} = {}
       /\ cells' = [c \in Cells |-> IF c \in S THEN 0 ELSE cells[c]]

\* The script starts on a partition, which a power cut would leave torn.
StartPart(p) ==
    /\ pc = "parts" /\ busy = "none" /\ p \in todo
    /\ busy' = p
    /\ IF p = "gpt"
       THEN /\ gpt' = IF Erases \/ Relocates THEN "torn" ELSE gpt
            /\ env' = [old |-> IF Relocates THEN "junk" ELSE env.old, new |-> env.new]
            /\ UNCHANGED <<part, open>>
       ELSE /\ part' = [part EXCEPT ![p] = 0]
            /\ open' = IF \E q \in Parts : part[q] \notin {0, v} THEN v ELSE open
            /\ UNCHANGED <<gpt, env>>
    /\ Overwrites(p)
    /\ UNCHANGED <<img, marker, packs, pc, dir, todo, faults>>

FinishPart ==
    /\ pc = "parts" /\ busy # "none"
    /\ IF busy = "gpt" THEN gpt' = "new" /\ UNCHANGED part
       ELSE part' = [part EXCEPT ![busy] = v] /\ UNCHANGED gpt
    /\ todo' = todo \ {busy} /\ busy' = "none"
    /\ UNCHANGED <<cells, env, img, marker, packs, open, pc, dir, faults>>

\* No /tmp/ota_success: the function returns 1 and the recovery shell starts,
\* "failed" here to tell it from the shell of a package that was refused.
ScriptFails ==
    /\ pc = "parts" /\ faults < MaxFaults
    /\ Goto("failed") /\ faults' = faults + 1 /\ todo' = {} /\ busy' = "none"
    /\ UNCHANGED <<disk, dir>>

\* Mutant: VER is written without waiting for the script's success.
PartsDoneEarly ==
    /\ pc = "parts" /\ busy = "none" /\ "A" \notin todo
    /\ Control(IF Board = "tx2" THEN "restore" ELSE "ver") /\ UNCHANGED disk

PartsDone ==
    /\ pc = "parts" /\ todo = {}
    /\ Control(IF Board = "tx2" THEN "restore" ELSE "ver") /\ UNCHANGED disk

RestoreEnv ==
    /\ pc = "restore"
    /\ IF img[dir] \in {"base", "junk"}
       THEN Control("ver") /\ env' = [old |-> env.old, new |-> img[dir]]
       ELSE Control("shell") /\ UNCHANGED env
    /\ UNCHANGED <<cells, gpt, part, img, marker, packs, open>>

WriteVer ==
    /\ pc = "ver" /\ Control("verhalf") /\ BeginWrite("VER")
    /\ UNCHANGED <<gpt, part, env, img, marker, packs, open>>

WriteVerDone ==
    /\ pc = "verhalf" /\ Control("unmark") /\ EndWrite("VER") /\ open' = 0
    /\ UNCHANGED <<gpt, part, env, img, marker, packs>>

Unmark ==
    /\ pc = "unmark" /\ Control("clean") /\ marker' = marker \ {dir}
    /\ UNCHANGED <<cells, gpt, part, env, img, packs, open>>

\* clean_up() of nv_ota_exception_handler.sh, then the reboot.
CleanUp ==
    /\ pc = "clean" /\ Control("off") /\ packs' = packs \ {dir}
    /\ UNCHANGED <<cells, gpt, part, env, img, marker, open>>

-----------------------------------------------------------------------------
PowerCut ==
    /\ pc \notin {"off", "shell", "failed"} /\ faults < MaxFaults
    /\ faults' = faults + 1 /\ Goto("off") /\ todo' = {} /\ busy' = "none"
    /\ UNCHANGED <<disk, dir>>

\* The operator leaves the recovery shell.
Reboot == pc \in {"shell", "failed"} /\ Control("off") /\ UNCHANGED disk

Step ==
    \/ \E d \in Dirs : Boot(d)
    \/ Check \/ BackupEnv \/ BackupDone \/ WriteVerB \/ WriteVerBDone \/ Mark
    \/ \E p \in Parts \cup {"gpt"} : StartPart(p)
    \/ FinishPart \/ PartsDone \/ RestoreEnv \/ WriteVer \/ WriteVerDone
    \/ Unmark \/ CleanUp

Next == Step \/ ScriptFails \/ PowerCut \/ Reboot

Spec == Init /\ [][Next]_vars /\ WF_vars(Step)

-----------------------------------------------------------------------------
\* Types.
TypeOK ==
    /\ cells \in [Cells -> Nat] /\ part \in [Parts -> Nat]
    /\ gpt \in Layouts \cup {"torn"}
    /\ env \in [old : Contents, new : Contents] /\ img \in [Dirs -> Contents]
    /\ marker \subseteq Dirs /\ packs \subseteq Dirs
    /\ pc \in Labels /\ dir \in Dirs /\ open \in Nat /\ faults \in Nat
    /\ todo \subseteq Parts \cup {"gpt"} /\ busy \in todo \cup {"none"}

\* No package is applied over a partition of a later version: what VER and
\* VER_b are compared for (nv_ota_check_version.sh, lines 555-560).
NoRollback == pc \in Updating => \A p \in Parts : part[p] <= v

\* An upgrade that has reached some partitions and not others is finished by a
\* package of its version before any other is applied (lines 608-611).
ContinueFirst == pc \in Updating => open \in {0, v}

\* When VER and VER_b agree, no partition is of another version: the premise of
\* the `fresh OTA' branch.
RecordIsTrue ==
    LET w == Number(dir, "VER") IN
    pc = "check" /\ w # 0 /\ w = Number(dir, "VER_b")
        => \A p \in Parts : part[p] \in {0, w}

\* An invalid VER_b beside a valid VER means that the last update failed while
\* it wrote VER_b, before any other partition (lines 588-600).
TornVerBIsFresh ==
    pc = "check" /\ Number(dir, "VER_b") = 0 /\ Number(dir, "VER") # 0 => open = 0

\* On a jetson-tx2-devkit the u-boot environment of the base system is in the
\* new UBENV partition before VER says that the update is complete.
EnvKept == Board = "tx2" /\ pc \in {"ver", "verhalf", "unmark", "clean"} => env.new = "base"

\* After one fault, the package whose update was interrupted is not refused.  (A
\* second fault may come in a repetition that looks like a fresh update.)
MarkedIsResumed ==
    [][pc = "check" /\ dir \in marker /\ faults <= 1 => pc' # "shell"]_vars

\* With at most one fault the update ends with every partition at its version and
\* the work directory deleted.  Only a failure of the script excuses it, and only
\* while the operator leaves the device in the shell: a package that is refused, an
\* environment that is not restored and the retry after a reboot are not excused.
Installed == \A p \in Parts : part[p] = v
Completes == <>(faults > 1 \/ (packs # Dirs /\ Installed)) \/ <>[](pc = "failed")

-----------------------------------------------------------------------------
(* The inductive invariant for boards whose VER and VER_b stay in place on *)
(* eMMC: what the two versions say of the partitions, at every label.      *)

VER == cells[Home["new"]["VER"]]
VER_b == cells[Home["new"]["VER_b"]]
InPlace ==
    Board # "nx" /\ ~Relocates /\ Split = {} /\ BaseHasVer

SlotsAre(w) == part["A"] = w /\ part["B"] = w

\* No upgrade is half done: the partitions are of VER's version, and VER_b, if it
\* announces another one, does so before anything else was written.
Settled ==
    /\ VER # 0 /\ \A p \in Parts : part[p] \in {0, VER}
    /\ VER_b = 0 \/ VER_b >= VER
    /\ VER_b > VER => SlotsAre(VER)

\* An upgrade is half done: VER_b names it and VER does not.
HalfDone == VER_b = open /\ VER < open /\ \A p \in Parts : part[p] <= open

RecordInv == IF open = 0 THEN Settled ELSE HalfDone

\* The package being applied was accepted.
AcceptedInv ==
    pc \in Updating \cup {"env", "envcopy"} =>
        IF open = 0 THEN VER <= v /\ (VER < v => SlotsAre(VER)) ELSE open = v

\* VER_b is written before the partitions, and all of them before VER.
OrderInv ==
    /\ pc \in {"mark", "parts", "restore", "ver", "verhalf"} => VER_b = v
    /\ pc = "parts" =>
         /\ \A p \in Parts \ todo : part[p] = v
         /\ open = 0 /\ VER # v => Parts \subseteq todo /\ busy \in {"none", "gpt"}
    /\ pc \in {"restore", "ver", "verhalf"} =>
         /\ \A p \in Parts : part[p] = v
         /\ open = 0 => VER = v

\* With no upgrade half done VER is the version of the partitions, with one half
\* done VER_b is: at every label, whatever faults came before.
RollbackInv == TypeOK /\ gpt # "torn" /\ RecordInv /\ AcceptedInv /\ OrderInv

-----------------------------------------------------------------------------
\* What all this promises, abstractly: see Upgrade.  From the first partition
\* written over to the writing of VER the device is on its way to one version.
Level == IF open = 0 THEN VER ELSE open
Upgrading == INSTANCE Upgrade WITH version <- Level, upgrading <- (open # 0)
UpgradesInSteps == Upgrading!Spec

=============================================================================
