---------------------------- MODULE OtaRecovery ----------------------------
(***************************************************************************)
(* The way into the recovery kernel and out of it, for an update that      *)
(* keeps the partition layout: write_base_recovery() and                   *)
(* write_kernel_bootctrl() of nv_ota_common.func on the running system,    *)
(* then nv_recovery.sh, nv_ota_run_tasks.sh with its exit trap, and        *)
(* ota_update_rootfs_in_recovery().                                        *)
(*                                                                         *)
(* On a device without recovery partitions (before R32.3) the recovery     *)
(* image replaces kernel and kernel-dtb of slot A, and slot B is active    *)
(* meanwhile; what runs in its recovery kernel is OtaRollback's subject.   *)
(*                                                                         *)
(* Faults are power cuts, writes that do not read back, and reboots for    *)
(* want of a network.                                                      *)
(*                                                                         *)
(* Names differ from those of OtaRollback, the other half of the upgrade   *)
(* scripts, so that one module can state theorems about both.              *)
(***************************************************************************)
EXTENDS Naturals

CONSTANTS
    BadBoots,         \* the kernel that an invalid kernel-bootctrl selects
    MaxRetry,         \* OTA_MAX_RETRY_COUNT
    MaxLosses         \* bound: faults explored

ASSUME BadBootsAssumption == BadBoots \in {"normal", "recovery"}
ASSUME CountsAssumption == MaxRetry \in Nat /\ MaxLosses \in Nat

VARIABLES
    setup,         \* the device and the package; it never changes
    image, dtb,    \* the two target partitions
    active,        \* the active boot slot
    bootctrl,      \* kernel-bootctrl
    rootfs,
    work,          \* the work directory is there
    count,         \* ota_retry_count: a number, NoFile or Empty
    place,
    reboots,       \* history: retries since the shell, the clean-up or the start
    losses

boot == <<image, dtb, active, bootctrl>>
storage == <<boot, rootfs, work, count>>
hist == <<setup, reboots, losses>>
recoveryVars == <<storage, place, hist>>

\* recovery: the device has recovery partitions; network: REQUIRE_ETHERNET;
\* bup: the bootloader update of the package; tot: it has new recovery images.
Setups == [recovery : BOOLEAN, network : BOOLEAN, bup : {"none", "good", "bad"}, tot : BOOLEAN]
Images == {"old", "base", "tot", "torn"}
NoFile == MaxRetry + 1
Empty == MaxRetry + 2      \* truncated by echo -n >file, and then a power cut

RecoveryInit ==
    /\ setup \in Setups
    /\ image = "old" /\ dtb = "old" /\ active = "A" /\ bootctrl = "normal"
    /\ rootfs = "base" /\ work = TRUE /\ count = NoFile
    /\ place = "normal" /\ reboots = 0 /\ losses = 0

MoveTo(l, m) == place = l /\ place' = m
Fault == losses < MaxLosses /\ losses' = losses + 1 /\ UNCHANGED <<setup, reboots>>

\* What the bootloader loads; the 20 bytes of kernel-bootctrl are never torn.
Kernel ==
    IF setup.recovery
    THEN IF bootctrl = "bad" THEN BadBoots ELSE bootctrl
    ELSE IF active = "A" /\ image # "old" THEN "recovery" ELSE "normal"

-----------------------------------------------------------------------------
(* The running system.  The caller, external, runs write_kernel_bootctrl() *)
(* after write_base_recovery() and reboots when both have succeeded.       *)

\* Mutant: slot B is not activated.
KeepSlot == MoveTo("normal", "image") /\ work /\ UNCHANGED <<storage, hist>>

BeginBase ==
    /\ MoveTo("normal", "image") /\ work
    /\ active' = IF setup.recovery THEN active ELSE "B"
    /\ UNCHANGED <<image, dtb, bootctrl, rootfs, work, count, hist>>

\* Between its begin and its end a write may be found half done.
WriteImage ==
    /\ \/ MoveTo("image", "image2") /\ image' = "torn" /\ UNCHANGED hist
       \/ MoveTo("image2", "dtb") /\ image' = "base" /\ UNCHANGED hist
       \/ MoveTo("image2", "normal") /\ Fault /\ UNCHANGED image
    /\ UNCHANGED <<dtb, active, bootctrl, rootfs, work, count>>

WriteDtb ==
    /\ \/ MoveTo("dtb", "dtb2") /\ dtb' = "torn" /\ UNCHANGED hist
       \/ MoveTo("dtb2", "point") /\ dtb' = "base" /\ UNCHANGED hist
       \/ MoveTo("dtb2", "normal") /\ Fault /\ UNCHANGED dtb
    /\ UNCHANGED <<image, active, bootctrl, rootfs, work, count>>

ActivateA ==
    /\ ~setup.recovery /\ MoveTo("point", "off") /\ active' = "A"
    /\ UNCHANGED <<image, dtb, bootctrl, rootfs, work, count, hist>>

\* A file that does not read back is overwritten by the normal one.
WriteKernelBootctrl ==
    /\ setup.recovery
    /\ \/ MoveTo("point", "off") /\ bootctrl' = "recovery" /\ UNCHANGED hist
       \/ MoveTo("point", "normal") /\ bootctrl' \in {"normal", "bad"} /\ Fault
    /\ UNCHANGED <<image, dtb, active, rootfs, work, count>>

-----------------------------------------------------------------------------
(* Booting                                                                 *)

BootKernel ==
    /\ MoveTo("off", IF Kernel = "normal" THEN "normal" ELSE "enter")
    /\ UNCHANGED <<storage, hist>>

\* nv_recovery.sh: a shell when there is no work directory.
Enter ==
    /\ MoveTo("enter", IF ~setup.recovery THEN "elsewhere" ELSE IF work THEN "tasks" ELSE "shell")
    /\ UNCHANGED <<storage, hist>>

\* No network: a reboot that the retry count knows nothing of.
EnableRemoteAccess ==
    /\ \/ MoveTo("tasks", "update") /\ UNCHANGED hist
       \/ setup.network /\ MoveTo("tasks", "off") /\ Fault
    /\ UNCHANGED storage

-----------------------------------------------------------------------------
(* ota_update_rootfs_in_recovery()                                         *)

\* Mutant: back to the normal kernel before the root file system is written.
ForceFirst ==
    /\ setup.bup # "bad" /\ MoveTo("update", "rootfs")
    /\ bootctrl' = "normal" /\ rootfs' = "torn"
    /\ UNCHANGED <<image, dtb, active, work, count, hist>>

BeginRootfs ==
    /\ setup.bup # "bad" /\ MoveTo("update", "rootfs") /\ rootfs' = "torn"
    /\ UNCHANGED <<boot, work, count, hist>>

\* The rootfs updater, external, leaves /tmp/rootfs_update_success or does not.
EndRootfs ==
    /\ \/ MoveTo("rootfs", "force") /\ rootfs' = "new"
       \/ MoveTo("rootfs", "handler") /\ UNCHANGED rootfs
    /\ UNCHANGED <<boot, work, count, hist>>

\* The normal file is written, a second time when it does not read back, and
\* then the function fails.  After a bad bootloader update the task fails anyway.
ForceBootingToNormal ==
    /\ \/ MoveTo("force", "recimage") /\ bootctrl' = "normal" /\ UNCHANGED hist
       \/ MoveTo("force", "handler") /\ bootctrl' \in {"normal", "recovery", "bad"} /\ Fault
       \/ /\ setup.bup = "bad" /\ MoveTo("update", "handler")
          /\ \/ bootctrl' = "normal" /\ UNCHANGED hist
             \/ bootctrl' \in {"recovery", "bad"} /\ Fault
    /\ UNCHANGED <<image, dtb, active, rootfs, work, count>>

\* update_recovery(): dd may fail, nothing is read back.
UpdateRecoveryImage ==
    /\ \/ setup.tot /\ MoveTo("recimage", "recimage2") /\ image' = "torn" /\ UNCHANGED hist
       \/ ~setup.tot /\ MoveTo("recimage", "clean") /\ UNCHANGED <<image, hist>>
       \/ MoveTo("recimage2", "recdtb") /\ image' = "tot" /\ UNCHANGED hist
       \/ MoveTo("recimage2", "handler") /\ Fault /\ UNCHANGED image
    /\ UNCHANGED <<dtb, active, bootctrl, rootfs, work, count>>

\* Mutant: a failure of dd is not noticed.
IgnoreDd ==
    /\ \/ MoveTo("recdtb", "recdtb2") /\ dtb' = "torn" /\ UNCHANGED hist
       \/ MoveTo("recdtb2", "clean") /\ dtb' = "tot" /\ UNCHANGED hist
       \/ MoveTo("recdtb2", "clean") /\ Fault /\ UNCHANGED dtb
    /\ UNCHANGED <<image, active, bootctrl, rootfs, work, count>>

UpdateRecoveryDtb ==
    /\ \/ MoveTo("recdtb", "recdtb2") /\ dtb' = "torn" /\ UNCHANGED hist
       \/ MoveTo("recdtb2", "clean") /\ dtb' = "tot" /\ UNCHANGED hist
       \/ MoveTo("recdtb2", "handler") /\ Fault /\ UNCHANGED dtb
    /\ UNCHANGED <<image, active, bootctrl, rootfs, work, count>>

-----------------------------------------------------------------------------
(* nv_ota_exception_handler.sh                                             *)

\* clean_up(), and the reboot of the exit trap.
CleanUpTasks ==
    /\ MoveTo("clean", "off") /\ work' = FALSE /\ count' = NoFile /\ reboots' = 0
    /\ UNCHANGED <<boot, rootfs, setup, losses>>

Retries == IF count = NoFile THEN 0 ELSE count

\* Mutant: one retry too many.
MayRetryOnceMore == count # Empty /\ Retries <= MaxRetry

\* reach_ota_max_retry(): the test [ "" -lt .. ] fails too.
MayRetry == count # Empty /\ Retries < MaxRetry

GiveUp ==
    /\ ~MayRetry /\ MoveTo("handler", "shell") /\ count' = NoFile /\ reboots' = 0
    /\ UNCHANGED <<boot, rootfs, work, setup, losses>>

\* Mutant: the count is not written.
ForgetCount == MayRetry /\ MoveTo("handler", "off") /\ UNCHANGED <<storage, hist>>

Retry ==
    /\ MayRetry /\ MoveTo("handler", "off") /\ count' = Retries + 1 /\ reboots' = reboots + 1
    /\ UNCHANGED <<boot, rootfs, work, setup, losses>>

-----------------------------------------------------------------------------
\* The count is lost when the power goes between its truncation and its writing.
PowerLoss ==
    /\ place \notin {"off", "elsewhere"} /\ place' = "off" /\ Fault
    /\ count' \in IF place = "handler" /\ MayRetry THEN {count, Empty} ELSE {count}
    /\ UNCHANGED <<boot, rootfs, work>>

\* The operator leaves the shell.
LeaveShell == MoveTo("shell", "off") /\ UNCHANGED <<storage, hist>>

Device ==
    \/ WriteImage \/ WriteDtb \/ ActivateA \/ WriteKernelBootctrl
    \/ BootKernel \/ Enter \/ EnableRemoteAccess \/ BeginRootfs \/ EndRootfs
    \/ ForceBootingToNormal \/ UpdateRecoveryImage \/ UpdateRecoveryDtb
    \/ CleanUpTasks \/ GiveUp \/ Retry

RecoveryNext == BeginBase \/ Device \/ PowerLoss \/ LeaveShell

RecoverySpec == RecoveryInit /\ [][RecoveryNext]_recoveryVars /\ WF_recoveryVars(Device)

-----------------------------------------------------------------------------
(* Properties                                                              *)

Writing == {"image", "image2", "dtb", "dtb2", "point"}
InTasks == {"enter", "tasks", "update", "rootfs", "force"}
Closing == {"recimage", "recimage2", "recdtb", "recdtb2", "clean"}

RecoveryTypeOK ==
    /\ setup \in Setups /\ image \in Images /\ dtb \in Images
    /\ active \in {"A", "B"} /\ bootctrl \in {"normal", "recovery", "bad"}
    /\ rootfs \in {"base", "new", "torn"} /\ work \in BOOLEAN
    /\ count \in 0 .. Empty /\ reboots \in Nat /\ losses \in 0 .. MaxLosses
    /\ place \in Writing \cup InTasks \cup Closing
                \cup {"off", "normal", "handler", "shell", "elsewhere"}

\* Whenever the power is cut, the kernel that the bootloader loads next is
\* whole and finds what it needs: the normal one a root file system that is not
\* half written, the recovery kernel its device tree and, when it is there to
\* update the root file system, the work directory.
AlwaysBoots ==
    /\ Kernel = "normal" => rootfs # "torn"
    /\ Kernel = "recovery" => image = "base" /\ dtb = "base" /\ work

\* The work directory is removed only from a device that is updated: the new
\* root file system is there, the normal kernel is selected, and the recovery
\* image and its device tree are whole and of the same version.
CleanedIsWhole ==
    ~work => /\ rootfs = "new" /\ bootctrl = "normal"
             /\ image = dtb /\ image = IF setup.tot THEN "tot" ELSE "base"

\* Between two visits to the shell a failing task is retried at most
\* OTA_MAX_RETRY_COUNT times, whatever the power does to the file of the count.
RetryBounded == reboots <= MaxRetry

\* A device that has entered the recovery tasks comes to rest: in the normal
\* kernel, or in the shell where an operator is waited for.
Settles == (place = "tasks") ~> (place \in {"normal", "shell"})

-----------------------------------------------------------------------------
(* The inductive invariant, for a bootloader that takes an invalid         *)
(* kernel-bootctrl as the normal kernel.                                   *)

\* Without recovery partitions slot A is whole or slot B is active.
SlotInv ==
    ~setup.recovery =>
        /\ bootctrl = "normal" /\ rootfs = "base" /\ work
        /\ place \in Writing \cup {"normal", "off", "enter", "elsewhere"}
        /\ place \in Writing => active = "B"
        /\ active = "A" => image = dtb /\ image \in {"old", "base"}

\* With them the recovery kernel is selected only while it is whole, and a root
\* file system is written only while it is selected.
SelectInv ==
    setup.recovery =>
        /\ active = "A"
        /\ bootctrl = "recovery" => /\ image = "base" /\ dtb = "base" /\ work
                                    /\ place \notin Writing \cup Closing \cup {"normal"}
        /\ place \in InTasks => bootctrl = "recovery"
        /\ rootfs = "torn" => bootctrl = "recovery"
        /\ setup.bup = "bad" => rootfs = "base"

\* What has been written by the time each write begins.
WrittenInv ==
    /\ place \in {"dtb", "dtb2", "point"} => image = "base"
    /\ place = "point" => dtb = "base"
    /\ (place = "rootfs" => rootfs = "torn") /\ (place = "force" => rootfs = "new")
    /\ place \in Closing => rootfs = "new" /\ bootctrl = "normal" /\ setup.recovery
    /\ place = "recimage" => image = "base" /\ dtb = "base"
    /\ place \in {"recimage2", "recdtb", "recdtb2"} => setup.tot
    /\ place \in {"recdtb", "recdtb2"} => image = "tot"
    /\ place = "clean" => image = dtb /\ image = IF setup.tot THEN "tot" ELSE "base"
    /\ ~work => place \in {"normal", "off"}

\* The count on the disk is never behind the retries.
CountInv ==
    /\ count <= MaxRetry => reboots <= count
    /\ count = NoFile => reboots = 0
    /\ count = Empty => reboots <= MaxRetry

\* All of it: the type, the slots, the selected kernel, what is written, the
\* retries, and the state that clean_up() leaves behind.
RecoveryInv ==
    RecoveryTypeOK /\ SlotInv /\ SelectInv /\ WrittenInv /\ CountInv /\ CleanedIsWhole

=============================================================================
