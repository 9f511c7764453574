# Verification of the Jetson BSP's update and flashing tools

This directory holds TLA+ models of the parts of this repository that can lose
data or leave a device that does not boot: the over-the-air (OTA) update scripts
that run on the device, the host scripts that flash many devices at once, the
flashing tool `tegraflash.py` with its methods for T234 and T194, the signing
tool `tegrasign_v3.py`, the bootloader update package, and the trimming of the
BPMP's device tree.
TLC checks the models on small instances; TLAPS proves the most important
properties for every value of the constants. Every definition is translated from
the source; `PROJECT.json` names the lines each one stands for.

Contents: [1 The system](#1-the-system), [2 Plan](#2-plan),
[3 Modules](#3-modules), [4 Runs](#4-runs-what-is-checked-and-what-it-shows),
[5 Proofs](#5-proofs), [6 What the models found](#6-where-code-and-documentation-disagree),
[7 Abstractions and limits](#7-abstractions-and-limits).

## 1 The system

The repository is a board support package: a tree of shell and Python programs
around binaries, device trees and configuration tables. Nothing in it is a
long-running server; its hard behaviour is in programs that change persistent
state (partition tables, file systems, boot partitions) step by step and must
survive being cut off, and in programs that run at the same time on shared
devices.

| Component (sources) | State | Operations | Hard behaviour | What makes it correct |
| --- | --- | --- | --- | --- |
| **APP alignment** `nv_ota_adjust_app.sh` | partition table, file systems, copies of the OTA files, a state file on each of two partitions | shrink, make a temporary partition, copy, remove and remake APP, copy back, grow, clean up | a reset at any point; two state files of different age; torn state file | the OTA files always exist somewhere; the resumed run continues from the latest state; it ends aligned |
| **Version check and layout-changing update** `nv_ota_check_version.sh`, `nv_ota_update_all_in_recovery.sh` | VER and VER_b, GPT, boot images, partitions, u-boot environment, marker file | decide from two versions; write VER_b, every partition, VER; back up and restore the environment | power cuts between and inside writes; a second package; the layout itself moves | no partition goes back to an older version; an unfinished update is finished first |
| **Recovery boot control and rootfs update** `nv_ota_common.func`, `nv_recovery.sh`, `nv_ota_run_tasks.sh`, `nv_ota_exception_handler.sh`, `nv_ota_update_rootfs_in_recovery.sh` | recovery image and device tree, kernel-bootctrl, active slot, root file system, retry count | write the recovery kernel, select it, update, select the normal one, renew the recovery image, clean up, retry | power cut at any write; write that does not read back; retry counter on disk | the device always boots; clean-up comes last; retries are bounded |
| **Mass flashing** `l4t_initrd_flash.sh`, `l4t_initrd_flash_internal.sh`, `l4t_flash_from_kernel.sh`, `nv_enable_remote.sh` | per process: disks found, interface, jobs; shared: `/dev`, USB bus | boot the initrd, look for disks, ping, write tables and partitions, QSPI over ssh, reboot, collect exit statuses | many processes on one bus and one `/dev`; disks that leave and return under other names; parallel jobs; timeouts | a process touches only its own device; a device reboots only when it is written; the exit status is true; everything ends |
| OTA package `nv_ota_decompress_package.sh`, `nv_ota_preserve_data.sh`, `nv_ota_validate.sh`, `nv_ota_update.sh`, `ota_make_recovery_img_dtb.sh` | work directory | unpack, check, save and restore customer files | repetition after a power cut | repeated steps do not lose the package or the saved files |
| Image creation `l4t_create_images_for_kernel_flash.sh` | image directory, index | sign and split images, write the index | partial result reused by a later session | index and images agree |
| **Bootloader update package** `l4t_generate_soc_bup.sh`, `l4t_bup_gen.func`, `BUP_generator.py`, `rollback_parser.py` | images of a build, `multi_signed/`, payloads | build each configuration, collect its images, pack, inspect, check, take apart | a build that fails or is interrupted; images of earlier sessions; offsets and limits of the format | what comes out of a package is what this session built |
| Backup and restore `tools/backup_restore` | index, images, device | back up, verify, restore | interrupted backup or restore | a restore starts only with a complete index |
| Disk encryption `tools/disk_encryption` | LUKS containers, mappings | create, open, fill, close | failure in between | no mapping is left open |
| **Flashing over recovery mode** `tegraflash.py`, `tegraflash_internal.py`, `tegraflash_impl_t234.py` | working directory, layout, `values` and the other dictionaries, the device's stage and partitions | every command `do_X()`: flash, write, read, erase, sign, rcmboot, dump, fuses, reboot ... | files changed in place by methods that are called again; names kept from one command to the next; polls of a device that may hang; tools that fail | what is sent is signed and belongs together; a flash that ends well is whole; every invocation ends |
| **Signing and encryption** `tegrasign_v3*.py` | keys, files beside the input | sign a list, sign a file, derive keys, digests; natively and by an HSM | results of earlier calls under the same names; soft failures; two implementations of one derivation | a call that succeeds leaves results of its own, with the key and the range meant |
| **Trimming the BPMP tree** `tegraflash_bpmp_*()` | the tree and its text | decompile, find handles and tables, cut, compile | positions in text; a second trim | the tree has just the table of the board's RAM strap, or is as it was |
| Front ends `flash.sh`, `nvautoflash.sh`, device-tree tools, board automation, rootfs tools, capsules | files | straight-line text and file work | little or none | (see `PROJECT.json`, components) |

How they interact. The running system unpacks an OTA package into a work
directory and calls `write_base_recovery()` and `write_kernel_bootctrl()`; the
reboot enters `nv_recovery.sh`, which finds the work directory and runs
`nv_ota_run_tasks.sh` under an exit trap (the exception handler). Its tasks end
in `nv_ota_update.sh`, which either keeps the layout and calls
`ota_update_rootfs_in_recovery()`, or changes it and calls `ota_check_rollback()`
and `ota_update_all_in_recovery()`. On an R28.2 base the same recovery kernel
first calls `ota_align_app_part()`. They share the disk only: no two of them run
at the same time, each is restarted from its persistent state. Mass flashing is
separate and runs on a host; its processes share the kernel's disk names, `/dev`
and the USB bus, and its two scripts meet in the environment variables
`MMCBLK0`, `EXTDEV_ON_HOST` and `TARGET_IP`.

On the host, `flash.sh` runs `tegraflash.py` with a list of commands, several
times in one session: to ask the board what it is, then to flash it. It finds
what an earlier invocation left: `chip_info.bin_bak`, files changed in place, the
device in a later stage. `tegraflash` calls `tegrasign_v3` for every signature
and drops what it returns; with `--trim_bpmp_dtb` it calls the functions that
trim the BPMP's tree. `l4t_generate_soc_bup.sh` runs `build_l4t_bup.sh`,
and that `flash.sh`, once for each configuration; what they sign is packed.

`PROJECT.json` lists, under "hazards", each place where this can go wrong, with
the properties that would show it.

## 2 Plan

Order of work, the most important behaviour first:

1. (done) `OtaAlignApp` with its abstract specification `Relocation`: the only
   component that removes the partition that holds its own input.
2. (done) `OtaRollback` with its abstract specification `Upgrade`: the version
   protocol.
3. (done) `OtaRecovery`: which kernel boots, and with what.
4. (done) `MassFlash`: processes in parallel on one host.
5. (done) `FlashSteps`, `FlashHost`, `TFlashT23x`, `TFlashT19x`, `TegraflashCmds`,
   `Tegraflash`: a session with a device in recovery mode; `TegraflashInv`, what a
   session knows of its files.
6. (done) `TegrasignKeys`, `Tegrasign`: signatures and derived keys.
7. (done) `BupPayload`, `SocBup`: the update package and the sessions that make it.
8. (done) `BpmpTrim`: one function of the flash flow, in detail.
9. (done) Proofs about the modules of 5 to 8. They declare no RECURSIVE operator
   and can be proved about. For 5: what a method of `tegraflash` leaves for the
   methods after it, one lemma per method, from which `SentIsSigned` follows for
   all sessions of an unsecured T234. Next: the same for a T194, with an outline of
   its own.
10. (next) `BackupRestore`: the index that an interrupted backup leaves.

Abstract specifications: `Relocation` (done); `Upgrade` (done), for `OtaRollback`
while the layout stays; for the functional components the reference definitions that their properties compare
with: `Reference` in `BpmpTrim`, `RefDkKey` in `TegrasignKeys`, `Meant` in `SocBup`.

## 3 Modules

Every model names the code in its comments. A *step* is the code between two
points where the script's effect on the disk can be told apart; what a power cut
loses (mounts, shell variables, open files) and what it keeps (partition table,
file systems, files) is separate state.

### OtaAlignApp, OtaAlignAppInv, Relocation

`ota_align_app_part()`. `part`, `files` and `st` are, per partition, whether it
exists with a file system, the OTA files complete on it, and the content of
`ota_adjust_app_state`; `app` is the geometry of APP (start, end, end of its
ext4), `aligned` and `endOld` the two marker files. `pkg`, `mnt`, `appMount`,
`tempMount`, `appKnown` and `state` are the shell's variables and mounts, lost at
a `Reset`. `Choose` is the code that mounts both partitions and compares the two
state files (lines 184-262); each later action is one block of the state machine
with its own `Set state` step. When
`TornWrites` holds, a reset during the writing may leave the state file empty.

`Relocation` is what the component promises: the set of places that hold all
files is never empty, and it ends with the files at home and nowhere else.
`OtaAlignApp` implements it with `holders` the partitions that hold every file
and `settled` the successful return.

`OtaAlignAppInv` is the inductive invariant: `DiskInv` (on both partitions),
`EarlyInv` (states 0 to 4, source APP), `MiddleInv` (5 to 7, source OTA_TEMP),
`LateInv` (8 to 10), `StartInv` (what a reset may find).

### OtaRollback, Upgrade

`ota_check_rollback()` and `ota_update_all_in_recovery()`. A version is the number
that `get_bsp_version_number()` makes of a text, 0 for a text that is torn,
erased or absent. `cells` are the places on the boot devices that hold VER and
VER_b; `Home` says where each layout has them, so that a moved layout is a
constant. `Accepts` is the decision; `Check` reads and decides; `WriteVerB`,
`StartPart`/`FinishPart`, `WriteVer` write in two steps each, so that a power cut
may fall between. `open` is a history variable: the version of an upgrade that
some partition has and some has not.

`Upgrade` is what the version check promises of the partitions, without VER, VER_b,
packages and resets: an upgrade begins on a device that boots and leads to a later
version; until every partition has that version nothing else is written and no other
upgrade begins. `OtaRollback` implements it with `version` the version of the open
upgrade, else that of the boot images (`Level`), and `upgrading` that one is open.

### OtaRecovery

The way into the recovery kernel and out of it, on devices with and without
recovery partitions, for all 24 combinations of device and package. `Kernel`
is what the bootloader loads next. `PowerLoss` may happen anywhere; `BootKernel`, `Enter`
and the tasks follow the scripts; the exit trap is `Retry`, `GiveUp` and
`CleanUpTasks`, with the file `ota_retry_count` (absent, empty, or a number).

### MassFlash

One process per `--device-instance`. `target` and `says` are the devices: in
recovery mode, in the initrd, or gone, and the instance their initrd reports;
`sd` and `dev` are the kernel's disk names and the nodes in `/dev` ("file" when
`dd` has made a regular file under a name that was gone); `held`, `serial`,
`sshcon` are the shell variables of a process; `at`, `on`, `qjob` its parallel
jobs. Actions follow `boot_initrd`, `wait_for_booting` (one `List` per `find`,
one `Look` per name), `ping_device`, `create_gpt`, `do_write_APP`,
`do_write_storage`, `flash_qspi`, the two `wait`s, the reboot, the exit trap
(`Exit`) and the loop of the main script (`Reap`). The environment is `Attach`
(a disk of a running initrd gets the first free name), `Drop` (the disks of a
device leave and may come back) and `WriteError`. `disk`, `qspi`, `lost` and
`spoilt` record what has been written and what has failed.

### FlashSteps, FlashHost, TFlashT23x, TFlashT19x, TegraflashCmds, Tegraflash

A method of `tegraflash` is written as the sequence of its steps, in the order of
the code, in the words of `FlashSteps`, which also declares the state: `todo` holds
the steps still to be taken and each action of `FlashHost` takes one (`Make`,
`Edit`, `Sign`, `Attach`, `Send`, `Write`, `Poll`, ...). A method that calls another one has the step `call`, replaced by that method's steps
when it is reached (`Calling`), so that every condition is read when the code
reads it. A step `except` is the end of a `try`; `Fails` lets any tool fail and
unwinds to it, as `run_command()` does with `tegraflash_exception`. `disk` maps
file names to contents: which pieces a file was made of, in order, over what it
was signed (`sig`), and for a BR-BCT which MB1 it names (`mb1`) and over what its
SHA is. `val`, `kept`, `layout`, `pt` and `list` are the dictionaries `values`,
`tegrabct_values` and the like, `flash.xml.tmp`, its parsed form, and
`images_list*.xml`. `dev` is the stage of the device (boot ROM, MB1, MB2, MB2 applet,
hung) and its RAM strap, `part` the contents of its partitions.

`TFlashT23x` has one operator per method of `tegraflash_impl_t234.py`,
`TFlashT19x` one per function of `tegraflash_internal.py` as it is for a T194,
under the names of the code without `tegraflash_`. `TegraflashCmds` has one per
handler `do_X()` (how many words, which options it asks for, `Ask` for the
`input()`), and `Tegraflash` runs the commands of an invocation, catches what is
raised, and starts the next invocation. `Again` is another session: of the same
board as it was left, or of another one.

### TegrasignKeys, Tegrasign

`TegrasignKeys` is what a key file is taken for, natively and on the HSM route,
and the derivations: `MapBinToDk` (which DK an image gets), `KdfOemKey` (the
messages handed to the native tool) and `KdfOemHsmKey` (one derivation after the
other). `Tegrasign` is the sequence of calls in one directory; an action is a
stage of `tegrasign()`. Cells of a file are two to an AES block, so that ranges
that are no multiple of a block, and the tails of buffers, are there. A tool
does its work, fails, or ends well without a result (`Outcomes`). `left` says of
which tools an earlier run's result is still there (`v3_*_<pid>.out`, and the fixed
names of the HSM route), which a silent tool makes the program read; `xmss` is the
XMSS key pair, of which a part may be lost and which is then made anew; `taken` is
history: the products of a call that it did not make but took for its own.

### BupPayload, SocBup

`BupPayload` is the format: `GenerateBup` packs, `EntryList`, `CheckEntryTable`
and `ExtractBinaries` read it back by offsets and lengths. `SocBup` is the
session: configurations built one after the other, any of which may fail, images
copied into `multi_signed/` and collected from it by directory, payloads made
each time, the clean-ups, and kills.

### BpmpTrim

A tree is the sequence of its lines. Each function between the two calls of
`dtc` is an action (`GenerateIntDtsi`, `GetStrapHandles`, `SaveTablePos`,
`UpdateValidEntries`, `RemoveUnusedPhandles`, `DtsiToDtb`), with the positions,
lists of handles and verdicts that the code keeps in lists; it raises where an
index is out of range, and falls back to the existing tree where the code does.

### MC modules and proofs

`MCOtaAlignApp`, `MCOtaRollback`, `MCOtaRecovery`, `MCMassFlash`, `MCTegraflash`,
`MCTegrasign`, `MCSocBup`, `MCBpmpTrim` give the constants their values for TLC.
`OtaAlignAppProofs`, `OtaRollbackProofs` (with those of `OtaRecovery`),
`MassFlashProofs`, `TegraflashProofs`, `TegrasignProofs`, `SocBupProofs` and
`BpmpTrimProofs` hold the theorems, and `RecursionLemmas` what `TegraflashProofs`
and the last two need to know of loops. `OtaAlignAppInv` and `TegraflashInv` hold the
inductive invariants of their components, `TegraflashInv` with the assumptions on the
constants that the proofs need.

## 4 Runs: what is checked and what it shows

Passing runs:

| Run | Instance | Properties | Shows |
| --- | --- | --- | --- |
| `align` | two OTA files, three resets, whole writes | `AlignInv FilesSurvive SourceComplete DoneIsAligned FailsOnlyAfterMkfs ResumesFromLatest Aligns RelocatesFiles` | the files survive every reset, a resumed run starts from the latest state and a complete source, the one error return is the one after `mkfs`, and otherwise the alignment ends; it implements `Relocation` |
| `align_torn` | the same, state files may be torn | `FsFitsPartition` | even with torn state files the file system never reaches beyond its partition |
| `rollback` | eMMC, VER in place, three packages (versions 1 to 4 around base 2), three faults | `RollbackInv NoRollback RecordIsTrue TornVerBIsFresh UpgradesInSteps` | no partition goes back, VER and VER_b tell the truth, a torn VER_b beside a valid VER means that no upgrade is open; it implements `Upgrade`, so that an unfinished version is finished before another begins |
| `rollback_moved` | TX2, VER moves, base without VER, three faults | `EnvKept MarkedIsResumed Completes` | the u-boot environment survives a moved layout, a marked update is resumed, and the update completes |
| `recovery` | all 24 setups, two retries, three faults | `RecoveryInv AlwaysBoots CleanedIsWhole RetryBounded Settles` | the device boots after every power cut, the work directory goes last, retries are bounded, the device comes to rest |
| `massflash` | two devices, one disk each, two rounds per loop, one fault | `MassFlashInv OwnUnlessLost RebootedIsFlashed DevIsClean StatusIsTrue` | processes stay apart, a device reboots when it is written, `/dev` is left clean, the status is right |
| `massflash_one` | one device, internal and external disk, two rounds per loop, two faults | `Ends` | with parallel writers of one device, which may leave twice, the main script ends, whatever stays away |
| `flash` | 24 sets of options, each with its sessions: T234 and T194; flash, one partition, sign, presigned images, rcmboot, dump, fuses, commands with wrong words; two boards in turn | `TypeOK SentIsSigned BctNamesMb1 CombinedOnce TrimMatchesMem FlashIsWhole Ends` | whichever tool fails, whatever the device answers and whatever the session before left, what is sent is signed and belongs together, and a flash that ends well has written everything; every invocation ends |
| `signing` | two calls of 31 kinds in one directory, failing and silent tools, results left by earlier runs, kills, a lost part of the XMSS pair, inputs made anew | `ListSigned FileSigned KdfFollowsTable` | what a successful call leaves, digests included, is its own, with the key and the range meant, but for what it took from an earlier run (`taken`); natively and by the HSM the derived key is that of the table |
| `package` | two sessions, four configurations, two failures or kills | `PackageIsWhole` | a package reported as good has exactly this session's images, whatever was left in `multi_signed/` |
| `trees` | every tree of up to three children of the root, some of four; three RAM straps; trimmed twice | `TrimIsExact` | a trimmed tree is the tree with just the table of the strap; otherwise it is left alone, or `dtc` has broken it |

`flash_unheard` ends in a violation and is a finding, see section 6.

Eight more configurations can be run by hand. They show counterexamples that
section 6 describes, or repeat a property on another instance:
`MCOtaAlignAppResume`, `MCOtaRollbackErased`, `MCOtaRollbackSplit`,
`MCMassFlashTen`, `MCMassFlashWritten`, `MCTegraflashStale` (`RamcodeIsBoards`),
`MCTegraflashRead` (`ReadIsTrue`) and `MCTegrasignStale` (`DigestsAreOfThisCall`).

Bounds, and why they are enough. Three resets in `align`: a reset matters by the
pair (state found, step cut off), and three allow a reset while recovering from a
reset while recovering; the proof has no bound. Two OTA files: one copied and one
not. Packages 1, 3 and 4 around base 2: older, newer, newest. `MaxFaults`
(`MaxLosses`) is three where the hazards need a fault in the repair of a fault.
`MaxRetry` two: a retry that is not the last
(`nv_ota_run_tasks.sh` 24 passes `OTA_MAX_RETRY_COUNT`, which is 0 as committed; the
limit is a parameter, and the proofs hold for any). In `massflash`, two devices show every pair of
processes, two names a permutation of the disks; one fault is a disk that leaves
and returns while the other process works. With both kinds of disk for two
devices the state space passes ten million states; `massflash_one` has both kinds
for one device, with two faults and `Ends` (the processes share nothing that one
waits for), `MCMassFlashTen` and `MCMassFlashWritten` use both kinds, and the proofs cover any
number.

In `flash`, `MaxPolls` is one round (30 in the code): a round that fails and the
end of the rounds are the two cases. `MaxWords` is four, one more than any
handler counts. `MaxSwaps` is one: a second session meets everything that a first
one can leave, as all other state is made anew. Two chains are all that the
code's tables name; two RAM straps are this board's and another's. In `signing`,
two files of four and five cells give ranges of whole blocks and not, two calls
a result and a stale one. In `package`, `MaxEntries` is 14 (256 in the code) so
that one session passes it; two failures let one fall in a clean-up's way. In
`trees`, three children hold a strap node with two tables in any order, and
four a table that is not in the list; `MCBegins` has one pair of handles of
which one begins the other.

Fairness. `OtaAlignApp`, `OtaRollback` and `OtaRecovery` assume weak fairness of
the script's own steps only: a shell script waits for nothing but its own
commands, and the power supply stays after the last fault. `MassFlash` assumes
it of each process and of the main script's loop; nothing is assumed of the bus,
so a disk may stay away for ever, and `Ends` then rests on the timeouts.
`Tegraflash` assumes it of the program's own steps (`GoesOn`), which wait only for
a tool to return; the device may never come up, and the bound of the polls is
what makes `Ends` true. `Tegrasign`, `SocBup` and `BpmpTrim` state safety only: what matters
there is what a call leaves when it has ended.
CHECK_DEADLOCK is FALSE everywhere because the programs end.

Liveness is stated with its limits: `Aligns` excludes the reset between `mkfs`
and the writing of state 3; `Completes` is for at most one fault, because two can
leave a device whose check refuses the package, and excuses only a step that failed
(`failed`) with the device left in the shell for ever, and not a package refused, an
environment that is not restored or the retry after a reboot; `MarkedIsResumed` is for one fault
and upgrades, because the check takes a reinstallation of the version VER has for a
fresh update (VER = VER_b) and refuses it when it was cut between two boot images; `Settles` counts the network
among the faults, because a reboot for want of a network is not counted by the
scripts.

## 5 Proofs

Every theorem is proved from the assumptions named in its module and, where
stated, from one more condition:

* `OtaAlignAppProofs`, for whole writes (`~TornWrites`) where not said otherwise:
  `AlignInvariant` proves the inductive invariant `AlignInv`. It is needed because the
  safety of zeroing a partition depends on which partition the *next* run will choose,
  so it ties the states on both partitions, their files and the mounts to the step. From it:
  `FilesAlwaysSurvive`, `SourceAlwaysComplete`, `FailureIsTheMkfsOne`,
  `LatestIsResumed`, and `AlignmentRelocates`, that the specification implements
  `Relocation`. `GeometryInvariant` proves `GeometryInv`, what a state file says of
  where APP starts and ends and how large its file system is; it needs `AlignInv`,
  because what a state file says is true only if the latest one is resumed. From
  it: `SuccessIsAligned` (the run that ends well leaves APP aligned).
  `FsAlwaysFits` (the file system never reaches beyond its partition) needs no
  condition: it holds with torn state files too, where `AlignInv` does not. Its
  invariant `FitInv` says that there is no OTA_TEMP and no state file tells of shrinking
  while the file system has its old size (`FitDisk`), so that a run that works from
  the wrong partition, or gives up, finds the file system small wherever it cuts APP
  or makes it anew; TLC finds it invariant on the instance of `align_torn`.
* `OtaRollbackProofs`, for VER in place on eMMC (`InPlace`): `RollbackInvariant`.
  `RecordInv` says that the disk is either settled or half done in one version,
  which VER_b names; `AcceptedInv` what the decision lets through; `OrderInv` what
  each write may rely on. From it: `RollbackNeverApplied`, `UnfinishedComesFirst`,
  `RecordAlwaysTrue`, `TornVerBAlwaysFresh`, and `UpdateUpgrades`, that the
  specification implements `Upgrade`: `StartUpgrades` needs of `AcceptedInv` that
  what is written is the open version or a later one on a device that agrees,
  `FinishUpgrades` of `OrderInv` that the last partition is written while the
  others have the version. `EnvAlwaysKept` is proved apart, without
  `InPlace`, if the layout leaves the u-boot environment in its place or there is
  one work directory (`EnvIsSafe`). Its invariant `EnvInv` says that an image of the
  environment that is not complete can still be made: the partition it is read
  from is covered by the new GPT only after the image has its full size.
  `MarkedAlwaysResumed` needs no `InPlace` either: it is proved for every board and
  whether VER and VER_b stay or move, if there is one work directory, neither is
  across two boot devices, and the version is not the one VER has (`OneUpgrade`).
  `ResumeInv` says that VER stays below the version until the update ends, and that
  wherever an update that has started may be cut, VER_b and the partitions are as far
  as the check wants them.
* In the same module, of `OtaRecovery`, for a bootloader that takes an invalid
  kernel-bootctrl as normal (`BadBoots = "normal"`), any retry limit and any number
  of faults: `RecoveryInvariant`, from `SlotInv` (devices
  without recovery partitions: slot A is whole or B is active), `SelectInv` (with
  them: the recovery kernel is selected only while it is whole), `WrittenInv` and
  `CountInv`. From it: `DeviceAlwaysBoots`, `CleanUpComesLast`,
  `RetriesAreBounded`.
* `MassFlashProofs`, for instances and serial numbers that tell the devices apart
  (`Apart`): `MassFlashInvariant`, for any number of processes, devices, disks,
  names, rounds and faults. `BootInv` ties a device to its own process, `SearchInv`
  says that what a process has found is its own while its device stays,
  `FlashInv` what its disks hold at each step, `ReapInv` what the main script has
  counted. `SearchInv` needs `BootInv` (the instance that a disk reports is its
  own process's), and `FlashInv` needs both (a writer writes only its own disk).
  From it: `SearchesStayApart`, `RebootComesLast`, `StatusAlwaysTrue`. `DevAlwaysClean`
  needs no `Apart`: a regular file in `/dev` always stands under a name held by a
  process that is still to exit (`CleanInv`), even where names clash.
* `TegraflashProofs`, for the sessions of an unsecured T234 (`Covered`), with any
  options, any list of commands that is lawful, any failures, any number of polls and
  of other boards: `TegraflashInvariant`. That what is sent is signed depends on the
  whole sequence of steps before it, so an invariant about the files alone is not
  inductive: the program may be anywhere in a method that has undone a signature and
  is about to make it again. `TegraflashInv` therefore gives `todo` a proof outline
  (`Outlined`): a set of facts before each step still to be taken. A fact says what
  is known of a file or of a table entry (`Holds`: the BR-BCT is made, has its digest,
  has a signature file that fits, is signed, ...; a binary has its header, its
  signature); `After` gives the facts after a step from those before it, `Need`
  those without which it must not be taken, and `Legal` the steps there are. A call has
  facts of its own (`AfterCall`), the contract of a method. The proof has two halves.
  The first is about sequences of steps only: `Leads` is closed under
  concatenation, conditions and `try` (`LeadsJoin`, `LeadsWhen`), every method's steps
  keep its contract, whatever the options, and every command leads somewhere
  from any facts. The second is about the actions: each makes true what the
  outline says of its step, where a file that is written loses the facts about it
  because names of different images never coincide (`Clean`, `NamesOk`). A failure
  unwinds to an `except`, of which the steps lead on from no facts at all. From it:
  `OnlySignedIsSent` and `TegraflashTypes`. Assumed of the constants
  (`SessionsAssumption`, `SourcesAssumption`, `RamcodesAssumption`,
  `BoundsAssumption`): the images of the layout are among the sources, no image is
  named `br_bct`, `unsigned` is the name of nothing, and the commands are lawful
  (`LawfulCommand`): none is `secureflash`, no file that is signed or written has a
  name that begins with "aligned", and none that is read has the name of an
  image that is signed. `flash.sh` asks for none of these with these options; with
  them a file about to be sent could be overwritten, or sent as it came. What was
  made after a failure of `tegrasign()` that nobody heard of counts for nothing
  (`Heard`), as in the property. TLC evaluates the assumptions on every run of
  `MCTegraflash`.
* `TegrasignProofs`, for any files, keys, calls and number of calls, failures,
  kills and inputs made anew, if a list names each file once and one file is not
  given as a list (`FilesAssumption`, `CallsAssumption`): `SigningInvariant`.
  `Inputs` says that an input is as it was made last, `StageInv` that the stage
  fits the call and that the keys taken are its own and passed `check_key()`,
  `ListInv` that the children before the present one have what the list asks for,
  `FileInv` the same of a single file. `ListInv` is needed because a later child
  must not undo an earlier one, and `StageInv` because the keys are taken one stage
  before they are used; it also says that the XMSS pair is whole once a child was
  signed with it, so that a later child does not make it anew. `SpliceProperties` and `SealedRange` are the lemmas on a range
  cut out of a buffer, encrypted and put back. From it: `ListAlwaysSigned`,
  `FileAlwaysSigned`, for native signing; with an HSM they are not claimed.
  `ChainIsReference` compares the two ways to a key. The tool takes the messages
  that were collected in a fixed order of five KDKs, the reference goes up the
  table from the DK; they meet if a KDK is only below those before it in that
  order (`KdkTableAssumption`), and the proof goes down the five ranks. From it and
  the invariant `KdfInv`: `KdfAlwaysFollowsTable`, natively and by an HSM, but for
  the two cases that section 6 names.
* `SocBupProofs`, for any table of images, boards, fuse levels and sessions, if the
  rows that are packed have different names, every configuration has an image of its
  board, every configuration and fuse level is a directory, and there are two fuse
  levels, of which none has a configuration's name (`TableAssumption`,
  `BoardPartsAssumption`, `DirOrderAssumption`, `SpecsAssumption`,
  `SessionsAssumption`). Of the format: `EntriesReadBack`, that
  the offsets and lengths in the table of a payload give each file again, whatever
  is in front of it, and `UnpackGivesPacked`, that the whole payload taken apart is
  what was packed. Of the sessions: `PackageInvariant`, from `TypeInv`, `StageInv`,
  `MadeInv` (builds are numbered in the order of the configurations), `FreshInv`
  (what the build left is of this configuration), `MultiInv` (under each name of
  `multi_signed/` is the image of the last configuration that has it, and under
  the other names nothing) and `PackageInv`. `MultiInv` is the heart: the payload is
  collected by directory, so that an image of an earlier session would be packed,
  and what keeps it out is that `multi_signed/` is emptied before the first
  configuration and never holds more than the configurations built so far. From
  it: `PackageAlwaysWhole`.
* `BpmpTrimProofs`, for trees of any size that `dtc` makes, any RAM straps and any
  handles of which none begins "0x0" (`TreesAssumption`, `RamcodesAssumption`,
  `BeginsAssumption`): `TrimInvariant`. `TreeInv` says that the file is such a tree,
  or broken, and stays what the call began with until `dtc` writes, `CallInv` what each function has found:
  the place of the straps (`StrapsFound`), the first line of every table and
  the line after its last (`TablesFound`), one verdict for each table
  (`EntriesFound`); `TextInv` that the text which `dtc` is to read is refused by it
  or is of the tree meant. The proof first says where each line of the tree stands in
  the text (`Placed`), then that the scan with its count of braces has, after every
  line, found the tables that have ended (`ScanStep`, `ScanFinds`), that handles match
  tables by their order (`OneEntryEach`), and that cutting the text is cutting the
  tree (`CutOfTree`), unless the line too many is the root's last, and then a node
  stays open and `dtc` refuses the text (`CutTooFar`). From it: `TrimAlwaysExact`.
* `RecursionLemmas`: the functions above are loops over data, and what a loop
  computes is shown by induction. The induction theorems of the library take an
  operator as a parameter; here induction is stated over sets (`NatSetInduction`,
  `UpToInduction`), which first-order provers can apply, and from it follow the
  function that a loop with an accumulator defines and what `FlattenSeq` gives.

Only model-checked: liveness (`Aligns`, `Completes`, `Settles`, `Ends`), because the
prover handles neither ENABLED nor fairness; the moved layout and QSPI but for
`EnvKept` and `MarkedIsResumed`; and of `Tegraflash`, `BctNamesMb1`, `CombinedOnce`,
`TrimMatchesMem` and `FlashIsWhole`, and everything about a T194 and about images that
were signed before (`--securedev`). They depend on the order of the steps in the
same way, but on other facts: what is on the board, how often a file was
changed in place, for which strap. Some hold for the sessions that `flash.sh` starts
and not for any list of commands (`CombinedOnce`, see section 6), so that the outline
would have to know the session.

## 6 Where code and documentation disagree

`flash_unheard` is a run: `call_tegrasign()` drops what `tegrasign()` returns, and
`tegrasign()` catches its own exceptions. When a signature fails while two boot
chains are made, `tegrabct_v2` takes the signature that chain A left, chain B's
BCT is flashed with it, and `flash.sh` reports success.

By hand, each with the configuration named:

* `MCOtaAlignAppResume`: after a reset between `mkfs.ext4` of the temporary
  partition and the writing of state 3, every later run mounts that partition on
  entry, and the `mkfs.ext4` of state 2 refuses a mounted device.
* `MCOtaRollbackErased`: on QSPI, VER_b is erased and rewritten at every retry; a
  power cut there makes a half-done update look fresh.
* `MCOtaRollbackSplit`: with VER across `mmcblk0boot0` and `mmcblk0boot1` an
  arithmetic error abandons the version check, and the update goes on.
* `MCMassFlashTen`: the instance is matched as a substring, so process 1 takes the
  disks of instance 10. `--massflash` up to 10 has instances 0 to 9 and is safe.
* `MCMassFlashWritten`: `read_write_file()` drops the status of `dd`, so a failed
  write ends with "Flashing success".
* `MCTegraflashStale`: a dump without the MB2 applet prints an error and exits with
  0; `flash.sh` (818) goes on and finds `chip_info.bin_bak` of the board before
  (875-879), so that this board gets the memory table of the other one.
* `MCTegrasignStale`: `perform_sha()` looks only whether there is a digest under the name
  in the list. When the tool ends well and writes none, a call on new images succeeds
  with the digest of the call before.
* `MCTegraflashRead`: `do_read()` swallows the exception and `flash.sh` (3673) says
  that the partition "has been read successfully"; on a T194 without
  `--sdram_config` nothing is read when MB2 has not come up.

Known from the models and the reading that led to them:

* OTA: an empty state file on OTA_TEMP in state 7 makes APP, half copied, the
  source, and the copy runs backwards (`FilesSurvive` fails when state files may be
  torn); with two work directories and a moved layout an unfinished update can be
  overtaken; a repeated update is refused for ever after two cuts; a run resumed
  in state 10 leaves APP mounted; a reboot for want of a network is not counted
  and may repeat for ever; after `force_booting_to_normal()` a "Reboot system to
  try again" boots the normal kernel.
* Flashing: a T194's "sign; write MB1_BCT f; reboot" (`flash.sh` 3620-3624)
  appends the overlay twice. A `write BCT` of an invocation that finds MB2
  running makes a BCT without the digest of MB1; `write mb2` or `write dce` then
  fails with a TypeError. A T194's `write` crashes without `--sdram_config` unless
  `--external_device`. `_is_ratchet_set_needed()` of the T234 lacks `self`. A T234
  has no `tegraflash_encrypt_and_sign()`, `rcmbl`, `setverify`, `blowfuses`,
  `setrollback`, `test`, `readmrr`, `flush_sata`, `sata_fwdownload`, `verify` or
  `updaterpmb`: AttributeError. A command with the wrong number of words prints
  its help and the program exits with 0.
* Signing: a single XMSS key is always rejected; `--hsm` without a type needs a
  file of derivation parameters; an HSM's SBK is not used for AES-CBC and CMAC; the HSM route of `do_kdf_oem()`
  never uses the key of `--key`; when the size is a multiple of the block, the last
  block of the HSM route stays unencrypted; the message of SBK_FW_KDK is composed
  and dropped; when a tool ends well without a
  result, `do_sha()`, and on the HSM's route `do_hmac_sha256_hsm()` and `do_rsa_pss_hsm()`
  after a failure too when `tegrasign()` is called from `tegraflash`, take what an earlier
  run left under the name; `main()`
  drops the result of `tegrasign()`, so the exit status is 0 when a call has failed.
* Package: with more than 256 entries `-k` and `-x all` look at the first 256 only; an
  empty list makes an entry without words, and the generator fails;
  a partition that the last board lacks is left out with a warning.
* Trees: a handle whose text begins another's (0x1, 0x12) changes that one too; a
  node with a handle inside a table shifts the verdicts of later ones; the cut
  takes one line more than the table, which is blank unless the table is last, and
  then `dtc` refuses the text and the tree stays untrimmed; a `dtc` that fails while it
  writes leaves a broken file, of which the code says "Using existing bpmp_dtb"; one that
  ends well without writing is taken for a trim; a RAM strap beyond
  the list by one is an IndexError.

## 7 Abstractions and limits

* Zeroing a partition, `mkfs`, `resize2fs` and a change of the partition table are
  single steps. Byte offsets of APP are "old", "small" and "new".
* `mkfs.ext4 -F` refusing a mounted device is taken from e2fsprogs.
* A write to eMMC of what is already there never tears; QSPI erases first.
* `l4t_update_partitions.sh`, the rootfs updater, `nv_update_engine` and
  `nvbootctrl`, the script that starts an update, the kernel's disk names and
  devtmpfs are external: modelled from how the scripts use them and marked so.
* `OtaRollback` starts each run after a reboot, with `/tmp` empty.
* `MassFlash` leaves out `--external-only`, `--initrd`, `--network`, `--direct`,
  `-k` and sparse images, and treats the two eMMC boot areas as part of mmc0. A
  failed write while the partition table is created is seen as the disk leaving.
  A device that came back may or may not have its interface configured again
  (`Deaf`).
* `Tegraflash`: T186 and older chips, `tegrarcm` and SATA back ends, the
  interactive commands (`show`, `export`, `shell`, `quit`), files that come with
  a header already, and `--securedev` with `--odmdata` are left out. The layout that
  `tegraflash_update_cfg_file()` writes beside the signed files is not modelled: nothing
  reads it; nor is a `dtc` that ends well without trimming, which `BpmpTrim` has. What the
  binary tools compute is abstracted to which inputs a file was made of; what
  the boot ROM and MB1 accept is external (`Acceptable`). An unheard failure
  happens once in an invocation. CombinedOnce counts the overlay for a T234 only.
* `Tegrasign`: ciphers, HMACs and digests are records of their key and their input;
  the table of KDKs and DKs is a constant, because its YAML file is not in the
  repository; the printing of public keys and `l4t_sign_image.sh` are left out.
* `SocBup`: a file is its part, configuration and build; BMP payloads and
  the text of the printed table are left out.
* `BpmpTrim`: properties of the tree are lines without contents; handles are
  compared as the text that `dtc` prints, of which `Begins` says which begins
  which. `Plain` asks for one node of straps with one list of them, right after its
  first line, because the code looks at that line only; `dtc` refuses a property
  after a node (`WellFormed`). `TrimIsExact` says nothing of trees that are not `Plain`, except that
  a call that does not trim leaves them alone or broken.
* The components listed as not modelled in `PROJECT.json` are left for the plan in
  section 2, or are outside what a model checker can say anything about
  (cryptography, text conversion, external programs).
