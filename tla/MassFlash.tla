----------------------------- MODULE MassFlash -----------------------------
(***************************************************************************)
(* Flashing many devices at once over USB: l4t_initrd_flash.sh starts one  *)
(* l4t_initrd_flash_internal.sh per device and waits for all of them; each *)
(* boots its device into the flashing initrd, finds the disks that the     *)
(* device exports among everybody's /dev/sd*, finds its network interface  *)
(* by serial number, and then runs l4t_flash_from_kernel.sh on the host    *)
(* for those disks and, over ssh, on the device for its QSPI.              *)
(*                                                                         *)
(* Faults are exported disks that leave the bus and come back, perhaps     *)
(* under other names ("the connection might get reset"), writes that fail, *)
(* and commands that do.  The two eMMC boot areas are taken with mmc0.     *)
(***************************************************************************)
EXTENDS Integers

CONSTANTS
    Procs,         \* the flash processes, named by --device-instance
    Instances,     \* all instances; left-over initrds may have others
    Targets,       \* devices on the bus
    TargetOf,      \* the device at the --usb-instance of a process
    Leftover,      \* the instance of an initrd booted earlier, or Nobody
    Nobody,
    Matches,       \* Matches[p]: instances whose text contains that of p
    SerialOf,      \* serial number, as the initrd's USB gadget gives it
    Kinds,         \* the disks to flash: "mmc0", and perhaps "ext0"
    Names,         \* sda, sdb ... as numbers
    MaxPolls,      \* how often a loop tries before it gives up
    MaxFaults      \* bound: disconnections and failed writes explored

ASSUME ProcsAssumption ==
    /\ Procs \subseteq Instances /\ Nobody \notin Instances \cup Targets
    /\ TargetOf \in [Procs -> Targets]
    /\ \A p, q \in Procs : TargetOf[p] = TargetOf[q] => p = q
    /\ Leftover \in [Targets -> Instances \cup {Nobody}]
    /\ \A p \in Procs : Leftover[TargetOf[p]] = Nobody
ASSUME MatchesAssumption ==
    Matches \in [Procs -> SUBSET Instances] /\ \A p \in Procs : p \in Matches[p]
ASSUME KindsAssumption == Kinds \in {{"mmc0"}, {"mmc0", "ext0"}}
ASSUME NamesAssumption == Names \subseteq Nat
ASSUME BoundsAssumption == MaxPolls \in Nat /\ MaxFaults \in Nat

VARIABLES
    target, says,        \* per device: where it is; the instance of its initrd
    disk, qspi,          \* what this session has written, per disk and device
    sd, dev,             \* the kernel's disk names; the nodes in /dev
    pc, todo, polls,     \* per process
    held, serial, sshcon,
    at, on,              \* the writer of a disk: its step; the disk it has open
    qjob,                \* flash_qspi
    pids, failure,       \* l4t_initrd_flash.sh
    lost,                \* history: devices taken off the bus by someone else
    spoilt, faults       \* history: disks to which a write has failed; faults

hist == <<lost, spoilt, faults>>
bus == <<target, says, sd, dev, hist>>
media == <<disk, qspi>>
search == <<todo, polls, held, serial, sshcon>>
jobs == <<at, on, qjob>>
main == <<pids, failure>>
vars == <<bus, media, pc, search, jobs, main>>

Disks == Targets \X Kinds
NoDisk == <<>>
NoName == -1
Writers == Procs \X Kinds

Init ==
    /\ target = [t \in Targets |-> IF Leftover[t] = Nobody THEN "rcm" ELSE "initrd"]
    /\ says = Leftover
    /\ disk = [d \in Disks |-> {}] /\ qspi = [t \in Targets |-> FALSE]
    /\ sd = [n \in Names |-> NoDisk] /\ dev = [n \in Names |-> "none"]
    /\ pc = [p \in Procs |-> "boot"]
    /\ todo = [p \in Procs |-> {}] /\ polls = [p \in Procs |-> 0]
    /\ held = [w \in Writers |-> NoName]
    /\ serial = [p \in Procs |-> Nobody] /\ sshcon = [p \in Procs |-> Nobody]
    /\ at = [w \in Writers |-> "gpt"] /\ on = [w \in Writers |-> NoDisk]
    /\ qjob = [p \in Procs |-> "start"]
    /\ pids = Procs /\ failure = FALSE
    /\ lost = {} /\ spoilt = {} /\ faults = 0

\* What a read of /dev/sd* finds: nothing where dd has left a regular file.
Block(n) == IF n \in Names /\ dev[n] = "block" THEN sd[n] ELSE NoDisk

Ended(p) == pc[p] \in {"ok", "fail"}
Goto(p, l, m) == pc[p] = l /\ pc' = [pc EXCEPT ![p] = m]

\* Mutant: the files in /dev are left.
ExitWithoutCleanup(p, l, r) == Goto(p, l, r) /\ UNCHANGED dev

\* cleanup() of the internal script, on every exit: clean_dev_folder().
Exit(p, l, r) ==
    /\ Goto(p, l, r)
    /\ dev' = [n \in Names |-> IF dev[n] = "file" /\ \E k \in Kinds : held[<<p, k>>] = n
                                THEN "none" ELSE dev[n]]

-----------------------------------------------------------------------------
(* The bus: external.                                                      *)

\* A disk of a running initrd gets the first free name.
Attach(t, k) ==
    /\ target[t] = "initrd" /\ \A n \in Names : sd[n] # <<t, k>>
    /\ \E n \in Names :
         /\ sd[n] = NoDisk /\ \A m \in Names : m < n => sd[m] # NoDisk
         /\ sd' = [sd EXCEPT ![n] = <<t, k>>]
         /\ dev' = [dev EXCEPT ![n] = IF @ = "file" THEN "file" ELSE "block"]
    /\ UNCHANGED <<target, says, hist, media, pc, search, jobs, main>>

DisksOf(t) == {t} \X Kinds

\* The disks of t leave: their names are free, their nodes go, writes fail.
Detach(t) ==
    /\ sd' = [n \in Names |-> IF sd[n] \in DisksOf(t) THEN NoDisk ELSE sd[n]]
    /\ on' = [w \in Writers |-> IF on[w] \in DisksOf(t) THEN NoDisk ELSE on[w]]
NodesWithout(t, n) == IF sd[n] \in DisksOf(t) /\ dev[n] = "block" THEN "none" ELSE dev[n]

Drop(t) ==
    /\ target[t] = "initrd" /\ faults < MaxFaults
    /\ faults' = faults + 1 /\ lost' = lost \cup {t}
    /\ Detach(t) /\ dev' = [n \in Names |-> NodesWithout(t, n)]
    /\ UNCHANGED <<target, says, spoilt, media, pc, search, at, qjob, main>>

\* A write fails, and the disk stays.
WriteError(p, k) ==
    /\ on[<<p, k>>] # NoDisk /\ faults < MaxFaults
    /\ faults' = faults + 1 /\ spoilt' = spoilt \cup {on[<<p, k>>]}
    /\ on' = [on EXCEPT ![<<p, k>>] = NoDisk]
    /\ UNCHANGED <<target, says, sd, dev, lost, media, pc, search, at, qjob, main>>

-----------------------------------------------------------------------------
(* boot_initrd(), wait_for_booting() and wait_for_ssh()                    *)

BootInitrd(p) ==
    /\ \/ /\ Goto(p, "boot", "list")
          /\ target' = [target EXCEPT ![TargetOf[p]] = "initrd"]
          /\ says' = [says EXCEPT ![TargetOf[p]] = p]
          /\ UNCHANGED dev
       \/ Exit(p, "boot", "fail") /\ UNCHANGED <<target, says>>
    /\ UNCHANGED <<sd, hist, media, search, jobs, main>>

List(p) ==
    /\ Goto(p, "list", "look")
    /\ todo' = [todo EXCEPT ![p] = {n \in Names : dev[n] # "none"}]
    /\ UNCHANGED <<bus, media, polls, held, serial, sshcon, jobs, main>>

\* Mutant: any flashing initrd will do.
AnyInitrd(p, d) == d # NoDisk

\* The model that the disk reports contains the instance of p.
Mine(p, d) == d # NoDisk /\ says[d[1]] \in Matches[p]

Look(p, n) ==
    /\ pc[p] = "look" /\ n \in todo[p]
    /\ todo' = [todo EXCEPT ![p] = @ \ {n}]
    /\ held' = IF Mine(p, Block(n)) THEN [held EXCEPT ![<<p, Block(n)[2]>>] = n] ELSE held
    /\ UNCHANGED <<bus, media, pc, polls, serial, sshcon, jobs, main>>

\* The disk leaves after [ -b ]; udevadm fails and set -e ends the script.
LookAtNothing(p) ==
    /\ \E n \in todo[p] : dev[n] = "none"
    /\ Exit(p, "look", "fail")
    /\ UNCHANGED <<target, says, sd, hist, media, search, jobs, main>>

Complete(p) == \A k \in Kinds : held[<<p, k>>] # NoName

ReadSerial(p) ==
    /\ todo[p] = {} /\ Complete(p)
    /\ LET d == Block(held[<<p, "mmc0">>]) IN
         IF d = NoDisk
         THEN Exit(p, "look", "fail") /\ UNCHANGED <<polls, serial>>
         ELSE /\ Goto(p, "look", "ssh")
              /\ serial' = [serial EXCEPT ![p] = SerialOf[d[1]]]
              /\ polls' = [polls EXCEPT ![p] = 0]
              /\ UNCHANGED dev
    /\ UNCHANGED <<target, says, sd, hist, media, todo, held, sshcon, jobs, main>>

\* Mutant: the rounds are not counted.
PollForEver(p, l, m) ==
    /\ Goto(p, l, m) /\ UNCHANGED <<bus, media, search, jobs, main>>

\* One more round of a loop, or its timeout.
Poll(p, l, m) ==
    /\ polls' = [polls EXCEPT ![p] = @ + 1]
    /\ IF polls[p] + 1 >= MaxPolls
       THEN Exit(p, l, "fail")
       ELSE Goto(p, l, m) /\ UNCHANGED dev
    /\ UNCHANGED <<target, says, sd, hist, media, todo, held, serial, sshcon, jobs, main>>

KeepLooking(p) == todo[p] = {} /\ ~Complete(p) /\ Poll(p, "look", "list")

\* Mutant: any interface will do.
AnyInterface(p) == {t \in Targets : target[t] = "initrd"}

Reachable(p) == {t \in Targets : target[t] = "initrd" /\ SerialOf[t] = serial[p]}

PingDevice(p) ==
    /\ Goto(p, "ssh", "flash")
    /\ \E t \in Reachable(p) : sshcon' = [sshcon EXCEPT ![p] = t]
    /\ UNCHANGED <<bus, media, todo, polls, held, serial, jobs, main>>

NoAnswer(p) == Poll(p, "ssh", "ssh")

-----------------------------------------------------------------------------
(* l4t_flash_from_kernel.sh --host-mode, started by flash()                *)

Up(p) == sshcon[p] \in Targets /\ target[sshcon[p]] = "initrd"
\* The interface of a device that comes back may not be configured again.
Deaf(p) == ~Up(p) \/ sshcon[p] \in lost
Step(p, k, l, m) ==
    pc[p] = "flash" /\ at[<<p, k>>] = l /\ at' = [at EXCEPT ![<<p, k>>] = m]
AllWriters(p, l) ==
    at' = [w \in Writers |-> IF w[1] = p THEN l ELSE at[w]]

\* The internal storage comes first; parted or partprobe on nothing ends it.
CreateGpt(p, k) ==
    /\ pc[p] = "flash" /\ at[<<p, k>>] = "gpt"
    /\ k = "ext0" => at[<<p, "mmc0">>] = "probe"
    /\ LET d == Block(held[<<p, k>>]) IN
         IF d = NoDisk
         THEN AllWriters(p, "fail") /\ UNCHANGED disk
         ELSE Step(p, k, "gpt", "probe") /\ disk' = [disk EXCEPT ![d] = {"gpt"}]
    /\ UNCHANGED <<bus, qspi, pc, search, on, qjob, main>>

Partprobe(p) ==
    /\ pc[p] = "flash" /\ \A k \in Kinds : at[<<p, k>>] = "probe"
    /\ \/ Up(p) /\ AllWriters(p, "app")
       \/ Deaf(p) /\ AllWriters(p, "fail")
    /\ UNCHANGED <<bus, media, pc, search, on, qjob, main>>

\* From here on one writer per disk, flash_emmc and flash_extdev, in parallel.
\* A writer has its disk open: what leaves the bus does not come back for it.
Open(p, k, part) ==
    LET d == Block(held[<<p, k>>]) IN
    /\ d # NoDisk
    /\ on' = [on EXCEPT ![<<p, k>>] = d]
    /\ disk' = [disk EXCEPT ![d] = @ \ {part}]

Written(p, k, part) ==
    /\ disk' = IF on[<<p, k>>] = NoDisk THEN disk
               ELSE [disk EXCEPT ![on[<<p, k>>]] = @ \cup {part}]
    /\ on' = [on EXCEPT ![<<p, k>>] = NoDisk]

\* do_write_APP(), a tar image: no partition node, no write.
OpenApp(p, k) ==
    /\ \/ Step(p, k, "app", "untar") /\ Open(p, k, "app") /\ UNCHANGED dev
       \/ /\ Step(p, k, "app", "fail")
          /\ Block(held[<<p, k>>]) # NoDisk => "gpt" \notin disk[Block(held[<<p, k>>])]
          /\ UNCHANGED <<on, disk, dev>>
    /\ UNCHANGED <<target, says, sd, hist, qspi, pc, search, qjob, main>>

\* tar may see that the disk is gone, or have it all in the page cache.
CloseApp(p, k) ==
    /\ \/ Step(p, k, "untar", "wait")
       \/ Step(p, k, "untar", "fail") /\ on[<<p, k>>] = NoDisk
    /\ Written(p, k, "app")
    /\ UNCHANGED <<bus, qspi, pc, search, qjob, main>>

\* do_write_storage(), any other partition.
WaitForBlockDev(p, k) ==
    /\ IF Block(held[<<p, k>>]) # NoDisk
       THEN Step(p, k, "wait", "open") ELSE Step(p, k, "wait", "fail")
    /\ UNCHANGED <<bus, media, pc, search, on, qjob, main>>

\* dd to a name that is gone makes a regular file in /dev.
OpenPart(p, k) ==
    /\ \/ Step(p, k, "open", "dd") /\ Open(p, k, "part") /\ UNCHANGED dev
       \/ /\ Block(held[<<p, k>>]) = NoDisk
          /\ \/ Step(p, k, "open", "fail") /\ UNCHANGED dev
             \/ Step(p, k, "open", "dd") /\ dev' = [dev EXCEPT ![held[<<p, k>>]] = "file"]
          /\ UNCHANGED <<on, disk>>
    /\ UNCHANGED <<target, says, sd, hist, qspi, pc, search, qjob, main>>

\* read_write_file() returns 0 whatever dd says.
ClosePart(p, k) ==
    /\ Step(p, k, "dd", "ok") /\ Written(p, k, "part")
    /\ UNCHANGED <<bus, qspi, pc, search, qjob, main>>

-----------------------------------------------------------------------------
(* The internal script, once the device answers                            *)

\* flash_qspi() over ssh, in parallel with flash().
QspiStep(p, l, m) == pc[p] = "flash" /\ qjob[p] = l /\ qjob' = [qjob EXCEPT ![p] = m]

BeginQspi(p) ==
    /\ \/ QspiStep(p, "start", "run") /\ Up(p) /\ qspi' = [qspi EXCEPT ![sshcon[p]] = FALSE]
       \/ QspiStep(p, "start", "fail") /\ Deaf(p) /\ UNCHANGED qspi
    /\ UNCHANGED <<bus, disk, pc, search, at, on, main>>

EndQspi(p) ==
    /\ \/ QspiStep(p, "run", "ok") /\ Up(p) /\ qspi' = [qspi EXCEPT ![sshcon[p]] = TRUE]
       \/ QspiStep(p, "run", "fail") /\ UNCHANGED qspi
    /\ UNCHANGED <<bus, disk, pc, search, at, on, main>>

JobsEnded(p) ==
    (\A k \in Kinds : at[<<p, k>>] \in {"ok", "fail"}) /\ qjob[p] \in {"ok", "fail"}
\* Mutant: the result of flash_qspi() is dropped.
DisksOk(p) == \A k \in Kinds : at[<<p, k>>] = "ok"
JobsOk(p) == (\A k \in Kinds : at[<<p, k>>] = "ok") /\ qjob[p] = "ok"

WaitForJobs(p) ==
    /\ JobsEnded(p)
    /\ IF JobsOk(p) THEN Goto(p, "flash", "reboot") /\ UNCHANGED dev
                    ELSE Exit(p, "flash", "fail")
    /\ UNCHANGED <<target, says, sd, hist, media, search, jobs, main>>

RebootTarget(p) ==
    /\ Up(p) /\ Goto(p, "reboot", "exit")
    /\ LET t == sshcon[p] IN
         /\ target' = [target EXCEPT ![t] = "gone"]
         /\ lost' = IF t = TargetOf[p] THEN lost ELSE lost \cup {t}
         /\ Detach(t) /\ dev' = [n \in Names |-> NodesWithout(t, n)]
    /\ UNCHANGED <<says, spoilt, faults, media, search, at, qjob, main>>

RebootFailed(p) ==
    /\ Deaf(p) /\ Exit(p, "reboot", "fail")
    /\ UNCHANGED <<target, says, sd, hist, media, search, jobs, main>>

Success(p) ==
    /\ Exit(p, "exit", "ok")
    /\ UNCHANGED <<target, says, sd, hist, media, search, jobs, main>>

\* Mutant: the last process decides.
ReapLast(p) ==
    /\ p \in pids /\ Ended(p)
    /\ pids' = pids \ {p}
    /\ failure' = (pc[p] = "fail")
    /\ UNCHANGED <<bus, media, pc, search, jobs>>

\* The loop of l4t_initrd_flash.sh over /proc/<pid>.
Reap(p) ==
    /\ p \in pids /\ Ended(p)
    /\ pids' = pids \ {p}
    /\ failure' = (failure \/ pc[p] = "fail")
    /\ UNCHANGED <<bus, media, pc, search, jobs>>

Write(p, k) ==
    \/ CreateGpt(p, k) \/ OpenApp(p, k) \/ CloseApp(p, k)
    \/ WaitForBlockDev(p, k) \/ OpenPart(p, k) \/ ClosePart(p, k)

Process(p) ==
    \/ BootInitrd(p) \/ List(p) \/ (\E n \in Names : Look(p, n)) \/ LookAtNothing(p)
    \/ KeepLooking(p) \/ ReadSerial(p) \/ PingDevice(p) \/ NoAnswer(p)
    \/ Partprobe(p) \/ (\E k \in Kinds : Write(p, k)) \/ BeginQspi(p) \/ EndQspi(p)
    \/ WaitForJobs(p) \/ RebootTarget(p) \/ RebootFailed(p) \/ Success(p)

Bus ==
    \/ \E t \in Targets : Drop(t) \/ \E k \in Kinds : Attach(t, k)
    \/ \E p \in Procs, k \in Kinds : WriteError(p, k)

Next == Bus \/ \E p \in Procs : Process(p) \/ Reap(p)

Fairness == \A p \in Procs : WF_vars(Process(p)) /\ WF_vars(Reap(p))

Spec == Init /\ [][Next]_vars /\ Fairness

-----------------------------------------------------------------------------
(* Properties.                                                             *)

TypeOK ==
    /\ target \in [Targets -> {"rcm", "initrd", "gone"}]
    /\ says \in [Targets -> Instances \cup {Nobody}]
    /\ disk \in [Disks -> SUBSET {"gpt", "app", "part"}]
    /\ qspi \in [Targets -> BOOLEAN]
    /\ sd \in [Names -> Disks \cup {NoDisk}] /\ dev \in [Names -> {"none", "block", "file"}]
    /\ pc \in [Procs -> {"boot", "list", "look", "ssh", "flash", "reboot", "exit", "ok", "fail"}]
    /\ todo \in [Procs -> SUBSET Names] /\ polls \in [Procs -> Nat]
    /\ held \in [Writers -> Names \cup {NoName}]
    /\ serial \in [Procs -> {SerialOf[t] : t \in Targets} \cup {Nobody}]
    /\ sshcon \in [Procs -> Targets \cup {Nobody}]
    /\ at \in [Writers -> {"gpt", "probe", "app", "untar", "wait", "open", "dd", "ok", "fail"}]
    /\ on \in [Writers -> Disks \cup {NoDisk}]
    /\ qjob \in [Procs -> {"start", "run", "ok", "fail"}]
    /\ pids \subseteq Procs /\ failure \in BOOLEAN
    /\ lost \subseteq Targets /\ spoilt \subseteq Disks /\ faults \in Nat

\* No instance is part of another, and no initrd of an earlier session has one
\* that a process looks for; every device has a serial number of its own.
Apart ==
    /\ \A p \in Procs : Matches[p] \cap Procs = {p}
    /\ \A p \in Procs, t \in Targets : Leftover[t] \notin Matches[p]
    /\ \A t, u \in Targets : SerialOf[t] = SerialOf[u] => t = u

\* A device goes through a session with its own process.
BootInv ==
    /\ \A t \in Targets : \/ says[t] = Leftover[t]
                          \/ says[t] \in Procs /\ TargetOf[says[t]] = t
    /\ \A p \in Procs :
         /\ pc[p] = "boot" => target[TargetOf[p]] = "rcm"
         /\ target[TargetOf[p]] = "rcm" =>
              pc[p] \in {"boot", "fail"} /\ \A k \in Kinds : held[<<p, k>>] = NoName
         /\ target[TargetOf[p]] = "gone" /\ TargetOf[p] \notin lost => pc[p] \in {"exit", "ok"}
    /\ \A t \in Targets : target[t] = "gone" /\ t \notin lost =>
         \E p \in Procs : TargetOf[p] = t /\ pc[p] \in {"exit", "ok"}

\* What a process has found is its own while its device stays.
Finds(p) ==
    /\ \A k \in Kinds : held[<<p, k>>] # NoName /\ target[TargetOf[p]] = "initrd"
                          => Block(held[<<p, k>>]) = <<TargetOf[p], k>>
    /\ \A k \in Kinds : on[<<p, k>>] \in {NoDisk, <<TargetOf[p], k>>}
    /\ pc[p] = "ssh" => serial[p] = SerialOf[TargetOf[p]]
    /\ pc[p] \in {"ssh", "flash", "reboot"} => Complete(p)
    /\ sshcon[p] \in {Nobody, TargetOf[p]}
    /\ pc[p] \in {"flash", "reboot"} => sshcon[p] = TargetOf[p]
SearchInv == \A p \in Procs : TargetOf[p] \in lost \/ Finds(p)

\* What its disks hold at each step of a process.
Holds(p, k) ==
    LET d == <<TargetOf[p], k>> IN d \notin spoilt =>
    /\ at[<<p, k>>] \in {"probe", "app", "untar"} => "gpt" \in disk[d]
    /\ at[<<p, k>>] \in {"wait", "open", "dd"} => {"gpt", "app"} \subseteq disk[d]
    /\ at[<<p, k>>] = "ok" => {"gpt", "app", "part"} = disk[d]
    /\ at[<<p, k>>] \in {"untar", "dd"} => on[<<p, k>>] = d
FlashInv == lost = {} => \A p \in Procs :
    /\ \A k \in Kinds : Holds(p, k)
    /\ qjob[p] = "ok" => qspi[TargetOf[p]]
    /\ pc[p] \in {"reboot", "exit", "ok"} => JobsOk(p)

\* The main script counts what has ended.
ReapInv ==
    /\ \A p \in Procs \ pids : Ended(p)
    /\ failure <=> \E p \in Procs \ pids : pc[p] = "fail"

\* The conditions under which sessions stay apart hold at every step of every
\* process, whatever leaves the bus and in whatever order the disks appear.
MassFlashInv == TypeOK /\ BootInv /\ SearchInv /\ FlashInv /\ ReapInv

\* The searches of the processes stay apart: a process that has a disk of
\* another device open, or talks to another device, has lost its own.
OwnUnlessLost ==
    \A p \in Procs : TargetOf[p] \in lost
        \/ /\ \A k \in Kinds : on[<<p, k>>] \in {NoDisk, <<TargetOf[p], k>>}
           /\ sshcon[p] \in {Nobody, TargetOf[p]}

\* A device is rebooted when it is done: while nothing is lost, a device that
\* has left the initrd carries everything the session has to write, whichever
\* of the parallel writers of l4t_initrd_flash_internal.sh ends last, except
\* on a disk that has failed.
Carries(d) == disk[d] = {"gpt", "app", "part"}
Flashed(t) == qspi[t] /\ \A k \in Kinds : Carries(<<t, k>>)
RebootedIsFlashed == lost = {} => \A t \in Targets : target[t] = "gone" =>
    qspi[t] /\ \A k \in Kinds : <<t, k>> \in spoilt \/ Carries(<<t, k>>)

\* clean_dev_folder() of every process: once all have ended, no regular file
\* stands in /dev under the name of a disk.
DevIsClean == (\A p \in Procs : Ended(p)) => \A n \in Names : dev[n] # "file"

\* The exit status of l4t_initrd_flash.sh tells whether any process failed.
StatusIsTrue == pids = {} => (failure <=> \E p \in Procs : pc[p] = "fail")

\* Whatever leaves the bus or never answers, l4t_initrd_flash.sh comes to an end.
Ends == <>(pids = {})

\* "Failed to write" is reported (l4t_flash_from_kernel.sh:511): after Success
\* the device of a process carries everything.
SuccessIsWritten == \A p \in Procs : pc[p] = "ok" => Flashed(TargetOf[p])
=============================================================================
