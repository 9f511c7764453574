--------------------------- MODULE OtaAlignApp ---------------------------
(***************************************************************************)
(* ota_align_app_part() of nv_ota_adjust_app.sh: the APP partition of an   *)
(* R28.2 device is recreated at an aligned offset while the OTA files it   *)
(* holds are parked on a temporary partition, OTA_TEMP.  Progress 0..10 is *)
(* kept in the file ota_adjust_app_state so that the recovery initrd can   *)
(* resume after a reset at any point.                                      *)
(*                                                                         *)
(* What survives a reset: the partition table, the file systems and the    *)
(* files on them.  What does not: the mounts and the shell's variables.    *)
(* A step is the code between two of the script's `sync' points.           *)
(***************************************************************************)
EXTENDS Naturals

CONSTANTS
    OtaFiles,     \* the ota_* files and directories, the state file excepted
    StateFile,    \* ota_adjust_app_state, copied like the others
    MaxResets,    \* bound: resets explored
    TornWrites    \* a reset may leave a just-truncated state file empty

ASSUME FilesAssumption == OtaFiles # {} /\ StateFile \notin OtaFiles
ASSUME BoundAssumption == MaxResets \in Nat /\ TornWrites \in BOOLEAN

VARIABLES
    part,      \* per partition: "absent", "raw" (no file system) or "ext4"
    files,     \* per partition: the OTA files complete on it
    st,        \* per partition: content of ota_adjust_app_state
    endOld,    \* ota_work/ota_app_end_old: "none", or the end it records
    app,       \* geometry of APP: its start, its end, the end of its ext4
    aligned,   \* the file ota_app_aligned is on APP
    sosB,      \* the partition SOS_b is in the table
    pc, state, pkg, mnt, appMount, tempMount, appKnown, todo, resets

geometry == <<endOld, app, aligned, sosB>>
disk == <<part, files, st, geometry>>
mounts == <<pkg, mnt, appMount, tempMount, appKnown>>
vars == <<disk, mounts, pc, state, todo, resets>>

Parts == {"APP", "OTA_TEMP"}
Paths == {"app_mnt", "temp_mnt"}
States == 0..10
NoFile == 11        \* there is no state file
Torn == 12          \* the state file is there and empty
Labels == {"boot", "shrinkfs", "state1", "shrinkpart", "state2", "sosb",
           "mktemp", "mkfstemp", "state3", "mounttemp", "copy4", "state4",
           "swap5", "carry4", "zeroapp", "rmapp", "state5", "mkapp",
           "mkfsapp", "state6", "mountapp", "copy7", "state7", "swap8",
           "carry7", "zerotemp", "rmtemp", "state8", "growpart", "state9",
           "growfs", "state10", "mark", "done", "failed"}

Mounted(p) == \E m \in Paths : mnt[m] = p
Source == mnt[pkg]                           \* what ota_package_mnt shows
Other(m) == IF m = "temp_mnt" THEN "app_mnt" ELSE "temp_mnt"
Unmount(S) == [m \in Paths |-> IF m \in S THEN "none" ELSE mnt[m]]
AllFiles == OtaFiles \cup {StateFile}

\* Mutant: the partition is cut before the file system on it is shrunk.
EnterPartFirst(s) == IF s <= 1 THEN "shrinkpart" ELSE "sosb"

\* The first block whose `-lt' test holds; SOS_b is looked for on every run,
\* and no test holds of an empty state file.
Enter(s) == IF s = 0 THEN "shrinkfs" ELSE IF s = 1 THEN "shrinkpart" ELSE "sosb"
AfterSosB(s) ==
    IF s <= 2 THEN "mktemp" ELSE IF s = 3 THEN "mounttemp" ELSE IF s = 4 THEN "swap5"
    ELSE IF s = 5 THEN "mkapp" ELSE IF s = 6 THEN "mountapp" ELSE IF s = 7 THEN "swap8"
    ELSE IF s = 8 THEN "growpart" ELSE IF s = 9 THEN "growfs" ELSE "done"

Init ==
    /\ part = [p \in Parts |-> IF p = "APP" THEN "ext4" ELSE "absent"]
    /\ files = [p \in Parts |-> IF p = "APP" THEN OtaFiles ELSE {}]
    /\ st = [p \in Parts |-> NoFile]
    /\ endOld = "none"
    /\ app = [start |-> "old", end |-> "old", fs |-> "old"]
    /\ aligned = FALSE
    /\ sosB \in BOOLEAN
    /\ pc = "boot" /\ state = 0 /\ pkg = "app_mnt"
    /\ mnt = [m \in Paths |-> "none"]
    /\ appMount = FALSE /\ tempMount = FALSE /\ appKnown = FALSE
    /\ todo = {} /\ resets = 0

Goto(l) == pc' = l
App(s, e, f) == app' = [start |-> s, end |-> e, fs |-> f]
Return1 == Goto("failed") /\ UNCHANGED <<disk, mounts, state, todo, resets>>

-----------------------------------------------------------------------------
(* Entry: mount what can be mounted and choose where to work.              *)

HasState(p) == st[p] \in States

\* Mutants: APP wins whenever both states are valid; the two pairs of states are
\* swapped; state 7 of APP is forgotten.
ChosenAppFirst ==
    IF part["APP"] = "ext4" THEN "APP"
    ELSE IF part["OTA_TEMP"] = "ext4" THEN "OTA_TEMP" ELSE "none"
ChosenSwapped ==
    IF part["APP"] # "ext4" THEN IF part["OTA_TEMP"] = "ext4" THEN "OTA_TEMP" ELSE "none"
    ELSE IF part["OTA_TEMP"] # "ext4" \/ ~HasState("OTA_TEMP") \/ st["APP"] \in {6, 7}
    THEN "APP" ELSE "OTA_TEMP"
ChosenNoSeven ==
    IF part["APP"] # "ext4" THEN IF part["OTA_TEMP"] = "ext4" THEN "OTA_TEMP" ELSE "none"
    ELSE IF part["OTA_TEMP"] # "ext4" THEN "APP"
    ELSE IF ~HasState("APP") THEN IF HasState("OTA_TEMP") THEN "OTA_TEMP" ELSE "none"
    ELSE IF ~HasState("OTA_TEMP") \/ st["APP"] \in {3, 4} THEN "APP"
    ELSE IF st["APP"] = 6 THEN "OTA_TEMP" ELSE "none"

\* The partition ota_package_mnt is set to, "none" for the error returns.
Chosen ==
    IF part["APP"] # "ext4" THEN IF part["OTA_TEMP"] = "ext4" THEN "OTA_TEMP" ELSE "none"
    ELSE IF part["OTA_TEMP"] # "ext4" THEN "APP"
    ELSE IF ~HasState("APP") THEN IF HasState("OTA_TEMP") THEN "OTA_TEMP" ELSE "none"
    ELSE IF ~HasState("OTA_TEMP") \/ st["APP"] \in {3, 4} THEN "APP"
    ELSE IF st["APP"] \in {6, 7} THEN "OTA_TEMP" ELSE "none"

AlreadyAligned ==
    /\ pc = "boot" /\ part["APP"] = "ext4" /\ aligned
    /\ Goto("done")
    /\ UNCHANGED <<disk, mounts, state, todo, resets>>

Choose ==
    /\ pc = "boot" /\ ~(part["APP"] = "ext4" /\ aligned) /\ Chosen # "none"
    /\ LET s == IF st[Chosen] = NoFile THEN 0 ELSE st[Chosen]
       IN  /\ st' = [st EXCEPT ![Chosen] = s]
           /\ state' = s
           /\ Goto(Enter(s))
    /\ pkg' = IF Chosen = "APP" THEN "app_mnt" ELSE "temp_mnt"
    /\ mnt' = [m \in Paths |-> LET p == IF m = "app_mnt" THEN "APP" ELSE "OTA_TEMP"
                               IN  IF part[p] = "ext4" THEN p ELSE "none"]
    /\ appMount' = (part["APP"] = "ext4")
    /\ tempMount' = (part["OTA_TEMP"] = "ext4")
    /\ appKnown' = (part["APP"] # "absent")
    /\ UNCHANGED <<part, files, geometry, todo, resets>>

NothingToChoose ==
    pc = "boot" /\ ~(part["APP"] = "ext4" /\ aligned) /\ Chosen = "none" /\ Return1

\* echo -n ${ota_adjust_app_state} >${ota_adjust_app_state_file}; sync
SetState(from, s, to) ==
    /\ pc = from
    /\ st' = [st EXCEPT ![Source] = s]
    /\ state' = s /\ Goto(to)
    /\ UNCHANGED <<part, files, geometry, mounts, todo, resets>>

-----------------------------------------------------------------------------
(* States 0 to 2: shrink the file system, then the partition.              *)

ShrinkFs ==
    /\ pc = "shrinkfs" /\ Goto("state1")
    /\ App(app.start, app.end, "small")
    /\ UNCHANGED <<part, files, st, endOld, aligned, sosB, state, mounts, todo, resets>>

\* Mutant: the end of APP is recorded anew by each run.
ShrinkPartRerecord ==
    /\ pc = "shrinkpart" /\ Goto("state2")
    /\ endOld' = app.end
    /\ App(app.start, "small", app.fs)
    /\ UNCHANGED <<part, files, st, aligned, sosB, state, mounts, todo, resets>>

\* The old end is recorded before the partition is cut, and APP is cut only
\* while its end is still the recorded one.
ShrinkPart ==
    /\ pc = "shrinkpart"
    /\ LET old == IF endOld = "none" THEN app.end ELSE endOld
       IN  IF endOld = "none"
           THEN endOld' = old /\ app' = app /\ Goto("shrinkpart")
           ELSE /\ App(app.start, IF app.end = old THEN "small" ELSE app.end, app.fs)
                /\ endOld' = endOld /\ Goto("state2")
    /\ UNCHANGED <<part, files, st, aligned, sosB, state, mounts, todo, resets>>

\* Mutant: SOS_b stays.
KeepSosB ==
    /\ pc = "sosb" /\ Goto(AfterSosB(state))
    /\ UNCHANGED <<disk, state, mounts, todo, resets>>

RemoveSosB ==
    /\ pc = "sosb"
    /\ sosB' = FALSE /\ Goto(AfterSosB(state))
    /\ UNCHANGED <<part, files, st, endOld, app, aligned, state, mounts, todo, resets>>

-----------------------------------------------------------------------------
(* States 2 to 4: create OTA_TEMP and copy the files to it.                *)

MkpartTemp ==
    /\ pc = "mktemp" /\ ~sosB
    /\ Goto("mkfstemp")
    /\ part' = IF part["OTA_TEMP"] = "absent"
               THEN [part EXCEPT !["OTA_TEMP"] = "raw"] ELSE part
    /\ UNCHANGED <<files, st, geometry, state, mounts, todo, resets>>

\* mkfs.ext4 -F makes p an empty file system; it refuses a mounted device.
Mkfs(p) ==
    /\ part' = [part EXCEPT ![p] = "ext4"]
    /\ files' = [files EXCEPT ![p] = {}]
    /\ st' = [st EXCEPT ![p] = NoFile]

MkfsTemp ==
    /\ pc = "mkfstemp"
    /\ \/ Mounted("OTA_TEMP") /\ Return1
       \/ /\ ~Mounted("OTA_TEMP")
          /\ Mkfs("OTA_TEMP") /\ Goto("state3")
          /\ UNCHANGED <<geometry, state, mounts, todo, resets>>

MountTemp ==
    /\ pc = "mounttemp" /\ part["OTA_TEMP"] = "ext4"
    /\ mnt' = IF tempMount THEN mnt ELSE [mnt EXCEPT !["temp_mnt"] = "OTA_TEMP"]
    /\ tempMount' = TRUE
    /\ todo' = AllFiles /\ Goto("copy4")
    /\ UNCHANGED <<disk, state, pkg, appMount, appKnown, resets>>

\* Mutant: the next state is entered when the state file has been copied.
CopyFileHasty(at, to, next) ==
    /\ pc = at /\ todo # {} /\ Source # mnt[to]
    /\ \/ \E f \in todo \ {StateFile} :
            /\ todo' = todo \ {f} /\ UNCHANGED st
            /\ files' = [files EXCEPT ![mnt[to]] = @ \cup (files[Source] \cap {f})]
       \/ todo' = {} /\ st' = [st EXCEPT ![mnt[to]] = st[Source]] /\ UNCHANGED files
    /\ Goto(IF todo' = {} THEN next ELSE at)
    /\ UNCHANGED <<part, geometry, state, mounts, resets>>

\* cp -vR of one file from the package mount to `to': the target is cut to
\* nothing, then written.  cp leaves a file that is its own target alone.
CopyFile(at, to, next) ==
    /\ pc = at /\ todo # {}
    /\ \E f \in todo :
         IF Source = mnt[to]
         THEN todo' = todo \ {f} /\ UNCHANGED <<files, st>>
         ELSE IF f = StateFile
         THEN /\ UNCHANGED files
              /\ \/ st[mnt[to]] # Torn /\ st' = [st EXCEPT ![mnt[to]] = Torn] /\ todo' = todo
                 \/ st[mnt[to]] = Torn /\ st' = [st EXCEPT ![mnt[to]] = st[Source]]
                    /\ todo' = todo \ {f}
         ELSE /\ UNCHANGED st
              /\ \/ f \in files[mnt[to]] /\ todo' = todo
                    /\ files' = [files EXCEPT ![mnt[to]] = @ \ {f}]
                 \/ f \notin files[mnt[to]] /\ todo' = todo \ {f}
                    /\ files' = [files EXCEPT ![mnt[to]] = @ \cup (files[Source] \cap {f})]
    /\ Goto(IF todo' = {} THEN next ELSE at)
    /\ UNCHANGED <<part, geometry, state, mounts, resets>>

-----------------------------------------------------------------------------
(* States 4 and 5: work from OTA_TEMP and delete APP.                      *)

\* Mutant: state 4 is not written to OTA_TEMP before APP is destroyed.
SwapToTempNoCarry ==
    /\ pc = "swap5" /\ Goto("zeroapp")
    /\ mnt' = IF appMount THEN [Unmount(Paths) EXCEPT ![pkg] = "OTA_TEMP"] ELSE mnt
    /\ UNCHANGED <<disk, pkg, appMount, tempMount, appKnown, state, todo, resets>>

\* umount the package mount and then ota_temp_mnt, mount OTA_TEMP on the
\* former; the second umount fails when the two are the same path.
SwapToTemp ==
    /\ pc = "swap5"
    /\ \/ ~appMount /\ Goto("zeroapp") /\ UNCHANGED <<disk, mounts, state, todo, resets>>
       \/ appMount /\ pkg = "temp_mnt" /\ Return1
       \/ appMount /\ pkg # "temp_mnt"
          /\ mnt' = [Unmount(Paths) EXCEPT ![pkg] = "OTA_TEMP"]
          /\ Goto("carry4")
          /\ UNCHANGED <<disk, pkg, appMount, tempMount, appKnown, state, todo, resets>>

\* dd if=/dev/zero of=p: p keeps its table entry and loses its file system.
Wipe(p) ==
    /\ part' = [part EXCEPT ![p] = "raw"]
    /\ files' = [files EXCEPT ![p] = {}]
    /\ st' = [st EXCEPT ![p] = NoFile]

ZeroApp ==
    /\ pc = "zeroapp"
    /\ IF part["APP"] = "absent"
       THEN Goto("state5") /\ UNCHANGED <<part, files, st>>
       ELSE Goto("rmapp") /\ Wipe("APP")
    /\ UNCHANGED <<geometry, mounts, state, todo, resets>>

RemoveApp ==
    /\ pc = "rmapp" /\ Goto("state5")
    /\ part' = [part EXCEPT !["APP"] = "absent"]
    /\ appKnown' = FALSE /\ appMount' = FALSE
    /\ UNCHANGED <<files, st, geometry, pkg, mnt, tempMount, state, todo, resets>>

-----------------------------------------------------------------------------
(* States 5 to 7: create APP at the aligned offset and copy the files back.*)

MkpartApp ==
    /\ pc = "mkapp" /\ Goto("mkfsapp")
    /\ IF appKnown THEN UNCHANGED <<part, app>>
       ELSE /\ part' = [part EXCEPT !["APP"] = "raw"]
            /\ App("new", "small", "small")
    /\ appKnown' = TRUE
    /\ UNCHANGED <<files, st, endOld, aligned, sosB, pkg, mnt, appMount,
                   tempMount, state, todo, resets>>

MkfsApp ==
    /\ pc = "mkfsapp" /\ Goto("state6")
    /\ IF appMount THEN UNCHANGED <<part, files, st>> ELSE Mkfs("APP")
    /\ UNCHANGED <<geometry, mounts, state, todo, resets>>

MountApp ==
    /\ pc = "mountapp" /\ part["APP"] = "ext4"
    /\ mnt' = IF appMount THEN mnt ELSE [mnt EXCEPT ![Other(pkg)] = "APP"]
    /\ appMount' = TRUE
    /\ todo' = AllFiles /\ Goto("copy7")
    /\ UNCHANGED <<disk, pkg, tempMount, appKnown, state, resets>>

-----------------------------------------------------------------------------
(* States 7 and 8: work from APP and delete OTA_TEMP.                      *)

SwapToApp ==
    /\ pc = "swap8"
    /\ \/ ~tempMount /\ Goto("zerotemp") /\ UNCHANGED <<disk, mounts, state, todo, resets>>
       \/ tempMount /\ mnt[Other(pkg)] # "none"
          /\ mnt' = [Unmount(Paths) EXCEPT ![pkg] = "APP"]
          /\ Goto("carry7")
          /\ UNCHANGED <<disk, pkg, appMount, tempMount, appKnown, state, todo, resets>>

\* Mutant: OTA_TEMP is left in place.
KeepTemp ==
    pc = "zerotemp" /\ Goto("state8") /\ UNCHANGED <<disk, mounts, state, todo, resets>>

ZeroTemp ==
    /\ pc = "zerotemp"
    /\ IF part["OTA_TEMP"] = "absent"
       THEN Goto("state8") /\ UNCHANGED <<part, files, st>>
       ELSE Goto("rmtemp") /\ Wipe("OTA_TEMP")
    /\ UNCHANGED <<geometry, mounts, state, todo, resets>>

RemoveTemp ==
    /\ pc = "rmtemp" /\ Goto("state8")
    /\ part' = [part EXCEPT !["OTA_TEMP"] = "absent"]
    /\ tempMount' = FALSE
    /\ UNCHANGED <<files, st, geometry, pkg, mnt, appMount, appKnown, state, todo, resets>>

-----------------------------------------------------------------------------
(* States 8 to 10: give APP its old end back, grow the file system, mark.  *)

GrowPart ==
    /\ pc = "growpart" /\ endOld # "none" /\ Goto("state9")
    /\ App(app.start, endOld, app.fs)
    /\ UNCHANGED <<part, files, st, endOld, aligned, sosB, mounts, state, todo, resets>>

GrowFs ==
    /\ pc = "growfs" /\ Goto("state10")
    /\ App(app.start, app.end, app.end)
    /\ UNCHANGED <<part, files, st, endOld, aligned, sosB, mounts, state, todo, resets>>

Mark ==
    /\ pc = "mark" /\ Goto("done")
    /\ aligned' = TRUE
    /\ mnt' = Unmount({pkg})
    /\ UNCHANGED <<part, files, st, endOld, app, sosB, pkg, appMount, tempMount,
                   appKnown, state, todo, resets>>

WriteState ==
    \/ SetState("state1", 1, "shrinkpart")
    \/ SetState("state2", 2, "sosb")
    \/ SetState("state3", 3, "mounttemp")
    \/ SetState("state4", 4, "swap5")
    \/ SetState("carry4", state, "zeroapp")
    \/ SetState("state5", 5, "mkapp")
    \/ SetState("state6", 6, "mountapp")
    \/ SetState("state7", 7, "swap8")
    \/ SetState("carry7", state, "zerotemp")
    \/ SetState("state8", 8, "growpart")
    \/ SetState("state9", 9, "growfs")
    \/ SetState("state10", 10, "mark")

StateWriters == {"state1", "state2", "state3", "state4", "carry4", "state5", "state6",
                 "state7", "carry7", "state8", "state9", "state10"}

\* The partition whose state file a reset at this point may leave empty.
TornAt == {p \in Parts : TornWrites /\ pc \in StateWriters /\ p = Source}

\* The device loses power or is reset; the initrd starts over.
Reset ==
    /\ resets < MaxResets /\ resets' = resets + 1
    /\ Goto("boot") /\ state' = 0 /\ pkg' = "app_mnt" /\ todo' = {}
    /\ mnt' = Unmount(Paths)
    /\ appMount' = FALSE /\ tempMount' = FALSE /\ appKnown' = FALSE
    /\ st' \in {st} \cup {[st EXCEPT ![p] = Torn] : p \in TornAt}
    /\ UNCHANGED <<part, files, geometry>>

Step ==
    \/ AlreadyAligned \/ Choose \/ NothingToChoose \/ WriteState
    \/ ShrinkFs \/ ShrinkPart \/ RemoveSosB \/ MkpartTemp \/ MkfsTemp
    \/ MountTemp \/ CopyFile("copy4", "temp_mnt", "state4")
    \/ SwapToTemp \/ ZeroApp \/ RemoveApp \/ MkpartApp \/ MkfsApp
    \/ MountApp \/ CopyFile("copy7", Other(pkg), "state7")
    \/ SwapToApp \/ ZeroTemp \/ RemoveTemp \/ GrowPart \/ GrowFs \/ Mark

Next == Step \/ Reset

\* The script never waits for anything but its own commands.
Spec == Init /\ [][Next]_vars /\ WF_vars(Step)

-----------------------------------------------------------------------------
(* Properties                                                              *)

\* Every variable has its type.
TypeOK ==
    /\ part \in [Parts -> {"absent", "raw", "ext4"}]
    /\ files \in [Parts -> SUBSET OtaFiles]
    /\ st \in [Parts -> States \cup {NoFile, Torn}]
    /\ endOld \in {"none", "old", "small"}
    /\ app \in [start : {"old", "new"}, end : {"old", "small"}, fs : {"old", "small"}]
    /\ aligned \in BOOLEAN /\ sosB \in BOOLEAN
    /\ pc \in Labels /\ state \in States \cup {Torn}
    /\ pkg \in Paths /\ mnt \in [Paths -> Parts \cup {"none"}]
    /\ appMount \in BOOLEAN /\ tempMount \in BOOLEAN /\ appKnown \in BOOLEAN
    /\ todo \in SUBSET AllFiles /\ resets \in 0..MaxResets

Holds(p) == part[p] = "ext4" /\ files[p] = OtaFiles

\* Wherever the script is, and wherever it is cut, one of the two partitions is
\* mountable and holds every OTA file: zeroing APP and zeroing OTA_TEMP never
\* destroy the last copy.
FilesSurvive == \E p \in Parts : Holds(p)

\* While it works, the partition behind ota_package_mnt is one that holds every
\* OTA file: a resumed run never picks a half-copied or reformatted partition,
\* which is what the comparison of the two state files is for.
SourceComplete ==
    pc \notin {"boot", "done", "failed"} => Source \in Parts /\ Holds(Source)

\* The file system never reaches beyond the end of its partition: it is shrunk
\* before the partition and grown after it, whatever is repeated after a reset.
FsFitsPartition == part["APP"] = "ext4" /\ app.fs = "old" => app.end = "old"

\* A resumed run starts from the latest progress recorded on any mountable
\* partition, never from the older of two state files.
ResumesFromLatest ==
    [][Choose => \A p \in Parts :
         part[p] = "ext4" /\ st[p] \in States => st[p] <= state']_vars

\* When the function returns 0, APP is aligned and has its old end and a file
\* system that fills it, OTA_TEMP is gone and the OTA files are on APP.
DoneIsAligned ==
    pc = "done" => /\ app = [start |-> "new", end |-> "old", fs |-> "old"]
                   /\ Holds("APP") /\ part["OTA_TEMP"] = "absent"

\* The one place where a reset leads to an error return: OTA_TEMP formatted, and
\* the state 3 that says so not yet written.
CutAfterMkfs == st["APP"] = 2 /\ part["OTA_TEMP"] = "ext4"
FailsOnlyAfterMkfs == pc = "failed" => CutAfterMkfs

\* With finitely many resets the alignment ends, unless one of them came between
\* mkfs.ext4 of OTA_TEMP and the writing of state 3.
Aligns == <>[](pc = "done" \/ CutAfterMkfs)

\* What the comment at the head of the state machine says of it: a reboot at any
\* moment is handled, so a resumed run makes no error return.
ResumeSucceeds == pc # "failed"

(* What all this promises, abstractly: see Relocation.                     *)
holders == {p \in Parts : Holds(p)}
Relocated == INSTANCE Relocation WITH Places <- Parts, Home <- "APP",
                 holders <- holders, settled <- (pc = "done")
RelocatesFiles == Relocated!Spec
=============================================================================
