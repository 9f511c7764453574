--------------------------- MODULE OtaAlignAppInv ---------------------------
(***************************************************************************)
(* The inductive invariant behind the safety properties of OtaAlignApp     *)
(* when state files are written atomically: what a reset finds on the disk *)
(* (Disk1 to Disk10, in the order of the work), and where each label of    *)
(* the script is in that progression.  FitInv, at the end, holds with torn *)
(* state files too.                                                        *)
(***************************************************************************)
EXTENDS OtaAlignApp

Ext4(p) == part[p] = "ext4"
Disk1 == Holds("APP") /\ st["APP"] \in {NoFile, 0, 1, 2} /\ ~Ext4("OTA_TEMP")
Disk2 == Holds("APP") /\ st["APP"] = 2 /\ Ext4("OTA_TEMP") /\ st["OTA_TEMP"] = NoFile
Disk3 == /\ Holds("APP") /\ st["APP"] = 3
         /\ Ext4("OTA_TEMP") /\ st["OTA_TEMP"] \in {NoFile, Torn, 3}
Disk4 == Holds("APP") /\ st["APP"] = 4 /\ Holds("OTA_TEMP") /\ st["OTA_TEMP"] \in {3, 4}
Disk5 == ~Ext4("APP") /\ Holds("OTA_TEMP") /\ st["OTA_TEMP"] \in {4, 5}
Disk6 == Ext4("APP") /\ st["APP"] = NoFile /\ Holds("OTA_TEMP") /\ st["OTA_TEMP"] = 5
Disk7 == /\ Ext4("APP") /\ st["APP"] \in {NoFile, Torn, 6}
         /\ Holds("OTA_TEMP") /\ st["OTA_TEMP"] = 6
Disk8 == Holds("APP") /\ st["APP"] \in {6, 7} /\ Holds("OTA_TEMP") /\ st["OTA_TEMP"] = 7
Disk9 == Holds("APP") /\ st["APP"] = 7 /\ ~Ext4("OTA_TEMP")
Disk10 == Holds("APP") /\ st["APP"] \in {8, 9, 10} /\ part["OTA_TEMP"] = "absent"

DiskInv ==
    /\ \/ Disk1 \/ Disk2 \/ Disk3 \/ Disk4 \/ Disk5
       \/ Disk6 \/ Disk7 \/ Disk8 \/ Disk9 \/ Disk10
    /\ aligned => Disk10 /\ st["APP"] = 10

\* The script works from APP, from OTA_TEMP.
OnApp == pkg = "app_mnt" /\ Source = "APP"
OnTemp == pkg \in Paths /\ Source = "OTA_TEMP"
TempShown == tempMount = (mnt["temp_mnt"] = "OTA_TEMP")
AppShown == appMount => mnt[Other(pkg)] = "APP"
Early == OnApp /\ appMount /\ TempShown /\ tempMount = Ext4("OTA_TEMP")
Copied(p, s) == OtaFiles \ todo \subseteq files[p] /\ (StateFile \notin todo => st[p] = s)

EarlyInv ==
    /\ pc \in {"shrinkfs", "state1"} => Early /\ Disk1 /\ st["APP"] = 0
    /\ pc \in {"shrinkpart", "state2"} => Early /\ Disk1 /\ st["APP"] = 1
    /\ pc \in {"mktemp", "mkfstemp"} =>
         Early /\ state = 2 /\ st["APP"] = 2 /\ (Disk1 \/ Disk2)
    /\ pc = "mkfstemp" => part["OTA_TEMP"] # "absent"
    /\ pc = "state3" => OnApp /\ appMount /\ TempShown /\ ~tempMount /\ Disk2
    /\ pc = "mounttemp" => OnApp /\ appMount /\ TempShown /\ Disk3
    /\ pc = "copy4" => Early /\ Disk3 /\ Copied("OTA_TEMP", 3)
    /\ pc = "state4" => Early /\ Disk3 /\ Holds("OTA_TEMP") /\ st["OTA_TEMP"] = 3
    /\ pc = "swap5" => state = 4 /\ \/ Early /\ tempMount /\ Disk4
                                    \/ OnTemp /\ tempMount /\ ~appMount /\ Disk5 /\ st["OTA_TEMP"] = 4
    /\ pc = "carry4" => state = 4 /\ OnTemp /\ Disk4

MiddleInv ==
    /\ pc \in {"swap5", "zeroapp", "mkapp"} /\ ~appMount => appKnown = (part["APP"] # "absent")
    /\ pc = "carry4" => tempMount /\ appMount
    /\ pc = "zeroapp" => /\ OnTemp /\ tempMount /\ st["OTA_TEMP"] = 4
                         /\ IF appMount THEN Disk4 ELSE Disk5
    /\ pc = "rmapp" => OnTemp /\ tempMount /\ Disk5 /\ st["OTA_TEMP"] = 4
    /\ pc = "state5" => /\ OnTemp /\ tempMount /\ Disk5 /\ st["OTA_TEMP"] = 4
                        /\ ~appMount /\ ~appKnown /\ part["APP"] = "absent"
    /\ pc = "mkapp" => /\ OnTemp /\ tempMount /\ AppShown /\ st["OTA_TEMP"] = 5
                       /\ IF appMount THEN Disk6 /\ appKnown ELSE Disk5
    /\ pc = "mkfsapp" => /\ OnTemp /\ tempMount /\ AppShown /\ st["OTA_TEMP"] = 5
                         /\ IF appMount THEN Disk6 ELSE Disk5
    /\ pc = "state6" => OnTemp /\ tempMount /\ AppShown /\ Disk6
    /\ pc = "mountapp" => OnTemp /\ tempMount /\ AppShown /\ Disk7
    /\ pc = "copy7" => /\ OnTemp /\ tempMount /\ appMount /\ AppShown /\ Disk7
                       /\ Copied("APP", 6)

LateInv ==
    /\ pc = "state7" => /\ OnTemp /\ tempMount /\ appMount /\ AppShown /\ Disk7
                        /\ Holds("APP") /\ st["APP"] = 6
    /\ pc = "swap8" => state = 7 /\ \/ OnTemp /\ tempMount /\ appMount /\ AppShown /\ Disk8
                                    \/ OnApp /\ ~tempMount /\ Disk9
    /\ pc = "carry7" => state = 7 /\ Source = "APP" /\ Disk8
    /\ pc = "zerotemp" => Source = "APP" /\ st["APP"] = 7 /\ (Disk8 \/ Disk9)
    /\ pc \in {"rmtemp", "state8"} => Source = "APP" /\ Disk9
    /\ pc = "state8" => part["OTA_TEMP"] = "absent"
    /\ pc \in {"growpart", "state9", "growfs", "state10", "mark"} => Source = "APP" /\ Disk10
    /\ pc \in {"growpart", "state9"} => st["APP"] = 8
    /\ pc \in {"growfs", "state10"} => st["APP"] = 9
    /\ pc = "mark" => st["APP"] = 10
    /\ pc = "done" => Disk10
    /\ pc = "failed" => CutAfterMkfs

\* The start of a run, between choosing the partition and the first block.
StartInv ==
    pc = "sosb" =>
      /\ state = st[Source]
      /\ \/ Early /\ (Disk1 \/ Disk2) /\ state = 2
         \/ Early /\ (Disk3 \/ Disk4)
         \/ OnTemp /\ tempMount /\ ~appMount /\ Disk5 /\ appKnown = (part["APP"] # "absent")
         \/ OnTemp /\ tempMount /\ appMount /\ appKnown /\ AppShown /\ (Disk6 \/ Disk7 \/ Disk8)
         \/ OnApp /\ ~tempMount /\ (Disk9 \/ Disk10)

AlignInv == TypeOK /\ DiskInv /\ StartInv /\ EarlyInv /\ MiddleInv /\ LateInv

(***************************************************************************)
(* What the state files say of the geometry of APP.                        *)
(***************************************************************************)
\* APP is of the shrunk size from state 2 to state 8.
Shrunk == st["APP"] \in 2..7 \/ Ext4("OTA_TEMP") \/ pc = "state2"
\* APP is the partition at the aligned offset.
Moved == \/ st["APP"] \in 6..10 \/ pc = "mkfsapp"
         \/ Ext4("OTA_TEMP") /\ st["OTA_TEMP"] \in 5..7 /\ part["APP"] # "absent"

GeometryInv ==
    /\ endOld \in {"none", "old"}
    /\ app.end = "small" => endOld = "old" /\ app.fs = "small"
    /\ st["APP"] = 1 \/ pc = "state1" => app.fs = "small"
    /\ Shrunk => app.end = "small"
    /\ Moved => app.start = "new"
    /\ st["APP"] \in {9, 10} \/ pc = "state9" => app.end = "old"
    /\ st["APP"] = 10 \/ pc = "state10" => app.fs = "old"
    /\ pc = "done" => st["APP"] = 10

(***************************************************************************)
(* What keeps the file system of APP within its partition even when a      *)
(* reset leaves state files empty, and a run then works from the other     *)
(* partition or gives up.                                                  *)
(***************************************************************************)
FitTypes ==
    /\ part \in [Parts -> {"absent", "raw", "ext4"}] /\ st \in [Parts -> States \cup {NoFile, Torn}]
    /\ endOld \in {"none", "old"} /\ app.end \in {"old", "small"} /\ app.fs \in {"old", "small"}
    /\ pc \in Labels /\ pkg \in Paths /\ mnt \in [Paths -> Parts \cup {"none"}]
    /\ appMount \in BOOLEAN /\ tempMount \in BOOLEAN /\ appKnown \in BOOLEAN

\* While the file system has its old size there is no OTA_TEMP and no state file
\* tells of shrinking; OTA_TEMP is there from state 3 of APP to state 7, and its own
\* state file, if it has one, was there before APP went.
FitDisk ==
    /\ app.end = "small" => endOld = "old" /\ app.fs = "small"
    /\ app.fs = "old" => ~Ext4("OTA_TEMP") /\ st["APP"] \notin 1..8
    /\ endOld = "none" => ~Ext4("OTA_TEMP") /\ st["APP"] \notin 2..8
    /\ IF Ext4("OTA_TEMP")
       THEN /\ st["OTA_TEMP"] \in {NoFile, Torn} \cup 3..7 /\ st["APP"] \notin {5} \cup 8..10
            /\ st["OTA_TEMP"] = NoFile => Ext4("APP")
       ELSE st["APP"] \notin 3..6

\* Only file systems are mounted, and the variables know of them.
FitMounts ==
    /\ \A m \in Paths : mnt[m] # "none" => Ext4(mnt[m])
    /\ Mounted("APP") => appMount
    /\ Mounted("OTA_TEMP") => tempMount
    /\ pc \notin {"boot", "done", "failed"} => Source # "none" /\ (~appKnown => part["APP"] = "absent")

AsChosen ==
    /\ mnt["app_mnt"] = IF Ext4("APP") THEN "APP" ELSE "none"
    /\ mnt["temp_mnt"] = IF Ext4("OTA_TEMP") THEN "OTA_TEMP" ELSE "none"
    /\ appMount = Ext4("APP") /\ tempMount = Ext4("OTA_TEMP")

FitLabels ==
    /\ pc \in {"shrinkfs", "state1", "shrinkpart", "state2", "sosb"} => AsChosen
    /\ pc \in {"shrinkfs", "state1"} => Source = "APP" /\ st["APP"] = 0
    /\ pc \in {"shrinkpart", "state2"} => Source = "APP" /\ st["APP"] = 1
    /\ pc = "sosb" => state = st[Source] /\ state \notin {0, 1}
    /\ pc \in {"mktemp", "mkfstemp", "state3"} => Source = "APP" /\ st["APP"] = 2
    /\ pc \in {"mounttemp", "copy4", "state4"} => st[Source] = 3
    /\ pc \in {"state3", "mounttemp", "copy4", "state4"} => Ext4("OTA_TEMP")
    /\ pc \in {"mktemp", "mkfstemp", "state3", "mounttemp", "copy4", "state4", "swap5"} =>
           appMount = Ext4("APP")
    /\ pc \in {"mktemp", "mkfstemp", "state3", "mounttemp"} => mnt["temp_mnt"] # "APP"
    /\ pc \in {"copy4", "state4"} => tempMount
    /\ pc \in {"swap5", "carry4"} => tempMount /\ Ext4("OTA_TEMP") /\ state = 4
    /\ pc \in {"carry4", "zeroapp", "rmapp", "state5", "mkapp", "mkfsapp", "state6"} =>
           Source = "OTA_TEMP"
    /\ pc \in {"zeroapp", "rmapp", "state5", "mkapp", "mkfsapp"} => st["OTA_TEMP"] # NoFile
    /\ pc \in {"carry4", "zeroapp", "rmapp", "state5"} => ~Mounted("APP")
    /\ pc \in {"mountapp", "copy7", "state7"} => st[Source] = 6
    /\ pc \in {"copy7", "state7"} => Ext4("APP") /\ appMount
    /\ pc = "mkfsapp" => appKnown
    /\ pc \in {"state2", "carry7"} => endOld = "old"
    /\ pc = "swap8" => /\ state = 7 /\ st[Source] = 7
                       /\ tempMount /\ mnt[Other(pkg)] # "none" => Ext4("APP") /\ appMount
    /\ pc = "carry7" => state = 7
    /\ pc \in {"carry7", "zerotemp", "rmtemp", "state8"} => Source = "APP" /\ ~Mounted("OTA_TEMP")
    /\ pc \in {"zerotemp", "rmtemp", "state8"} => st["APP"] = 7
    /\ pc \in {"rmtemp", "state8", "growpart", "state9", "growfs", "state10"} =>
           Source = "APP" /\ ~Ext4("OTA_TEMP")
    /\ pc \in {"growfs", "state10"} => st["APP"] = 9
    /\ pc \notin {"boot", "done", "failed", "shrinkfs", "sosb", "growfs", "state10", "mark"} =>
           app.fs = "small"

FitInv == FitTypes /\ FitDisk /\ FitMounts /\ FitLabels
=============================================================================
