------------------------ MODULE OtaAlignAppProofs ------------------------
EXTENDS OtaAlignAppInv, TLAPS

LEMMA InitInv == Init => AlignInv
<1> SUFFICES ASSUME Init PROVE AlignInv
  OBVIOUS
<1>1. TypeOK
  <2>1. /\ part \in [Parts -> {"absent", "raw", "ext4"}]
        /\ files \in [Parts -> SUBSET OtaFiles]
        /\ st \in [Parts -> States \cup {NoFile, Torn}]
    BY DEF Init, States, NoFile, Torn, Parts
  <2>2. mnt \in [Paths -> Parts \cup {"none"}]
    BY DEF Init
  <2>3. /\ app \in [start : {"old", "new"}, end : {"old", "small"}, fs : {"old", "small"}]
        /\ todo \in SUBSET AllFiles /\ resets \in 0..MaxResets
    BY BoundAssumption DEF Init
  <2>4. /\ pc \in Labels /\ state \in States \cup {Torn} /\ pkg \in Paths
        /\ endOld \in {"none", "old", "small"}
    BY DEF Init, Labels, States, Paths
  <2>5. /\ aligned \in BOOLEAN /\ sosB \in BOOLEAN /\ appMount \in BOOLEAN
        /\ tempMount \in BOOLEAN /\ appKnown \in BOOLEAN
    BY DEF Init
  <2> QED
    BY <2>1, <2>2, <2>3, <2>4, <2>5 DEF TypeOK
<1>2. Disk1 /\ ~aligned
  BY DEF Init, Disk1, Holds, Ext4, Parts
<1>3. StartInv /\ EarlyInv /\ MiddleInv /\ LateInv
  BY DEF Init, StartInv, EarlyInv, MiddleInv, LateInv
<1> QED
  BY <1>1, <1>2, <1>3 DEF AlignInv, DiskInv

LEMMA ChooseType == ASSUME TypeOK, Choose PROVE TypeOK'
<1>1. Chosen \in Parts
  BY DEF Choose, Chosen, Parts
<1> DEFINE s == IF st[Chosen] = NoFile THEN 0 ELSE st[Chosen]
<1>2. s \in States \cup {Torn}
  BY <1>1 DEF TypeOK, States
<1>3. st' = [st EXCEPT ![Chosen] = s] /\ state' = s /\ pc' = Enter(s)
  BY DEF Choose, Goto
<1> HIDE DEF s
<1>4. st' \in [Parts -> States \cup {NoFile, Torn}] /\ state' \in States \cup {Torn}
  BY <1>1, <1>2, <1>3 DEF TypeOK
<1>5. pc' \in Labels
  BY <1>3 DEF Enter, Labels
<1>6. mnt' \in [Paths -> Parts \cup {"none"}]
  BY DEF Choose, Parts
<1>7. pkg' \in Paths /\ appMount' \in BOOLEAN /\ tempMount' \in BOOLEAN /\ appKnown' \in BOOLEAN
  BY DEF Choose, Paths
<1> QED
  BY <1>4, <1>5, <1>6, <1>7 DEF TypeOK, Choose, geometry

LEMMA StepType == ASSUME AlignInv, [Next]_vars PROVE TypeOK'
<1> USE FilesAssumption, BoundAssumption DEF AlignInv, TypeOK, Goto, disk, geometry,
      mounts, Parts, Paths, States, Labels, NoFile, Torn, AllFiles
<1>1. CASE AlreadyAligned
  BY <1>1 DEF AlreadyAligned
<1>2. CASE Choose
  BY <1>2, ChooseType
<1>3. CASE NothingToChoose
  BY <1>3 DEF NothingToChoose, Chosen, HasState, Return1
<1>4. CASE WriteState
  BY <1>4 DEF WriteState, SetState, Source
<1>5. CASE ShrinkFs
  BY <1>5 DEF ShrinkFs, App
<1>6. CASE ShrinkPart
  BY <1>6 DEF ShrinkPart, App
<1>7. CASE RemoveSosB
  <2>1. part' \in [Parts -> {"absent", "raw", "ext4"}]
    BY <1>7 DEF RemoveSosB, AfterSosB
  <2>2. files' \in [Parts -> SUBSET OtaFiles]
    BY <1>7 DEF RemoveSosB, AfterSosB
  <2>3. st' \in [Parts -> States \cup {NoFile, Torn}]
    BY <1>7 DEF RemoveSosB, AfterSosB
  <2>4. /\ endOld' \in {"none", "old", "small"} /\ aligned' \in BOOLEAN /\ sosB' \in BOOLEAN
       /\ app' \in [start : {"old", "new"}, end : {"old", "small"}, fs : {"old", "small"}]
    BY <1>7 DEF RemoveSosB, AfterSosB
  <2>5. pc' \in Labels /\ state' \in States \cup {Torn}
    BY <1>7 DEF RemoveSosB, AfterSosB
  <2>6. mnt' \in [Paths -> Parts \cup {"none"}]
    BY <1>7 DEF RemoveSosB, AfterSosB
  <2>7. /\ pkg' \in Paths /\ appMount' \in BOOLEAN /\ tempMount' \in BOOLEAN /\ appKnown' \in BOOLEAN
    BY <1>7 DEF RemoveSosB, AfterSosB
  <2>8. todo' \in SUBSET AllFiles /\ resets' \in 0..MaxResets
    BY <1>7 DEF RemoveSosB, AfterSosB
  <2> QED
    BY <2>1, <2>2, <2>3, <2>4, <2>5, <2>6, <2>7, <2>8
<1>8. CASE MkpartTemp
  BY <1>8 DEF MkpartTemp
<1>9. CASE MkfsTemp
  BY <1>9 DEF MkfsTemp, Mkfs, Mounted, Return1
<1>10. CASE MountTemp
  BY <1>10 DEF MountTemp
<1>11. CASE CopyFile("copy4", "temp_mnt", "state4")
  <2>1. part' \in [Parts -> {"absent", "raw", "ext4"}]
    BY <1>11 DEF CopyFile, Other
  <2>2. files' \in [Parts -> SUBSET OtaFiles]
    BY <1>11 DEF CopyFile, Other
  <2>3. st' \in [Parts -> States \cup {NoFile, Torn}]
    <3>1. Source \in Parts
      BY <1>11 DEF EarlyInv, MiddleInv, CopyFile, Early, OnApp, OnTemp
    <3> QED
      BY <3>1, <1>11 DEF CopyFile
  <2>4. /\ endOld' \in {"none", "old", "small"} /\ aligned' \in BOOLEAN /\ sosB' \in BOOLEAN
       /\ app' \in [start : {"old", "new"}, end : {"old", "small"}, fs : {"old", "small"}]
    BY <1>11 DEF CopyFile, Other
  <2>5. pc' \in Labels /\ state' \in States \cup {Torn}
    BY <1>11 DEF CopyFile, Other
  <2>6. mnt' \in [Paths -> Parts \cup {"none"}]
    BY <1>11 DEF CopyFile, Other
  <2>7. /\ pkg' \in Paths /\ appMount' \in BOOLEAN /\ tempMount' \in BOOLEAN /\ appKnown' \in BOOLEAN
    BY <1>11 DEF CopyFile, Other
  <2>8. todo' \in SUBSET AllFiles /\ resets' \in 0..MaxResets
    BY <1>11 DEF CopyFile, Other
  <2> QED
    BY <2>1, <2>2, <2>3, <2>4, <2>5, <2>6, <2>7, <2>8
<1>12. CASE CopyFile("copy7", Other(pkg), "state7")
  <2>1. part' \in [Parts -> {"absent", "raw", "ext4"}]
    BY <1>12 DEF CopyFile, Other
  <2>2. files' \in [Parts -> SUBSET OtaFiles]
    BY <1>12 DEF CopyFile, Other
  <2>3. st' \in [Parts -> States \cup {NoFile, Torn}]
    <3>1. Source \in Parts
      BY <1>12 DEF EarlyInv, MiddleInv, CopyFile, Early, OnApp, OnTemp
    <3> QED
      BY <3>1, <1>12 DEF CopyFile
  <2>4. /\ endOld' \in {"none", "old", "small"} /\ aligned' \in BOOLEAN /\ sosB' \in BOOLEAN
       /\ app' \in [start : {"old", "new"}, end : {"old", "small"}, fs : {"old", "small"}]
    BY <1>12 DEF CopyFile, Other
  <2>5. pc' \in Labels /\ state' \in States \cup {Torn}
    BY <1>12 DEF CopyFile, Other
  <2>6. mnt' \in [Paths -> Parts \cup {"none"}]
    BY <1>12 DEF CopyFile, Other
  <2>7. /\ pkg' \in Paths /\ appMount' \in BOOLEAN /\ tempMount' \in BOOLEAN /\ appKnown' \in BOOLEAN
    BY <1>12 DEF CopyFile, Other
  <2>8. todo' \in SUBSET AllFiles /\ resets' \in 0..MaxResets
    BY <1>12 DEF CopyFile, Other
  <2> QED
    BY <2>1, <2>2, <2>3, <2>4, <2>5, <2>6, <2>7, <2>8
<1>13. CASE SwapToTemp
  <2>1. part' \in [Parts -> {"absent", "raw", "ext4"}]
    BY <1>13 DEF SwapToTemp, Return1, Unmount
  <2>2. files' \in [Parts -> SUBSET OtaFiles]
    BY <1>13 DEF SwapToTemp, Return1, Unmount
  <2>3. st' \in [Parts -> States \cup {NoFile, Torn}]
    BY <1>13 DEF SwapToTemp, Return1, Unmount
  <2>4. /\ endOld' \in {"none", "old", "small"} /\ aligned' \in BOOLEAN /\ sosB' \in BOOLEAN
       /\ app' \in [start : {"old", "new"}, end : {"old", "small"}, fs : {"old", "small"}]
    BY <1>13 DEF SwapToTemp, Return1, Unmount
  <2>5. pc' \in Labels /\ state' \in States \cup {Torn}
    BY <1>13 DEF SwapToTemp, Return1, Unmount
  <2>6. mnt' \in [Paths -> Parts \cup {"none"}]
    BY <1>13 DEF SwapToTemp, Return1, Unmount
  <2>7. /\ pkg' \in Paths /\ appMount' \in BOOLEAN /\ tempMount' \in BOOLEAN /\ appKnown' \in BOOLEAN
    BY <1>13 DEF SwapToTemp, Return1, Unmount
  <2>8. todo' \in SUBSET AllFiles /\ resets' \in 0..MaxResets
    BY <1>13 DEF SwapToTemp, Return1, Unmount
  <2> QED
    BY <2>1, <2>2, <2>3, <2>4, <2>5, <2>6, <2>7, <2>8
<1>14. CASE ZeroApp
  BY <1>14 DEF ZeroApp, Wipe
<1>15. CASE RemoveApp
  BY <1>15, ZenonT(60) DEF RemoveApp
<1>16. CASE MkpartApp
  BY <1>16 DEF MkpartApp, App
<1>17. CASE MkfsApp
  BY <1>17 DEF MkfsApp, Mkfs
<1>18. CASE MountApp
  <2>1. part' \in [Parts -> {"absent", "raw", "ext4"}]
    BY <1>18 DEF MountApp
  <2>2. files' \in [Parts -> SUBSET OtaFiles]
    BY <1>18 DEF MountApp
  <2>3. st' \in [Parts -> States \cup {NoFile, Torn}]
    BY <1>18 DEF MountApp
  <2>4. /\ endOld' \in {"none", "old", "small"} /\ aligned' \in BOOLEAN /\ sosB' \in BOOLEAN
       /\ app' \in [start : {"old", "new"}, end : {"old", "small"}, fs : {"old", "small"}]
    BY <1>18 DEF MountApp
  <2>5. pc' \in Labels /\ state' \in States \cup {Torn}
    BY <1>18 DEF MountApp
  <2>6. mnt' \in [Paths -> Parts \cup {"none"}]
    BY <1>18 DEF MountApp
  <2>7. /\ pkg' \in Paths /\ appMount' \in BOOLEAN /\ tempMount' \in BOOLEAN /\ appKnown' \in BOOLEAN
    BY <1>18 DEF MountApp
  <2>8. todo' \in SUBSET AllFiles /\ resets' \in 0..MaxResets
    BY <1>18 DEF MountApp
  <2> QED
    BY <2>1, <2>2, <2>3, <2>4, <2>5, <2>6, <2>7, <2>8
<1>19. CASE SwapToApp
  <2>1. part' \in [Parts -> {"absent", "raw", "ext4"}]
    BY <1>19 DEF SwapToApp, Unmount
  <2>2. files' \in [Parts -> SUBSET OtaFiles]
    BY <1>19 DEF SwapToApp, Unmount
  <2>3. st' \in [Parts -> States \cup {NoFile, Torn}]
    BY <1>19 DEF SwapToApp, Unmount
  <2>4. /\ endOld' \in {"none", "old", "small"} /\ aligned' \in BOOLEAN /\ sosB' \in BOOLEAN
       /\ app' \in [start : {"old", "new"}, end : {"old", "small"}, fs : {"old", "small"}]
    BY <1>19 DEF SwapToApp, Unmount
  <2>5. pc' \in Labels /\ state' \in States \cup {Torn}
    BY <1>19 DEF SwapToApp, Unmount
  <2>6. mnt' \in [Paths -> Parts \cup {"none"}]
    BY <1>19 DEF SwapToApp, Unmount
  <2>7. /\ pkg' \in Paths /\ appMount' \in BOOLEAN /\ tempMount' \in BOOLEAN /\ appKnown' \in BOOLEAN
    BY <1>19 DEF SwapToApp, Unmount
  <2>8. todo' \in SUBSET AllFiles /\ resets' \in 0..MaxResets
    BY <1>19 DEF SwapToApp, Unmount
  <2> QED
    BY <2>1, <2>2, <2>3, <2>4, <2>5, <2>6, <2>7, <2>8
<1>20. CASE ZeroTemp
  BY <1>20 DEF ZeroTemp, Wipe
<1>21. CASE RemoveTemp
  <2>1. part' \in [Parts -> {"absent", "raw", "ext4"}]
    BY <1>21 DEF RemoveTemp
  <2>2. files' \in [Parts -> SUBSET OtaFiles]
    BY <1>21 DEF RemoveTemp
  <2>3. st' \in [Parts -> States \cup {NoFile, Torn}]
    BY <1>21 DEF RemoveTemp
  <2>4. /\ endOld' \in {"none", "old", "small"} /\ aligned' \in BOOLEAN /\ sosB' \in BOOLEAN
       /\ app' \in [start : {"old", "new"}, end : {"old", "small"}, fs : {"old", "small"}]
    BY <1>21 DEF RemoveTemp
  <2>5. pc' \in Labels /\ state' \in States \cup {Torn}
    BY <1>21 DEF RemoveTemp
  <2>6. mnt' \in [Paths -> Parts \cup {"none"}]
    BY <1>21 DEF RemoveTemp
  <2>7. /\ pkg' \in Paths /\ appMount' \in BOOLEAN /\ tempMount' \in BOOLEAN /\ appKnown' \in BOOLEAN
    BY <1>21 DEF RemoveTemp
  <2>8. todo' \in SUBSET AllFiles /\ resets' \in 0..MaxResets
    BY <1>21 DEF RemoveTemp
  <2> QED
    BY <2>1, <2>2, <2>3, <2>4, <2>5, <2>6, <2>7, <2>8
<1>22. CASE GrowPart
  BY <1>22 DEF GrowPart, App
<1>23. CASE GrowFs
  BY <1>23 DEF GrowFs, App
<1>24. CASE Mark
  BY <1>24 DEF Mark, Unmount
<1>25. CASE Reset
  <2>1. part' \in [Parts -> {"absent", "raw", "ext4"}]
    BY <1>25 DEF Reset, TornAt, Unmount, StateWriters
  <2>2. files' \in [Parts -> SUBSET OtaFiles]
    BY <1>25 DEF Reset, TornAt, Unmount, StateWriters
  <2>3. st' \in [Parts -> States \cup {NoFile, Torn}]
    BY <1>25 DEF Reset, TornAt, Unmount, StateWriters
  <2>4. /\ endOld' \in {"none", "old", "small"} /\ aligned' \in BOOLEAN /\ sosB' \in BOOLEAN
       /\ app' \in [start : {"old", "new"}, end : {"old", "small"}, fs : {"old", "small"}]
    BY <1>25 DEF Reset, TornAt, Unmount, StateWriters
  <2>5. pc' \in Labels /\ state' \in States \cup {Torn}
    BY <1>25 DEF Reset, TornAt, Unmount, StateWriters
  <2>6. mnt' \in [Paths -> Parts \cup {"none"}]
    BY <1>25 DEF Reset, TornAt, Unmount, StateWriters
  <2>7. /\ pkg' \in Paths /\ appMount' \in BOOLEAN /\ tempMount' \in BOOLEAN /\ appKnown' \in BOOLEAN
    BY <1>25 DEF Reset, TornAt, Unmount, StateWriters
  <2>8. todo' \in SUBSET AllFiles /\ resets' \in 0..MaxResets
    BY <1>25 DEF Reset, TornAt, Unmount, StateWriters
  <2> QED
    BY <2>1, <2>2, <2>3, <2>4, <2>5, <2>6, <2>7, <2>8
<1>26. CASE UNCHANGED vars
  BY <1>26 DEF vars
<1> QED
  BY <1>1, <1>2, <1>3, <1>4, <1>5, <1>6, <1>7, <1>8, <1>9, <1>10, <1>11,
    <1>12, <1>13, <1>14, <1>15, <1>16, <1>17, <1>18, <1>19, <1>20, <1>21,
    <1>22, <1>23, <1>24, <1>25, <1>26 DEF Next, Step

\* Nothing is chosen only on the disk that a reset between mkfs and state 3 leaves.
LEMMA NothingRest == ASSUME AlignInv, NothingToChoose
                   PROVE DiskInv' /\ StartInv' /\ EarlyInv' /\ MiddleInv' /\ LateInv'
<1>1. UNCHANGED <<part, files, st, aligned>> /\ pc' = "failed"
  BY DEF NothingToChoose, Return1, Goto, disk, geometry
<1>2. DiskInv'
  BY <1>1 DEF AlignInv, DiskInv, Disk1, Disk2, Disk3, Disk4, Disk5, Disk6, Disk7, Disk8, Disk9,
     Disk10, Holds, Ext4
<1>3. CutAfterMkfs
  <2>1. part["APP"] = "ext4" \/ part["OTA_TEMP"] = "ext4"
    BY DEF AlignInv, DiskInv, Disk1, Disk2, Disk3, Disk4, Disk5, Disk6, Disk7, Disk8, Disk9,
       Disk10, Holds, Ext4
  <2>2. /\ part["APP"] = "ext4" /\ part["OTA_TEMP"] = "ext4"
        /\ \/ ~HasState("APP") /\ ~HasState("OTA_TEMP")
           \/ HasState("APP") /\ HasState("OTA_TEMP") /\ st["APP"] \notin {3, 4, 6, 7}
    BY <2>1 DEF NothingToChoose, Chosen
  <2> QED
    BY <2>2 DEF AlignInv, DiskInv, Disk1, Disk2, Disk3, Disk4, Disk5, Disk6, Disk7, Disk8, Disk9,
       Disk10, Ext4, HasState, States, NoFile, Torn, CutAfterMkfs
<1>4. StartInv' /\ EarlyInv' /\ MiddleInv' /\ LateInv'
  BY <1>1, <1>3 DEF StartInv, EarlyInv, MiddleInv, LateInv, CutAfterMkfs
<1> QED
  BY <1>2, <1>4

LEMMA ChooseRest == ASSUME AlignInv, Choose
                  PROVE DiskInv' /\ StartInv' /\ EarlyInv' /\ MiddleInv' /\ LateInv'
<1>1. UNCHANGED <<part, files, aligned>> /\ TypeOK
  BY DEF Choose, AlignInv, geometry
<1>2. pc' \in {"shrinkfs", "shrinkpart", "sosb"} => MiddleInv' /\ LateInv'
  BY DEF MiddleInv, LateInv
<1>3. CASE Disk1
  <2>1. Chosen = "APP"
    BY <1>3, <1>1 DEF Disk1, Chosen, HasState, Holds, Ext4, States, NoFile, Torn
  <2>2. /\ st' = [st EXCEPT !["APP"] = state'] /\ pc' = Enter(state')
        /\ state' \in {0, 1, 2}
    BY <1>3, <2>1 DEF Disk1, Choose, Goto, NoFile
  <2>3. Early'
    BY <1>3, <2>1, <1>1 DEF Disk1, Choose, Early, OnApp, OnTemp, TempShown,
       AppShown, Source, Other, Holds, Ext4, Paths
  <2>4. Disk1'
    BY <1>3, <1>1, <2>2 DEF Disk1, Holds, Ext4, TypeOK, Parts
  <2>5. DiskInv'
    BY <1>3, <1>1, <2>4 DEF AlignInv, DiskInv, Disk1, Disk10, NoFile, Torn, Ext4, Holds
  <2>6. StartInv' /\ EarlyInv'
    BY <1>1, <2>2, <2>3, <2>4 DEF StartInv, EarlyInv, Enter, Early, OnApp, Source, TypeOK, Parts
  <2> QED
    BY <1>2, <2>2, <2>5, <2>6 DEF Enter
<1>4. CASE Disk2
  <2>1. Chosen = "APP"
    BY <1>4, <1>1 DEF Disk2, Chosen, HasState, Holds, Ext4, States, NoFile, Torn
  <2>2. st' = st /\ state' = st["APP"] /\ pc' = "sosb"
    BY <1>4, <1>1, <2>1 DEF Disk2, Choose, Goto, Enter, TypeOK, Parts, NoFile
  <2>3. Early'
    BY <1>4, <2>1, <1>1 DEF Disk2, Choose, Early, OnApp, OnTemp, TempShown,
       AppShown, Source, Other, Holds, Ext4, Paths
  <2>4. Disk2'
    BY <1>4, <1>1, <2>2 DEF Disk2, Holds, Ext4, TypeOK, Parts
  <2>5. DiskInv'
    BY <1>4, <1>1, <2>4 DEF AlignInv, DiskInv, Disk2, Disk10, NoFile, Torn, Ext4, Holds
  <2>6. StartInv' /\ EarlyInv'
    BY <1>4, <2>2, <2>3, <2>4 DEF StartInv, EarlyInv, Disk2, Early, OnApp, OnTemp, Source
  <2> QED
    BY <1>2, <2>2, <2>5, <2>6
<1>5. CASE Disk3
  <2>1. Chosen = "APP"
    BY <1>5, <1>1 DEF Disk3, Chosen, HasState, Holds, Ext4, States, NoFile, Torn
  <2>2. st' = st /\ state' = st["APP"] /\ pc' = "sosb"
    BY <1>5, <1>1, <2>1 DEF Disk3, Choose, Goto, Enter, TypeOK, Parts, NoFile
  <2>3. Early'
    BY <1>5, <2>1, <1>1 DEF Disk3, Choose, Early, OnApp, OnTemp, TempShown,
       AppShown, Source, Other, Holds, Ext4, Paths
  <2>4. Disk3'
    BY <1>5, <1>1, <2>2 DEF Disk3, Holds, Ext4, TypeOK, Parts
  <2>5. DiskInv'
    BY <1>5, <1>1, <2>4 DEF AlignInv, DiskInv, Disk3, Disk10, NoFile, Torn, Ext4, Holds
  <2>6. StartInv' /\ EarlyInv'
    BY <1>5, <2>2, <2>3, <2>4 DEF StartInv, EarlyInv, Disk3, Early, OnApp, OnTemp, Source
  <2> QED
    BY <1>2, <2>2, <2>5, <2>6
<1>6. CASE Disk4
  <2>1. Chosen = "APP"
    BY <1>6, <1>1 DEF Disk4, Chosen, HasState, Holds, Ext4, States, NoFile, Torn
  <2>2. st' = st /\ state' = st["APP"] /\ pc' = "sosb"
    BY <1>6, <1>1, <2>1 DEF Disk4, Choose, Goto, Enter, TypeOK, Parts, NoFile
  <2>3. Early'
    BY <1>6, <2>1, <1>1 DEF Disk4, Choose, Early, OnApp, OnTemp, TempShown,
       AppShown, Source, Other, Holds, Ext4, Paths
  <2>4. Disk4'
    BY <1>6, <1>1, <2>2 DEF Disk4, Holds, Ext4, TypeOK, Parts
  <2>5. DiskInv'
    BY <1>6, <1>1, <2>4 DEF AlignInv, DiskInv, Disk4, Disk10, NoFile, Torn, Ext4, Holds
  <2>6. StartInv' /\ EarlyInv'
    BY <1>6, <2>2, <2>3, <2>4 DEF StartInv, EarlyInv, Disk4, Early, OnApp, OnTemp, Source
  <2> QED
    BY <1>2, <2>2, <2>5, <2>6
<1>7. CASE Disk5
  <2>1. Chosen = "OTA_TEMP"
    BY <1>7, <1>1 DEF Disk5, Chosen, HasState, Holds, Ext4, States, NoFile, Torn
  <2>2. st' = st /\ state' = st["OTA_TEMP"] /\ pc' = "sosb"
    BY <1>7, <1>1, <2>1 DEF Disk5, Choose, Goto, Enter, TypeOK, Parts, NoFile
  <2>3. OnTemp' /\ tempMount' /\ ~appMount' /\ appKnown' = (part'["APP"] # "absent")
    BY <1>7, <2>1, <1>1 DEF Disk5, Choose, Early, OnApp, OnTemp, TempShown,
       AppShown, Source, Other, Holds, Ext4, Paths
  <2>4. Disk5'
    BY <1>7, <1>1, <2>2 DEF Disk5, Holds, Ext4, TypeOK, Parts
  <2>5. DiskInv'
    BY <1>7, <1>1, <2>4 DEF AlignInv, DiskInv, Disk5, Disk10, NoFile, Torn, Ext4, Holds
  <2>6. StartInv' /\ EarlyInv'
    BY <1>7, <2>2, <2>3, <2>4 DEF StartInv, EarlyInv, Disk5, Early, OnApp, OnTemp, Source
  <2> QED
    BY <1>2, <2>2, <2>5, <2>6
<1>8. CASE Disk6
  <2>1. Chosen = "OTA_TEMP"
    BY <1>8, <1>1 DEF Disk6, Chosen, HasState, Holds, Ext4, States, NoFile, Torn
  <2>2. st' = st /\ state' = st["OTA_TEMP"] /\ pc' = "sosb"
    BY <1>8, <1>1, <2>1 DEF Disk6, Choose, Goto, Enter, TypeOK, Parts, NoFile
  <2>3. OnTemp' /\ tempMount' /\ appMount' /\ appKnown' /\ AppShown'
    BY <1>8, <2>1, <1>1 DEF Disk6, Choose, Early, OnApp, OnTemp, TempShown,
       AppShown, Source, Other, Holds, Ext4, Paths
  <2>4. Disk6'
    BY <1>8, <1>1, <2>2 DEF Disk6, Holds, Ext4, TypeOK, Parts
  <2>5. DiskInv'
    BY <1>8, <1>1, <2>4 DEF AlignInv, DiskInv, Disk6, Disk10, NoFile, Torn, Ext4, Holds
  <2>6. StartInv' /\ EarlyInv'
    BY <1>8, <2>2, <2>3, <2>4 DEF StartInv, EarlyInv, Disk6, Early, OnApp, OnTemp, Source
  <2> QED
    BY <1>2, <2>2, <2>5, <2>6
<1>9. CASE Disk7
  <2>1. Chosen = "OTA_TEMP"
    BY <1>9, <1>1 DEF Disk7, Chosen, HasState, Holds, Ext4, States, NoFile, Torn
  <2>2. st' = st /\ state' = st["OTA_TEMP"] /\ pc' = "sosb"
    BY <1>9, <1>1, <2>1 DEF Disk7, Choose, Goto, Enter, TypeOK, Parts, NoFile
  <2>3. OnTemp' /\ tempMount' /\ appMount' /\ appKnown' /\ AppShown'
    BY <1>9, <2>1, <1>1 DEF Disk7, Choose, Early, OnApp, OnTemp, TempShown,
       AppShown, Source, Other, Holds, Ext4, Paths
  <2>4. Disk7'
    BY <1>9, <1>1, <2>2 DEF Disk7, Holds, Ext4, TypeOK, Parts
  <2>5. DiskInv'
    BY <1>9, <1>1, <2>4 DEF AlignInv, DiskInv, Disk7, Disk10, NoFile, Torn, Ext4, Holds
  <2>6. StartInv' /\ EarlyInv'
    BY <1>9, <2>2, <2>3, <2>4 DEF StartInv, EarlyInv, Disk7, Early, OnApp, OnTemp, Source
  <2> QED
    BY <1>2, <2>2, <2>5, <2>6
<1>10. CASE Disk8
  <2>1. Chosen = "OTA_TEMP"
    BY <1>10, <1>1 DEF Disk8, Chosen, HasState, Holds, Ext4, States, NoFile, Torn
  <2>2. st' = st /\ state' = st["OTA_TEMP"] /\ pc' = "sosb"
    BY <1>10, <1>1, <2>1 DEF Disk8, Choose, Goto, Enter, TypeOK, Parts, NoFile
  <2>3. OnTemp' /\ tempMount' /\ appMount' /\ appKnown' /\ AppShown'
    BY <1>10, <2>1, <1>1 DEF Disk8, Choose, Early, OnApp, OnTemp, TempShown,
       AppShown, Source, Other, Holds, Ext4, Paths
  <2>4. Disk8'
    BY <1>10, <1>1, <2>2 DEF Disk8, Holds, Ext4, TypeOK, Parts
  <2>5. DiskInv'
    BY <1>10, <1>1, <2>4 DEF AlignInv, DiskInv, Disk8, Disk10, NoFile, Torn, Ext4, Holds
  <2>6. StartInv' /\ EarlyInv'
    BY <1>10, <2>2, <2>3, <2>4 DEF StartInv, EarlyInv, Disk8, Early, OnApp, OnTemp, Source
  <2> QED
    BY <1>2, <2>2, <2>5, <2>6
<1>11. CASE Disk9
  <2>1. Chosen = "APP"
    BY <1>11, <1>1 DEF Disk9, Chosen, HasState, Holds, Ext4, States, NoFile, Torn
  <2>2. st' = st /\ state' = st["APP"] /\ pc' = "sosb"
    BY <1>11, <1>1, <2>1 DEF Disk9, Choose, Goto, Enter, TypeOK, Parts, NoFile
  <2>3. OnApp' /\ ~tempMount'
    BY <1>11, <2>1, <1>1 DEF Disk9, Choose, Early, OnApp, OnTemp, TempShown,
       AppShown, Source, Other, Holds, Ext4, Paths
  <2>4. Disk9'
    BY <1>11, <1>1, <2>2 DEF Disk9, Holds, Ext4, TypeOK, Parts
  <2>5. DiskInv'
    BY <1>11, <1>1, <2>4 DEF AlignInv, DiskInv, Disk9, Disk10, NoFile, Torn, Ext4, Holds
  <2>6. StartInv' /\ EarlyInv'
    BY <1>11, <2>2, <2>3, <2>4 DEF StartInv, EarlyInv, Disk9, Early, OnApp, OnTemp, Source
  <2> QED
    BY <1>2, <2>2, <2>5, <2>6
<1>12. CASE Disk10
  <2>1. Chosen = "APP"
    BY <1>12, <1>1 DEF Disk10, Chosen, HasState, Holds, Ext4, States, NoFile, Torn
  <2>2. st' = st /\ state' = st["APP"] /\ pc' = "sosb"
    BY <1>12, <1>1, <2>1 DEF Disk10, Choose, Goto, Enter, TypeOK, Parts, NoFile
  <2>3. OnApp' /\ ~tempMount'
    BY <1>12, <2>1, <1>1 DEF Disk10, Choose, Early, OnApp, OnTemp, TempShown,
       AppShown, Source, Other, Holds, Ext4, Paths
  <2>4. Disk10'
    BY <1>12, <1>1, <2>2 DEF Disk10, Holds, Ext4, TypeOK, Parts
  <2>5. DiskInv'
    BY <1>1, <2>2, <2>4 DEF AlignInv, DiskInv
  <2>6. StartInv' /\ EarlyInv'
    BY <1>12, <2>2, <2>3, <2>4 DEF StartInv, EarlyInv, Disk10, Early, OnApp, OnTemp, Source
  <2> QED
    BY <1>2, <2>2, <2>5, <2>6
<1> QED
  BY <1>3, <1>4, <1>5, <1>6, <1>7, <1>8, <1>9, <1>10, <1>11, <1>12 DEF AlignInv, DiskInv

LEMMA MkfsTempRest == ASSUME AlignInv, MkfsTemp
                    PROVE DiskInv' /\ StartInv' /\ EarlyInv' /\ MiddleInv' /\ LateInv'
<1>1. /\ Early /\ state = 2 /\ st["APP"] = 2 /\ Holds("APP") /\ ~aligned
      /\ part["OTA_TEMP"] # "absent" /\ (Disk1 \/ Disk2) /\ TypeOK /\ pc = "mkfstemp"
  BY DEF AlignInv, EarlyInv, MkfsTemp, DiskInv, Disk1, Disk2, Disk10
<1>2. CASE Mounted("OTA_TEMP")
  <2>1. Disk2
    BY <1>1, <1>2 DEF Mounted, Early, OnApp, TempShown, Source, Paths, Disk1
  <2>2. UNCHANGED <<part, files, st, aligned>> /\ pc' = "failed"
    BY <1>1, <1>2 DEF MkfsTemp, Return1, Goto, disk, geometry
  <2>3. Disk2' /\ CutAfterMkfs'
    BY <2>1, <2>2 DEF Disk2, CutAfterMkfs, Holds, Ext4
  <2> QED
    BY <1>1, <2>2, <2>3 DEF DiskInv, StartInv, EarlyInv, MiddleInv, LateInv
<1>3. CASE ~Mounted("OTA_TEMP")
  <2>1. /\ part' = [part EXCEPT !["OTA_TEMP"] = "ext4"]
        /\ files' = [files EXCEPT !["OTA_TEMP"] = {}]
        /\ st' = [st EXCEPT !["OTA_TEMP"] = NoFile]
        /\ pc' = "state3" /\ UNCHANGED <<aligned, pkg, mnt, appMount, tempMount>>
    BY <1>3 DEF MkfsTemp, Mkfs, Goto, geometry, mounts
  <2>2. ~tempMount
    BY <1>1, <1>3 DEF Mounted, Early, TempShown, Paths
  <2>3. Disk2'
    BY <1>1, <2>1 DEF Disk2, Holds, Ext4, TypeOK, Parts
  <2>4. EarlyInv'
    BY <1>1, <2>1, <2>2, <2>3 DEF EarlyInv, Early, OnApp, TempShown, Source
  <2> QED
    BY <1>1, <2>1, <2>3, <2>4 DEF DiskInv, StartInv, MiddleInv, LateInv
<1> QED
  BY <1>2, <1>3

LEMMA StepRest == ASSUME ~TornWrites, AlignInv, [Next]_vars
                 PROVE DiskInv' /\ StartInv' /\ EarlyInv' /\ MiddleInv' /\ LateInv'
<1>z. TornWrites = FALSE
  BY BoundAssumption
<1> USE FilesAssumption DEF AlignInv, TypeOK, DiskInv, Disk1, Disk2, Disk3, Disk4, Disk5, Disk6, Disk7, Disk8, Disk9, Disk10, StartInv, EarlyInv, MiddleInv, LateInv, CutAfterMkfs, Goto, disk, geometry, mounts, Holds, Ext4, Parts, Paths, States, NoFile, Torn, AllFiles, OnApp, OnTemp, TempShown, AppShown, Early, Source, Other, Copied
<1>1. CASE AlreadyAligned
  BY <1>z, <1>1, ZenonT(60) DEF AlreadyAligned
<1>2. CASE Choose
  BY <1>2, ChooseRest
<1>3. CASE NothingToChoose
  BY <1>3, NothingRest
<1>4. CASE WriteState
  <2>1. CASE SetState("state1", 1, "shrinkpart")
    BY <2>1 DEF SetState
  <2>2. CASE SetState("state2", 2, "sosb")
    BY <2>2 DEF SetState
  <2>3. CASE SetState("state3", 3, "mounttemp")
    BY <2>3 DEF SetState
  <2>4. CASE SetState("state4", 4, "swap5")
    BY <2>4 DEF SetState
  <2>5. CASE SetState("carry4", state, "zeroapp")
    BY <2>5 DEF SetState
  <2>6. CASE SetState("state5", 5, "mkapp")
    BY <2>6 DEF SetState
  <2>7. CASE SetState("state6", 6, "mountapp")
    BY <2>7 DEF SetState
  <2>8. CASE SetState("state7", 7, "swap8")
    BY <2>8 DEF SetState
  <2>9. CASE SetState("carry7", state, "zerotemp")
    BY <2>9 DEF SetState
  <2>10. CASE SetState("state8", 8, "growpart")
    BY <2>10 DEF SetState
  <2>11. CASE SetState("state9", 9, "growfs")
    BY <2>11 DEF SetState
  <2>12. CASE SetState("state10", 10, "mark")
    BY <2>12 DEF SetState
  <2> QED
    BY <1>4, <2>1, <2>2, <2>3, <2>4, <2>5, <2>6, <2>7, <2>8, <2>9, <2>10, <2>11, <2>12 DEF WriteState
<1>5. CASE ShrinkFs
  BY <1>z, <1>5 DEF ShrinkFs, App
<1>6. CASE ShrinkPart
  BY <1>z, <1>6, ZenonT(60) DEF ShrinkPart, App
<1>7. CASE RemoveSosB
  BY <1>z, <1>7 DEF RemoveSosB, AfterSosB
<1>8. CASE MkpartTemp
  BY <1>z, <1>8 DEF MkpartTemp
<1>9. CASE MkfsTemp
  BY <1>9, MkfsTempRest
<1>10. CASE MountTemp
  BY <1>z, <1>10 DEF MountTemp
<1>11. CASE CopyFile("copy4", "temp_mnt", "state4")
  BY <1>z, <1>11 DEF CopyFile
<1>12. CASE CopyFile("copy7", Other(pkg), "state7")
  BY <1>z, <1>12 DEF CopyFile
<1>13. CASE SwapToTemp
  BY <1>z, <1>13 DEF SwapToTemp, Return1, Unmount
<1>14. CASE ZeroApp
  BY <1>z, <1>14, ZenonT(60) DEF ZeroApp, Wipe
<1>15. CASE RemoveApp
  BY <1>z, <1>15 DEF RemoveApp
<1>16. CASE MkpartApp
  BY <1>z, <1>16, ZenonT(60) DEF MkpartApp, App
<1>17. CASE MkfsApp
  BY <1>z, <1>17, ZenonT(60) DEF MkfsApp, Mkfs
<1>18. CASE MountApp
  BY <1>z, <1>18 DEF MountApp
<1>19. CASE SwapToApp
  BY <1>z, <1>19 DEF SwapToApp, Unmount
<1>20. CASE ZeroTemp
  BY <1>z, <1>20, ZenonT(60) DEF ZeroTemp, Wipe
<1>21. CASE RemoveTemp
  BY <1>z, <1>21 DEF RemoveTemp
<1>22. CASE GrowPart
  BY <1>z, <1>22 DEF GrowPart, App
<1>23. CASE GrowFs
  BY <1>z, <1>23 DEF GrowFs, App
<1>24. CASE Mark
  BY <1>z, <1>24 DEF Mark, Unmount
<1>25. CASE Reset
  BY <1>z, <1>25, ZenonT(60) DEF Reset, TornAt, Unmount, StateWriters
<1>26. CASE UNCHANGED vars
  BY <1>26 DEF vars
<1> QED
  BY <1>1, <1>2, <1>3, <1>4, <1>5, <1>6, <1>7, <1>8, <1>9, <1>10, <1>11,
    <1>12, <1>13, <1>14, <1>15, <1>16, <1>17, <1>18, <1>19, <1>20, <1>21,
    <1>22, <1>23, <1>24, <1>25, <1>26, ZenonT(60) DEF Next, Step

LEMMA StepInv == ASSUME ~TornWrites, AlignInv, [Next]_vars PROVE AlignInv'
  BY StepType, StepRest DEF AlignInv

\* In every reachable state the disk is in one of the ten situations of
\* DiskInv and the script is where that situation allows it to be, for any set
\* of OTA files and any number of resets.
THEOREM AlignInvariant == ASSUME ~TornWrites PROVE Spec => []AlignInv
<1>1. AlignInv /\ [Next]_vars => AlignInv'
  BY StepInv
<1> QED
  BY InitInv, <1>1, PTL DEF Spec

\* The OTA files survive a reset at any point of ota_align_app_part().
THEOREM FilesAlwaysSurvive == ASSUME ~TornWrites PROVE Spec => []FilesSurvive
<1>1. AlignInv => FilesSurvive
  BY DEF AlignInv, DiskInv, Disk1, Disk2, Disk3, Disk4, Disk5, Disk6, Disk7,
     Disk8, Disk9, Disk10, FilesSurvive, Parts
<1> QED
  BY AlignInvariant, <1>1, PTL

\* A run always works from a partition with every OTA file, whichever of the
\* two state files the reset left behind.
THEOREM SourceAlwaysComplete == ASSUME ~TornWrites PROVE Spec => []SourceComplete
<1>1. AlignInv => SourceComplete
  BY DEF AlignInv, TypeOK, Labels, StartInv, EarlyInv, MiddleInv, LateInv, Early,
     OnApp, OnTemp, Disk1, Disk2, Disk3, Disk4, Disk5, Disk6, Disk7, Disk8, Disk9,
     Disk10, SourceComplete, Parts
<1> QED
  BY AlignInvariant, <1>1, PTL

\* Only the reset between mkfs.ext4 of OTA_TEMP and state 3 makes a resumed run
\* return an error.
THEOREM FailureIsTheMkfsOne == ASSUME ~TornWrites PROVE Spec => []FailsOnlyAfterMkfs
<1>1. AlignInv => FailsOnlyAfterMkfs
  BY DEF AlignInv, LateInv, FailsOnlyAfterMkfs
<1> QED
  BY AlignInvariant, <1>1, PTL

\* A resumed run starts from the latest state recorded on a mountable partition.
THEOREM LatestIsResumed == ASSUME ~TornWrites PROVE Spec => ResumesFromLatest
<1> DEFINE Latest == \A p \in Parts : part[p] = "ext4" /\ st[p] \in States => st[p] <= state'
<1>1. ASSUME AlignInv, Choose PROVE Latest
  <2>1. CASE Chosen = "APP"
    <3>1. state' = IF st["APP"] = NoFile THEN 0 ELSE st["APP"]
      BY <1>1, <2>1 DEF Choose
    <3> QED
      BY <1>1, <2>1, <3>1 DEF AlignInv, DiskInv, Disk1, Disk2, Disk3, Disk4, Disk5,
         Disk6, Disk7, Disk8, Disk9, Disk10, Holds, Ext4, Chosen, HasState, Parts,
         States, NoFile, Torn
  <2>2. CASE Chosen # "APP"
    <3>1. Chosen = "OTA_TEMP"
      BY <1>1, <2>2 DEF Choose, Chosen
    <3>2. state' = IF st["OTA_TEMP"] = NoFile THEN 0 ELSE st["OTA_TEMP"]
      BY <1>1, <3>1 DEF Choose
    <3> QED
      BY <1>1, <3>1, <3>2 DEF AlignInv, DiskInv, Disk1, Disk2, Disk3, Disk4, Disk5,
         Disk6, Disk7, Disk8, Disk9, Disk10, Holds, Ext4, Chosen, HasState, Parts,
         States, NoFile, Torn
  <2> QED
    BY <2>1, <2>2
<1>2. AlignInv /\ [Next]_vars => [Choose => Latest]_vars
  BY <1>1
<1> QED
  BY AlignInvariant, <1>2, PTL DEF Spec, ResumesFromLatest

\* What a step does to the set of complete copies: nothing, or a change at one
\* partition while the other keeps its copy.
LEMMA OneCopyAtATime ==
    ASSUME NEW p \in Parts, NEW q \in Parts, p # q, Holds(p), Holds(p)',
           (pc = "done") = (pc' = "done")
    PROVE  [Relocated!Next]_(Relocated!vars)
<1>1. holders = IF Holds(q) THEN {p, q} ELSE {p}
  BY DEF holders, Parts
<1>2. holders' = IF Holds(q)' THEN {p, q} ELSE {p}
  BY DEF holders, Parts
<1>3. CASE Holds(q) = Holds(q)'
  BY <1>1, <1>2, <1>3 DEF Relocated!vars
<1>4. CASE Holds(q) /\ ~Holds(q)'
  <2>1. q \in holders /\ holders # {q} /\ holders' = holders \ {q}
    BY <1>1, <1>2, <1>4
  <2> QED
    BY <2>1 DEF Relocated!Next, Relocated!Lose
<1>5. CASE ~Holds(q) /\ Holds(q)'
  <2>1. q \in Parts \ holders /\ holders' = holders \cup {q}
    BY <1>1, <1>2, <1>5
  <2> QED
    BY <2>1 DEF Relocated!Next, Relocated!Gain
<1> QED
  BY <1>3, <1>4, <1>5 DEF Holds

\* Each step of the script is a step of Relocation or changes nothing there.
LEMMA StepRelocates ==
    ASSUME ~TornWrites, AlignInv, [Next]_vars, AlignInv' PROVE [Relocated!Next]_(Relocated!vars)
<1>1. ASSUME UNCHANGED <<part, files>>, pc' # "done" PROVE [Relocated!Next]_(Relocated!vars)
  <2>1. holders' = holders
    BY <1>1 DEF holders, Holds
  <2> QED
    BY <1>1, <2>1 DEF Relocated!vars, Relocated!Next, Relocated!Reopen
<1>2. ASSUME UNCHANGED <<part, files>>, pc' = "done" PROVE [Relocated!Next]_(Relocated!vars)
  <2>1. holders' = holders
    BY <1>2 DEF holders, Holds
  <2>2. holders' = {"APP"}
    BY <1>2 DEF AlignInv, LateInv, Disk10, holders, Holds, Parts
  <2> QED
    BY <1>2, <2>1, <2>2 DEF Relocated!Next, Relocated!Settle
<1>3. CASE UNCHANGED <<part, files>>
  BY <1>1, <1>2, <1>3
<1>4. CASE MkpartTemp
  <2>1. Holds("APP") /\ Holds("APP")' /\ pc # "done" /\ pc' # "done"
    BY <1>4 DEF MkpartTemp, AlignInv, TypeOK, EarlyInv, Disk1, Disk2, Holds, Goto, Parts
  <2> QED
    BY <2>1, OneCopyAtATime DEF Parts
<1>5. CASE MkfsTemp
  <2>1. Holds("APP") /\ Holds("APP")' /\ pc # "done" /\ pc' # "done"
    BY <1>5 DEF MkfsTemp, Mkfs, Return1, disk, AlignInv, TypeOK, EarlyInv, Disk1, Disk2, Holds,
       Goto, Parts
  <2> QED
    BY <2>1, OneCopyAtATime DEF Parts
<1>6. CASE CopyFile("copy4", "temp_mnt", "state4")
  <2>1. Holds("APP") /\ mnt["temp_mnt"] = "OTA_TEMP" /\ pc # "done"
    BY <1>6 DEF CopyFile, AlignInv, EarlyInv, Disk3, Early, TempShown, Holds, Ext4
  <2>2. Holds("APP")' /\ pc' # "done"
    BY <1>6, <2>1 DEF CopyFile, AlignInv, TypeOK, Holds, Goto, Parts
  <2> QED
    BY <2>1, <2>2, OneCopyAtATime DEF Parts
<1>7. CASE CopyFile("copy7", Other(pkg), "state7")
  <2>1. Holds("OTA_TEMP") /\ mnt[Other(pkg)] = "APP" /\ pc # "done"
    BY <1>7 DEF CopyFile, AlignInv, MiddleInv, Disk7, AppShown
  <2>2. Holds("OTA_TEMP")' /\ pc' # "done"
    BY <1>7, <2>1 DEF CopyFile, AlignInv, TypeOK, Holds, Goto, Parts
  <2> QED
    BY <2>1, <2>2, OneCopyAtATime DEF Parts
<1>8. CASE ZeroApp \/ RemoveApp \/ MkpartApp \/ MkfsApp
  <2>1. Holds("OTA_TEMP") /\ pc # "done" /\ pc' # "done"
    BY <1>8 DEF ZeroApp, RemoveApp, MkpartApp, MkfsApp, AlignInv, MiddleInv, Disk4, Disk5,
       Disk6, Goto
  <2>2. Holds("OTA_TEMP")'
    BY <1>8, <2>1 DEF ZeroApp, RemoveApp, MkpartApp, MkfsApp, Wipe, Mkfs, AlignInv, TypeOK,
       Holds, Parts
  <2> QED
    BY <2>1, <2>2, OneCopyAtATime DEF Parts
<1>9. CASE ZeroTemp \/ RemoveTemp
  <2>1. Holds("APP") /\ pc # "done" /\ pc' # "done"
    BY <1>9 DEF ZeroTemp, RemoveTemp, AlignInv, LateInv, Disk8, Disk9, Goto
  <2>2. Holds("APP")'
    BY <1>9, <2>1 DEF ZeroTemp, RemoveTemp, Wipe, AlignInv, TypeOK, Holds, Parts
  <2> QED
    BY <2>1, <2>2, OneCopyAtATime DEF Parts
<1>10. CASE \/ AlreadyAligned \/ Choose \/ NothingToChoose \/ WriteState \/ ShrinkFs
            \/ ShrinkPart \/ RemoveSosB \/ MountTemp \/ SwapToTemp \/ MountApp \/ SwapToApp
            \/ GrowPart \/ GrowFs \/ Mark \/ Reset \/ UNCHANGED vars
  <2>1. UNCHANGED <<part, files>>
    BY <1>10 DEF AlreadyAligned, Choose, NothingToChoose, WriteState, SetState, ShrinkFs,
       ShrinkPart, RemoveSosB, MountTemp, SwapToTemp, MountApp, SwapToApp, GrowPart, GrowFs,
       Mark, Reset, TornAt, Return1, disk, vars
  <2> QED
    BY <1>3, <2>1
<1> QED
  BY <1>4, <1>5, <1>6, <1>7, <1>8, <1>9, <1>10 DEF Next, Step

\* ota_align_app_part() implements Relocation: a complete copy is made before
\* another is given up, and success is reported when APP has the only one.
THEOREM AlignmentRelocates == ASSUME ~TornWrites PROVE Spec => RelocatesFiles
<1>1. Init => Relocated!Init
  <2> SUFFICES ASSUME Init PROVE holders = {"APP"} /\ pc # "done"
    BY DEF Relocated!Init
  <2> QED
    BY DEF Init, holders, Holds, Parts
<1>2. AlignInv /\ AlignInv' /\ [Next]_vars => [Relocated!Next]_(Relocated!vars)
  BY StepRelocates
<1> QED
  BY AlignInvariant, <1>1, <1>2, PTL DEF Spec, RelocatesFiles, Relocated!Spec

-----------------------------------------------------------------------------
(* The geometry of APP.                                                    *)

\* Each step keeps GeometryInv where AlignInv holds before and after it.
LEMMA StepGeometry ==
    ASSUME ~TornWrites, AlignInv, AlignInv', GeometryInv, [Next]_vars PROVE GeometryInv'
<1>z. TornWrites = FALSE
  BY BoundAssumption
<1>x. ASSUME Choose PROVE \A p \in Parts : st'[p] = st[p] \/ (st[p] = NoFile /\ st'[p] = 0)
  <2>1. st' = [st EXCEPT ![Chosen] = IF st[Chosen] = NoFile THEN 0 ELSE st[Chosen]]
    BY <1>x DEF Choose
  <2>2. st \in [Parts -> States \cup {NoFile, Torn}]
    BY DEF AlignInv, TypeOK
  <2>3. \A p \in Parts : p = Chosen => st'[p] = IF st[p] = NoFile THEN 0 ELSE st[p]
    BY <2>1, <2>2
  <2>4. \A p \in Parts : p # Chosen => st'[p] = st[p]
    BY <2>1, <2>2
  <2> QED
    BY <2>3, <2>4
<1>y. ASSUME MkfsTemp PROVE UNCHANGED <<part, st>> \/ st' = [st EXCEPT !["OTA_TEMP"] = NoFile]
  BY <1>y DEF MkfsTemp, Mkfs, Return1, disk
<1> USE DEF GeometryInv, Shrunk, Moved, AlignInv, TypeOK, DiskInv, Disk1, Disk2, Disk3, Disk4,
    Disk5, Disk6, Disk7, Disk8, Disk9, Disk10, StartInv, EarlyInv, MiddleInv, LateInv, Goto,
    disk, geometry, mounts, Holds, Ext4, Parts, Paths, States, NoFile, Torn, AllFiles, OnApp,
    OnTemp, TempShown, AppShown, Early, Source, Other
<1>1. CASE AlreadyAligned
  BY <1>z, <1>1 DEF AlreadyAligned
<1>2. CASE Choose
  <2>1. \A p \in Parts : st'[p] = st[p] \/ (st[p] = NoFile /\ st'[p] = 0)
    BY <1>2, <1>x
  <2>2. UNCHANGED <<part, endOld, app>> /\ pc' \in {"shrinkfs", "shrinkpart", "sosb"}
    BY <1>2 DEF Choose, Enter
  <2> QED
    BY <2>1, <2>2
<1>3. CASE NothingToChoose
  BY <1>z, <1>3 DEF NothingToChoose, Return1
<1>4. CASE WriteState
  BY <1>z, <1>4 DEF WriteState, SetState
<1>5. CASE ShrinkFs
  BY <1>z, <1>5 DEF ShrinkFs, App
<1>6. CASE ShrinkPart
  BY <1>z, <1>6 DEF ShrinkPart, App
<1>7. CASE RemoveSosB
  BY <1>z, <1>7 DEF RemoveSosB, AfterSosB
<1>8. CASE MkpartTemp
  BY <1>z, <1>8, ZenonT(60) DEF MkpartTemp
<1>9. CASE MkfsTemp
  <2>1. st["APP"] = 2 /\ UNCHANGED <<endOld, app>> /\ pc' \in {"state3", "failed"}
    BY <1>9 DEF MkfsTemp, Return1
  <2>2. UNCHANGED <<part, st>> \/ (st'["APP"] = 2 /\ st'["OTA_TEMP"] = NoFile)
    BY <1>9, <1>y, <2>1, ZenonT(60)
  <2> QED
    BY <2>1, <2>2
<1>10. CASE MountTemp
  BY <1>z, <1>10 DEF MountTemp
<1>11. CASE CopyFile("copy4", "temp_mnt", "state4")
  BY <1>z, <1>11 DEF CopyFile
<1>12. CASE CopyFile("copy7", Other(pkg), "state7")
  BY <1>z, <1>12 DEF CopyFile
<1>13. CASE SwapToTemp
  BY <1>z, <1>13, ZenonT(60) DEF SwapToTemp, Return1
<1>14. CASE ZeroApp
  BY <1>z, <1>14 DEF ZeroApp, Wipe
<1>15. CASE RemoveApp
  BY <1>z, <1>15 DEF RemoveApp
<1>16. CASE MkpartApp
  BY <1>z, <1>16 DEF MkpartApp, App
<1>17. CASE MkfsApp
  BY <1>z, <1>17 DEF MkfsApp, Mkfs
<1>18. CASE MountApp
  BY <1>z, <1>18 DEF MountApp
<1>19. CASE SwapToApp
  BY <1>z, <1>19, ZenonT(60) DEF SwapToApp
<1>20. CASE ZeroTemp
  BY <1>z, <1>20, ZenonT(60) DEF ZeroTemp, Wipe
<1>21. CASE RemoveTemp
  BY <1>z, <1>21, ZenonT(60) DEF RemoveTemp
<1>22. CASE GrowPart
  BY <1>z, <1>22 DEF GrowPart, App
<1>23. CASE GrowFs
  BY <1>z, <1>23 DEF GrowFs, App
<1>24. CASE Mark
  BY <1>z, <1>24, ZenonT(60) DEF Mark
<1>25. CASE Reset
  BY <1>z, <1>25, ZenonT(60) DEF Reset, TornAt
<1>26. CASE UNCHANGED vars
  BY <1>26, ZenonT(60) DEF vars
<1> QED
  BY <1>1, <1>2, <1>3, <1>4, <1>5, <1>6, <1>7, <1>8, <1>9, <1>10, <1>11,
    <1>12, <1>13, <1>14, <1>15, <1>16, <1>17, <1>18, <1>19, <1>20, <1>21,
    <1>22, <1>23, <1>24, <1>25, <1>26 DEF Next, Step

\* The state files tell the geometry of APP, whatever was cut and repeated.
THEOREM GeometryInvariant == ASSUME ~TornWrites PROVE Spec => []GeometryInv
<1>1. Init => GeometryInv
  BY DEF Init, GeometryInv, Shrunk, Moved, Ext4, Parts, NoFile
<1>2. AlignInv /\ AlignInv' /\ GeometryInv /\ [Next]_vars => GeometryInv'
  BY StepGeometry
<1> QED
  BY AlignInvariant, <1>1, <1>2, PTL DEF Spec

\* ota_align_app_part() returns 0 only with APP at its new start, with its old
\* end, a file system that fills it and the OTA files on it, and no OTA_TEMP.
THEOREM SuccessIsAligned == ASSUME ~TornWrites PROVE Spec => []DoneIsAligned
<1>1. AlignInv /\ GeometryInv => DoneIsAligned
  <2> SUFFICES ASSUME AlignInv, GeometryInv, pc = "done" PROVE DoneIsAligned
    BY DEF DoneIsAligned
  <2>1. Disk10 /\ st["APP"] = 10 /\ app \in [start : {"old", "new"}, end : {"old", "small"}, fs : {"old", "small"}]
    BY DEF AlignInv, LateInv, GeometryInv, TypeOK
  <2>2. app.start = "new" /\ app.end = "old" /\ app.fs = "old"
    BY <2>1 DEF GeometryInv, Moved
  <2> QED
    BY <2>1, <2>2 DEF DoneIsAligned, Disk10
<1> QED
  BY AlignInvariant, GeometryInvariant, <1>1, PTL

-----------------------------------------------------------------------------
(* The file system of APP, even with torn state files.                     *)

\* What the mounts show when both are taken off and p is mounted at pkg.
LEMMA Remounted ==
    ASSUME NEW p, FitTypes, mnt' = [Unmount(Paths) EXCEPT ![pkg] = p]
    PROVE  mnt' = [m \in Paths |-> IF m = pkg THEN p ELSE "none"]
  BY DEF Unmount, FitTypes

\* Each step keeps FitInv.
LEMMA StepFit == ASSUME FitInv, [Next]_vars PROVE FitInv'
<1>t. ASSUME RemoveApp \/ RemoveTemp PROVE FitTypes'
  BY <1>t DEF FitInv, FitTypes, Goto, geometry, Labels, RemoveApp, RemoveTemp, Parts
<1>s. ASSUME SwapToTemp \/ SwapToApp PROVE FitTypes'
  <2>1. mnt' \in [Paths -> Parts \cup {"none"}]
    <3>1. CASE UNCHANGED mnt
      BY <3>1 DEF FitInv, FitTypes
    <3>2. CASE \E p \in Parts : mnt' = [Unmount(Paths) EXCEPT ![pkg] = p]
      BY <3>2, Remounted DEF FitInv
    <3> QED
      BY <1>s, <3>1, <3>2 DEF SwapToTemp, SwapToApp, Return1, mounts, Parts
  <2> QED
    BY <1>s, <2>1 DEF FitInv, FitTypes, Goto, disk, geometry, mounts, Labels, SwapToTemp,
       SwapToApp, Return1
<1>m. ASSUME NEW p, mnt' = [Unmount(Paths) EXCEPT ![pkg] = p]
      PROVE  mnt'[pkg] = p /\ \A m \in Paths \ {pkg} : mnt'[m] = "none"
  <2>1. mnt' = [m \in Paths |-> IF m = pkg THEN p ELSE "none"]
    BY <1>m, Remounted DEF FitInv
  <2> QED
    BY <2>1 DEF FitInv, FitTypes
<1>r. ASSUME Reset PROVE FitTypes'
  <2>1. st' \in [Parts -> States \cup {NoFile, Torn}]
    BY <1>r DEF FitInv, FitTypes, Reset, TornAt
  <2>2. mnt' \in [Paths -> Parts \cup {"none"}]
    BY <1>r DEF FitInv, FitTypes, Reset, Unmount
  <2> QED
    BY <1>r, <2>1, <2>2 DEF FitInv, FitTypes, Goto, geometry, Labels, Reset, Paths
<1> USE DEF FitInv, FitTypes, FitDisk, FitMounts, AsChosen, FitLabels, Goto, disk, geometry,
    mounts, Ext4, Mounted, Parts, Paths, Labels, States, NoFile, Torn, Source, Other
<1>1. CASE AlreadyAligned
  BY <1>1 DEF AlreadyAligned
<1>2. CASE Choose
  <2>1. /\ mnt'["app_mnt"] = IF Ext4("APP") THEN "APP" ELSE "none"
        /\ mnt'["temp_mnt"] = IF Ext4("OTA_TEMP") THEN "OTA_TEMP" ELSE "none"
        /\ part' = part
    BY <1>2 DEF Choose
  <2>2. Chosen \in Parts /\ Ext4(Chosen) /\ Source' = Chosen
    BY <1>2, <2>1 DEF Choose, Chosen
  <2>3. /\ st'[Chosen] = IF st[Chosen] = NoFile THEN 0 ELSE st[Chosen]
        /\ state' = st'[Chosen]
        /\ \A p \in Parts \ {Chosen} : st'[p] = st[p]
    BY <1>2, <2>2, ZenonT(60) DEF Choose
  <2>4. /\ pc' = Enter(state') /\ UNCHANGED app
        /\ appMount' = Ext4("APP") /\ tempMount' = Ext4("OTA_TEMP")
        /\ appKnown' = (part["APP"] # "absent")
    BY <1>2 DEF Choose
  <2>5. FitTypes'
    BY <1>2, SMTT(30) DEF Choose, Enter, Chosen, HasState
  <2>6. FitDisk'
    BY <1>2, SMTT(30) DEF Choose, Enter, Chosen, HasState
  <2>7. AsChosen'
    BY <2>1, <2>4
  <2>8. FitMounts'
    <3>1. \A m \in Paths : mnt'[m] # "none" => part'[mnt'[m]] = "ext4"
      BY <2>1
    <3>2. (Mounted("APP") => appMount)' /\ (Mounted("OTA_TEMP") => tempMount)'
      BY <2>1, <2>4
    <3> QED
      BY <2>1, <2>2, <2>4, <3>1, <3>2
  <2>9. FitLabels'
    BY <2>1, <2>2, <2>3, <2>4, <2>5, <2>6, <2>7 DEF Enter
  <2> QED
    BY <2>5, <2>6, <2>8, <2>9
<1>3. CASE NothingToChoose
  BY <1>3 DEF NothingToChoose, Return1
<1>4. CASE WriteState
  <2>1. CASE SetState("state1", 1, "shrinkpart")
    BY <2>1 DEF SetState
  <2>2. CASE SetState("state2", 2, "sosb")
    BY <2>2 DEF SetState
  <2>3. CASE SetState("state3", 3, "mounttemp")
    BY <2>3 DEF SetState
  <2>4. CASE SetState("state4", 4, "swap5")
    BY <2>4 DEF SetState
  <2>5. CASE SetState("carry4", state, "zeroapp")
    BY <2>5 DEF SetState
  <2>6. CASE SetState("state5", 5, "mkapp")
    BY <2>6 DEF SetState
  <2>7. CASE SetState("state6", 6, "mountapp")
    BY <2>7 DEF SetState
  <2>8. CASE SetState("state7", 7, "swap8")
    BY <2>8 DEF SetState
  <2>9. CASE SetState("carry7", state, "zerotemp")
    BY <2>9 DEF SetState
  <2>10. CASE SetState("state8", 8, "growpart")
    BY <2>10 DEF SetState
  <2>11. CASE SetState("state9", 9, "growfs")
    BY <2>11 DEF SetState
  <2>12. CASE SetState("state10", 10, "mark")
    BY <2>12 DEF SetState
  <2> QED
    BY <1>4, <2>1, <2>2, <2>3, <2>4, <2>5, <2>6, <2>7, <2>8, <2>9, <2>10, <2>11, <2>12 DEF WriteState
<1>5. CASE ShrinkFs
  BY <1>5 DEF ShrinkFs, App
<1>6. CASE ShrinkPart
  BY <1>6 DEF ShrinkPart, App
<1>7. CASE RemoveSosB
  BY <1>7 DEF RemoveSosB, AfterSosB
<1>8. CASE MkpartTemp
  BY <1>8 DEF MkpartTemp
<1>9. CASE MkfsTemp
  BY <1>9 DEF MkfsTemp, Mkfs, Return1
<1>10. CASE MountTemp
  <2>1. FitTypes'
    BY <1>10, SMTT(30) DEF MountTemp
  <2>2. FitDisk'
    BY <1>10, SMTT(30) DEF MountTemp
  <2>3. FitMounts'
    BY <1>10, SMTT(30) DEF MountTemp
  <2>4. FitLabels'
    BY <1>10, SMTT(30) DEF MountTemp
  <2> QED
    BY <2>1, <2>2, <2>3, <2>4
<1>11. CASE CopyFile("copy4", "temp_mnt", "state4")
  BY <1>11 DEF CopyFile
<1>12. CASE CopyFile("copy7", Other(pkg), "state7")
  BY <1>12 DEF CopyFile
<1>13. CASE SwapToTemp
  <2>1. FitTypes'
    BY <1>13, <1>s
  <2>2. CASE ~appMount /\ Goto("zeroapp") /\ UNCHANGED <<disk, mounts, state, todo, resets>>
    BY <1>13, <2>1, <2>2 DEF SwapToTemp
  <2>3. CASE Return1
    BY <1>13, <2>1, <2>3 DEF SwapToTemp, Return1
  <2>4. CASE mnt' = [Unmount(Paths) EXCEPT ![pkg] = "OTA_TEMP"] /\ pc' = "carry4"
    <3>1. /\ mnt'[pkg] = "OTA_TEMP" /\ \A m \in Paths \ {pkg} : mnt'[m] = "none"
      BY <2>4, <1>m
    <3>2. /\ tempMount /\ Ext4("OTA_TEMP") /\ state = 4
          /\ UNCHANGED <<part, st, app, endOld, pkg, appMount, tempMount, appKnown, state>>
      BY <1>13, <2>4 DEF SwapToTemp, Return1
    <3>3. FitMounts'
      BY <1>13, <2>4, <3>1, <3>2 DEF SwapToTemp
    <3> QED
      BY <1>13, <2>1, <2>4, <3>1, <3>2, <3>3 DEF SwapToTemp
  <2> QED
    BY <1>13, <2>2, <2>3, <2>4 DEF SwapToTemp
<1>14. CASE ZeroApp
  BY <1>14 DEF ZeroApp, Wipe
<1>15. CASE RemoveApp
  <2>1. FitTypes'
    BY <1>15, <1>t
  <2>2. FitDisk'
    BY <1>15, SMTT(30) DEF RemoveApp
  <2>3. FitMounts'
    BY <1>15, SMTT(30) DEF RemoveApp
  <2>4. FitLabels'
    BY <1>15, SMTT(30) DEF RemoveApp
  <2> QED
    BY <2>1, <2>2, <2>3, <2>4
<1>16. CASE MkpartApp
  <2>1. FitTypes'
    BY <1>16, SMTT(30) DEF MkpartApp, App
  <2>2. FitDisk'
    BY <1>16, SMTT(30) DEF MkpartApp, App
  <2>3. FitMounts'
    BY <1>16, SMTT(30) DEF MkpartApp, App
  <2>4. FitLabels'
    BY <1>16, SMTT(30) DEF MkpartApp, App
  <2> QED
    BY <2>1, <2>2, <2>3, <2>4
<1>17. CASE MkfsApp
  <2>1. FitTypes'
    BY <1>17, SMTT(30) DEF MkfsApp, Mkfs
  <2>2. FitDisk'
    BY <1>17, SMTT(30) DEF MkfsApp, Mkfs
  <2>3. FitMounts'
    BY <1>17, SMTT(30) DEF MkfsApp, Mkfs
  <2>4. FitLabels'
    BY <1>17, SMTT(30) DEF MkfsApp, Mkfs
  <2> QED
    BY <2>1, <2>2, <2>3, <2>4
<1>18. CASE MountApp
  BY <1>18 DEF MountApp
<1>19. CASE SwapToApp
  <2>1. FitTypes'
    BY <1>19, <1>s
  <2>2. CASE ~tempMount /\ Goto("zerotemp") /\ UNCHANGED <<disk, mounts, state, todo, resets>>
    BY <1>19, <2>1, <2>2 DEF SwapToApp
  <2>3. CASE tempMount /\ mnt' = [Unmount(Paths) EXCEPT ![pkg] = "APP"] /\ pc' = "carry7"
    <3>1. /\ mnt'[pkg] = "APP" /\ \A m \in Paths \ {pkg} : mnt'[m] = "none"
      BY <2>3, <1>m
    <3>2. /\ UNCHANGED <<part, st, app, endOld, pkg, appMount, tempMount, appKnown, state>>
          /\ Ext4("APP") /\ state = 7 /\ app.fs = "small"
      BY <1>19, <2>3 DEF SwapToApp
    <3>3. FitMounts'
      BY <1>19, <2>3, <3>1, <3>2 DEF SwapToApp
    <3> QED
      BY <1>19, <2>1, <2>3, <3>1, <3>2, <3>3 DEF SwapToApp
  <2> QED
    BY <1>19, <2>2, <2>3 DEF SwapToApp
<1>20. CASE ZeroTemp
  BY <1>20 DEF ZeroTemp, Wipe
<1>21. CASE RemoveTemp
  <2>1. FitTypes'
    BY <1>21, <1>t
  <2>2. FitDisk'
    BY <1>21, SMTT(30) DEF RemoveTemp
  <2>3. FitMounts'
    BY <1>21, SMTT(30) DEF RemoveTemp
  <2>4. FitLabels'
    BY <1>21, SMTT(30) DEF RemoveTemp
  <2> QED
    BY <2>1, <2>2, <2>3, <2>4
<1>22. CASE GrowPart
  BY <1>22 DEF GrowPart, App
<1>23. CASE GrowFs
  BY <1>23 DEF GrowFs, App
<1>24. CASE Mark
  BY <1>24 DEF Mark, Unmount
<1>25. CASE Reset
  <2>1. FitTypes'
    BY <1>25, <1>r
  <2>2. FitDisk'
    BY <1>25, SMTT(30) DEF Reset, TornAt, Unmount
  <2>3. FitMounts'
    BY <1>25, SMTT(30) DEF Reset, TornAt, Unmount
  <2>4. FitLabels'
    BY <1>25, SMTT(30) DEF Reset, TornAt, Unmount
  <2> QED
    BY <2>1, <2>2, <2>3, <2>4
<1>26. CASE UNCHANGED vars
  BY <1>26 DEF vars
<1> QED
  BY <1>1, <1>2, <1>3, <1>4, <1>5, <1>6, <1>7, <1>8, <1>9, <1>10, <1>11, <1>12, <1>13, <1>14, <1>15, <1>16, <1>17, <1>18, <1>19, <1>20, <1>21, <1>22, <1>23, <1>24, <1>25, <1>26 DEF Next, Step

\* The file system of APP never reaches beyond its partition, with state files
\* written whole or torn.
THEOREM FsAlwaysFits == Spec => []FsFitsPartition
<1>1. Init => FitInv
  <2> SUFFICES ASSUME Init PROVE FitInv
    OBVIOUS
  <2> USE DEF Init, Ext4, Parts, Paths, NoFile
  <2>1. FitTypes
    BY DEF FitTypes, Labels
  <2>2. FitDisk /\ FitMounts
    BY DEF FitDisk, FitMounts, Mounted
  <2>3. FitLabels
    BY DEF FitLabels
  <2> QED
    BY <2>1, <2>2, <2>3 DEF FitInv
<1>2. FitInv /\ [Next]_vars => FitInv'
  BY StepFit
<1>3. FitInv => FsFitsPartition
  BY DEF FitInv, FitTypes, FitDisk, FsFitsPartition
<1> QED
  BY <1>1, <1>2, <1>3, PTL DEF Spec
=============================================================================
