------------------------- MODULE OtaRollbackProofs -------------------------
(***************************************************************************)
(* OtaRollback on eMMC with VER and VER_b in place, for any packages, any  *)
(* work directories and any number of faults; then what holds on any board *)
(* and in any layout: the u-boot environment and the interrupted update.   *)
(* At the end, the other half of the upgrade scripts: OtaRecovery.         *)
(***************************************************************************)
EXTENDS OtaRollback, OtaRecovery, TLAPS

USE PackagesAssumption, LayoutAssumption, RestAssumption, BoardAssumption

LEMMA InitInv == InPlace /\ Init => RollbackInv
  BY DEF InPlace, Init, RollbackInv, TypeOK, RecordInv, AcceptedInv, OrderInv, Settled,
         HalfDone, VER, VER_b, SlotsAre, Parts, Slots, Layouts, Contents, Labels, Names,
         Updating, Relocates

\* With one layout, the check reads the versions the update writes.
LEMMA ReadInPlace ==
  ASSUME InPlace, TypeOK, gpt # "torn", NEW d \in Dirs
  PROVE  Number(d, "VER") = VER /\ Number(d, "VER_b") = VER_b /\ ~ReadFails(d)
<1>1. LayoutUsed(d) \in Layouts /\ Home[LayoutUsed(d)] = Home["new"]
  BY DEF InPlace, TypeOK, LayoutUsed, Layouts, Relocates
<1>2. Found(d)
  BY <1>1 DEF Found, InPlace, Layouts
<1> QED
  BY <1>1, <1>2 DEF Number, CellOf, ReadFails, VER, VER_b, InPlace

\* With one layout, the update script overwrites neither version.
LEMMA NothingOverwritten ==
  ASSUME InPlace, TypeOK, NEW p, Overwrites(p)
  PROVE  cells' = cells
  BY DEF InPlace, TypeOK, Overwrites, Relocates

\* The two writes of write_ver() to the cell of n, the other cell kept.
LEMMA CellWrites ==
  ASSUME InPlace, TypeOK
  PROVE  /\ VER \in Nat /\ VER_b \in Nat /\ v \in Nat \ {0}
         /\ BeginWrite("VER_b") => /\ cells' \in [Cells -> Nat] /\ VER' = VER
                                  /\ VER_b' = IF VER_b = v THEN v ELSE 0
         /\ EndWrite("VER_b") => cells' \in [Cells -> Nat] /\ VER' = VER /\ VER_b' = v
         /\ BeginWrite("VER") => /\ cells' \in [Cells -> Nat] /\ VER_b' = VER_b
                                /\ VER' = IF VER = v THEN v ELSE 0
         /\ EndWrite("VER") => cells' \in [Cells -> Nat] /\ VER_b' = VER_b /\ VER' = v
<1>1. v \in Nat \ {0}
  BY DEF TypeOK, v
<1>2. /\ Home["new"]["VER"] \in Cells /\ Home["new"]["VER_b"] \in Cells
      /\ Home["new"]["VER"] # Home["new"]["VER_b"]
  BY DEF Layouts, Names
<1> QED
  BY <1>1, <1>2, SMTT(60) DEF TypeOK, VER, VER_b, BeginWrite, EndWrite, HalfWritten, InPlace, Erases

\* A package the check accepts fits what VER and VER_b say.
LEMMA AcceptedFits ==
  ASSUME InPlace, RollbackInv, pc = "check", Accepts(dir, VER, VER_b)
  PROVE  IF open = 0 THEN VER <= v /\ (VER < v => SlotsAre(VER)) ELSE open = v
<1>1. VER \in Nat /\ VER_b \in Nat /\ v \in Nat \ {0} /\ open \in Nat
  BY CellWrites DEF RollbackInv, TypeOK
<1>2. CASE open = 0
  BY <1>1, <1>2 DEF RollbackInv, RecordInv, Settled, Accepts, SlotsAgree, SlotsAre, v,
     Parts, Slots
<1>3. CASE open # 0
  BY <1>1, <1>3 DEF RollbackInv, RecordInv, HalfDone, Accepts, v
<1> QED
  BY <1>2, <1>3

-----------------------------------------------------------------------------
LEMMA StepType ==
  ASSUME InPlace, RollbackInv, [Next]_vars
  PROVE  TypeOK' /\ gpt' # "torn"
<1> USE DEF RollbackInv, TypeOK, Labels, Layouts, Contents, disk, Goto, Control
<1>1. CASE UNCHANGED vars
  BY <1>1 DEF vars
<1>2. ASSUME NEW d \in Dirs, Boot(d) PROVE TypeOK' /\ gpt' # "torn"
  BY <1>2 DEF Boot
<1>3. CASE Check
  BY <1>3 DEF Check
<1>4. CASE BackupEnv \/ BackupDone
  BY <1>4 DEF BackupEnv, BackupDone
<1>5. CASE WriteVerB \/ WriteVerBDone \/ WriteVer \/ WriteVerDone
  <2>1. cells' \in [Cells -> Nat]
    BY <1>5, CellWrites DEF WriteVerB, WriteVerBDone, WriteVer, WriteVerDone
  <2> QED
    BY <1>5, <2>1 DEF WriteVerB, WriteVerBDone, WriteVer, WriteVerDone
<1>6. CASE Mark
  BY <1>6 DEF Mark
<1>7. ASSUME NEW p \in Parts \cup {"gpt"}, StartPart(p) PROVE TypeOK' /\ gpt' # "torn"
  <2>1. cells' = cells
    BY <1>7, NothingOverwritten DEF StartPart
  <2>2. v \in Nat
    BY DEF v
  <2>3. part' \in [Parts -> Nat] /\ open' \in Nat /\ gpt' \in Layouts
    BY <1>7, <2>2 DEF StartPart, InPlace, Erases
  <2>4. env' \in [old : Contents, new : Contents]
    BY <1>7 DEF StartPart
  <2> QED
    BY <1>7, <2>1, <2>3, <2>4 DEF StartPart
<1>8. CASE FinishPart
  <2>1. v \in Nat /\ busy \in todo /\ busy # "none"
    BY <1>8 DEF FinishPart, v
  <2>2. part' \in [Parts -> Nat]
    BY <1>8, <2>1 DEF FinishPart
  <2> QED
    BY <1>8, <2>1, <2>2 DEF FinishPart
<1>9. CASE PartsDone
  BY <1>9 DEF PartsDone
<1>10. CASE RestoreEnv
  <2>1. env' \in [old : Contents, new : Contents]
    BY <1>10 DEF RestoreEnv
  <2> QED
    BY <1>10, <2>1 DEF RestoreEnv
<1>11. CASE Unmark \/ CleanUp
  BY <1>11 DEF Unmark, CleanUp
<1>12. CASE ScriptFails \/ PowerCut \/ Reboot
  BY <1>12 DEF ScriptFails, PowerCut, Reboot
<1> QED
  BY <1>1, <1>2, <1>3, <1>4, <1>5, <1>6, <1>7, <1>8, <1>9, <1>10, <1>11, <1>12
  DEF Next, Step

\* What the writes of VER_b and VER do to the record.
LEMMA VerStep ==
  ASSUME InPlace, RollbackInv, WriteVerB \/ WriteVerBDone \/ WriteVer \/ WriteVerDone
  PROVE  RecordInv' /\ AcceptedInv' /\ OrderInv'
<1>1. /\ VER \in Nat /\ VER_b \in Nat /\ v \in Nat \ {0} /\ open \in Nat
      /\ \A p \in Parts : part[p] \in Nat
  BY CellWrites DEF RollbackInv, TypeOK
<1>2. v' = v /\ part' = part
  BY DEF WriteVerB, WriteVerBDone, WriteVer, WriteVerDone, Control, v
<1> USE DEF RollbackInv, RecordInv, AcceptedInv, OrderInv, Settled, HalfDone, SlotsAre,
            Updating, Control, Goto
<1>3. CASE WriteVerB
  <2>1. VER' = VER /\ VER_b' = (IF VER_b = v THEN v ELSE 0) /\ pc = "verb"
        /\ pc' = "verbhalf" /\ open' = open
    BY <1>3, CellWrites DEF WriteVerB
  <2> QED
    BY <1>1, <1>2, <2>1
<1>4. CASE WriteVerBDone
  <2>1. VER' = VER /\ VER_b' = v /\ pc = "verbhalf" /\ pc' = "mark" /\ open' = open
    BY <1>4, CellWrites DEF WriteVerBDone
  <2> QED
    BY <1>1, <1>2, <2>1
<1>5. CASE WriteVer
  <2>1. VER_b' = VER_b /\ VER' = (IF VER = v THEN v ELSE 0) /\ pc = "ver"
        /\ pc' = "verhalf" /\ open' = open
    BY <1>5, CellWrites DEF WriteVer
  <2> QED
    BY <1>1, <1>2, <2>1
<1>6. CASE WriteVerDone
  <2>1. VER_b' = VER_b /\ VER' = v /\ pc = "verhalf" /\ pc' = "unmark" /\ open' = 0
    BY <1>6, CellWrites DEF WriteVerDone
  <2> QED
    BY <1>1, <1>2, <2>1
<1> QED
  BY <1>3, <1>4, <1>5, <1>6

\* What writing one partition does to the record.
LEMMA PartStep ==
  ASSUME InPlace, RollbackInv,
         FinishPart \/ \E p \in Parts \cup {"gpt"} : StartPart(p)
  PROVE  RecordInv' /\ AcceptedInv' /\ OrderInv'
<1>1. /\ VER \in Nat /\ VER_b \in Nat /\ v \in Nat \ {0} /\ open \in Nat
      /\ part \in [Parts -> Nat]
  BY CellWrites DEF RollbackInv, TypeOK
<1>2. /\ VER_b = v /\ pc = "parts" /\ pc' = "parts"
      /\ IF open = 0 THEN VER <= v /\ (VER < v => SlotsAre(VER)) ELSE open = v
  BY DEF RollbackInv, AcceptedInv, OrderInv, Updating, StartPart, FinishPart
<1>3. ASSUME NEW p \in Parts \cup {"gpt"}, StartPart(p)
      PROVE  RecordInv' /\ AcceptedInv' /\ OrderInv'
  <2>1. cells' = cells /\ v' = v /\ todo' = todo /\ p \in todo /\ busy' = p
    BY <1>3, NothingOverwritten DEF StartPart, v, RollbackInv
  <2>2. VER' = VER /\ VER_b' = VER_b
    BY <2>1 DEF VER, VER_b
  <2>3. CASE p = "gpt"
    <3>1. part' = part /\ open' = open
      BY <1>3, <2>3 DEF StartPart
    <3> QED
      BY <1>1, <1>2, <2>1, <2>2, <2>3, <3>1 DEF RollbackInv, RecordInv, AcceptedInv,
         OrderInv, Settled, HalfDone, SlotsAre, Updating
  <2>4. CASE p # "gpt" /\ open' = 0
    <3>1. /\ part' = [part EXCEPT ![p] = 0] /\ p \in Parts /\ open = 0
          /\ \A q \in Parts : part[q] \in {0, v}
      BY <1>1, <1>3, <2>4 DEF StartPart
    <3>2. VER = v
      BY <1>1, <1>2, <3>1 DEF RollbackInv, RecordInv, Settled, SlotsAre, Parts, Slots
    <3> QED
      BY <1>1, <1>2, <2>1, <2>2, <2>4, <3>1, <3>2 DEF RollbackInv, RecordInv, AcceptedInv,
         OrderInv, Settled, SlotsAre, Updating
  <2>5. CASE p # "gpt" /\ open' # 0
    <3>1. part' = [part EXCEPT ![p] = 0] /\ p \in Parts /\ open' = v
      BY <1>1, <1>2, <1>3, <2>5 DEF StartPart
    <3>2. VER < v /\ \A q \in Parts : part[q] <= v
      <4>1. CASE open = 0
        <5>1. PICK q \in Parts : part[q] \notin {0, v}
          BY <1>1, <1>3, <2>5, <4>1 DEF StartPart
        <5> QED
          BY <1>1, <1>2, <4>1, <5>1 DEF RollbackInv, RecordInv, Settled
      <4>2. CASE open # 0
        BY <1>1, <1>2, <4>2 DEF RollbackInv, RecordInv, HalfDone
      <4> QED
        BY <4>1, <4>2
    <3> QED
      BY <1>1, <1>2, <2>1, <2>2, <2>5, <3>1, <3>2 DEF RollbackInv, RecordInv, AcceptedInv,
         OrderInv, HalfDone, Updating
  <2> QED
    BY <2>3, <2>4, <2>5
<1>4. CASE FinishPart
  <2>1. /\ v' = v /\ VER' = VER /\ VER_b' = VER_b /\ open' = open
        /\ todo' = todo \ {busy} /\ busy' = "none" /\ busy \in todo
    BY <1>4 DEF FinishPart, v, VER, VER_b, RollbackInv, TypeOK
  <2>2. CASE busy = "gpt"
    BY <1>1, <1>2, <1>4, <2>1, <2>2 DEF FinishPart, RollbackInv, RecordInv, AcceptedInv,
       OrderInv, Settled, HalfDone, SlotsAre, Updating, TypeOK, Parts, Slots
  <2>3. CASE busy # "gpt"
    <3>1. /\ busy \in Parts /\ part' = [part EXCEPT ![busy] = v]
          /\ open = 0 => VER = v
      BY <1>1, <1>2, <1>4, <2>1, <2>3 DEF FinishPart, RollbackInv, OrderInv, TypeOK
    <3> QED
      BY <1>1, <1>2, <2>1, <3>1 DEF RollbackInv, RecordInv, AcceptedInv,
         OrderInv, Settled, HalfDone, SlotsAre, Updating
  <2> QED
    BY <2>2, <2>3
<1> QED
  BY <1>3, <1>4

\* The steps that write neither a version nor a partition.
LEMMA OtherStep ==
  ASSUME InPlace, RollbackInv, NEW q \in Dirs,
         \/ Boot(q) \/ Check \/ BackupEnv \/ BackupDone \/ Mark \/ PartsDone \/ RestoreEnv
         \/ Unmark \/ CleanUp \/ ScriptFails \/ PowerCut \/ Reboot \/ UNCHANGED vars
  PROVE  RecordInv' /\ AcceptedInv' /\ OrderInv'
<1>1. cells' = cells /\ part' = part /\ open' = open
  BY DEF Boot, Check, BackupEnv, BackupDone, Mark, PartsDone, RestoreEnv, Unmark, CleanUp,
     ScriptFails, PowerCut, Reboot, vars, disk
<1>2. VER' = VER /\ VER_b' = VER_b /\ RecordInv'
  BY <1>1 DEF VER, VER_b, RollbackInv, RecordInv, Settled, HalfDone, SlotsAre
<1>3. CASE Boot(q) \/ Unmark \/ CleanUp \/ ScriptFails \/ PowerCut \/ Reboot
  BY <1>2, <1>3 DEF Boot, Unmark, CleanUp, ScriptFails, PowerCut, Reboot, Control, Goto,
     AcceptedInv, OrderInv, Updating
<1>4. CASE UNCHANGED vars
  BY <1>1, <1>2, <1>4 DEF vars, v, RollbackInv, AcceptedInv, OrderInv, SlotsAre
<1>5. CASE Check
  <2>1. pc = "check" /\ pc' \in {"env", "verb", "shell"} /\ dir' = dir
    BY <1>5 DEF Check, Control, Goto
  <2>2. CASE pc' = "shell"
    BY <1>2, <2>2 DEF AcceptedInv, OrderInv, Updating
  <2>3. CASE pc' # "shell"
    <3>1. Accepts(dir, VER, VER_b)
      BY <1>5, <2>3, ReadInPlace DEF Check, Control, Goto, RollbackInv, TypeOK
    <3> QED
      BY <1>1, <1>2, <2>1, <3>1, AcceptedFits DEF AcceptedInv, OrderInv, v, SlotsAre
  <2> QED
    BY <2>2, <2>3
<1>6. CASE BackupEnv \/ BackupDone \/ Mark \/ PartsDone \/ RestoreEnv
  <2>1. dir' = dir /\ v' = v
    BY <1>6 DEF BackupEnv, BackupDone, Mark, PartsDone, RestoreEnv, Control, v
  <2>2. AcceptedInv'
    BY <1>1, <1>2, <1>6, <2>1 DEF BackupEnv, BackupDone, Mark, PartsDone, RestoreEnv,
       Control, Goto, RollbackInv, AcceptedInv, Updating, SlotsAre
  <2>3. BackupEnv \/ BackupDone => OrderInv'
    BY DEF BackupEnv, BackupDone, Control, Goto, OrderInv
  <2>4. Mark => OrderInv'
    BY <1>1, <1>2, <2>1 DEF Mark, Goto, RollbackInv, OrderInv
  <2>5. PartsDone => OrderInv'
    BY <1>1, <1>2, <2>1 DEF PartsDone, Control, Goto, RollbackInv, OrderInv, Parts, Slots
  <2>6. RestoreEnv => OrderInv'
    BY <1>1, <1>2, <2>1 DEF RestoreEnv, Control, Goto, RollbackInv, OrderInv
  <2> QED
    BY <1>2, <1>6, <2>2, <2>3, <2>4, <2>5, <2>6
<1> QED
  BY <1>3, <1>4, <1>5, <1>6

LEMMA StepInv == InPlace /\ RollbackInv /\ [Next]_vars => RollbackInv'
<1> SUFFICES ASSUME InPlace, RollbackInv, [Next]_vars PROVE RollbackInv'
  OBVIOUS
<1>1. TypeOK' /\ gpt' # "torn"
  BY StepType
<1>2. dir \in Dirs
  BY DEF RollbackInv, TypeOK
<1>3. RecordInv' /\ AcceptedInv' /\ OrderInv'
  BY <1>2, VerStep, PartStep, OtherStep DEF Next, Step
<1> QED
  BY <1>1, <1>3 DEF RollbackInv

-----------------------------------------------------------------------------
\* On eMMC with VER and VER_b in place, every reachable state satisfies the
\* invariant, for any packages, work directories and number of faults.
THEOREM RollbackInvariant == ASSUME InPlace PROVE Spec => []RollbackInv
  BY InitInv, StepInv, PTL DEF Spec

\* No package is ever applied over a partition of a later version.
THEOREM RollbackNeverApplied == ASSUME InPlace PROVE Spec => []NoRollback
<1>1. RollbackInv => NoRollback
  <2> SUFFICES ASSUME RollbackInv, pc \in Updating, NEW p \in Parts PROVE part[p] <= v
    BY DEF NoRollback
  <2>1. VER \in Nat /\ v \in Nat /\ open \in Nat /\ part[p] \in Nat
    BY CellWrites DEF RollbackInv, TypeOK
  <2> QED
    BY <2>1 DEF RollbackInv, RecordInv, AcceptedInv, Settled, HalfDone
<1> QED
  BY <1>1, RollbackInvariant, PTL

\* A half-done upgrade is finished by its own version before any other is applied.
THEOREM UnfinishedComesFirst == ASSUME InPlace PROVE Spec => []ContinueFirst
<1>1. RollbackInv => ContinueFirst
  BY DEF RollbackInv, AcceptedInv, ContinueFirst
<1> QED
  BY <1>1, RollbackInvariant, PTL

\* When VER and VER_b agree at a check, they are the version of every partition
\* that is not torn.
THEOREM RecordAlwaysTrue == ASSUME InPlace PROVE Spec => []RecordIsTrue
<1>1. RollbackInv => RecordIsTrue
  <2> SUFFICES ASSUME RollbackInv PROVE RecordIsTrue
    OBVIOUS
  <2>1. Number(dir, "VER") = VER /\ Number(dir, "VER_b") = VER_b
    BY ReadInPlace DEF RollbackInv, TypeOK
  <2>2. VER \in Nat /\ VER_b \in Nat /\ open \in Nat
    BY CellWrites DEF RollbackInv, TypeOK
  <2> QED
    BY <2>1, <2>2 DEF RollbackInv, RecordInv, Settled, HalfDone, RecordIsTrue
<1> QED
  BY <1>1, RollbackInvariant, PTL

\* A torn VER_b beside a good VER is always the trace of an update that wrote
\* nothing else.
THEOREM TornVerBAlwaysFresh == ASSUME InPlace PROVE Spec => []TornVerBIsFresh
<1>1. RollbackInv => TornVerBIsFresh
  <2> SUFFICES ASSUME RollbackInv PROVE TornVerBIsFresh
    OBVIOUS
  <2>1. Number(dir, "VER_b") = VER_b
    BY ReadInPlace DEF RollbackInv, TypeOK
  <2> QED
    BY <2>1, CellWrites DEF RollbackInv, TypeOK, RecordInv, HalfDone, TornVerBIsFresh
<1> QED
  BY <1>1, RollbackInvariant, PTL

-----------------------------------------------------------------------------
(* The update implements Upgrade.                                          *)

\* The versions in reach are numbers, and the package fits them.
LEMMA LevelFacts ==
  ASSUME InPlace, RollbackInv
  PROVE  /\ VER \in Nat /\ v \in Nat \ {0} /\ open \in Nat /\ part \in [Parts -> Nat]
         /\ pc \in Updating => IF open = 0 THEN VER <= v /\ (VER < v => SlotsAre(VER)) ELSE open = v
         /\ open = 0 => \A p \in Parts : part[p] \in {0, VER}
         /\ open # 0 => \A p \in Parts : part[p] <= open
  BY CellWrites DEF RollbackInv, TypeOK, AcceptedInv, RecordInv, Settled, HalfDone

\* A step that writes no partition changes what an upgrade is to at most by
\* ending one that has reached every partition.
LEMMA VerUpgrades ==
  ASSUME InPlace, RollbackInv, WriteVerB \/ WriteVerBDone \/ WriteVer \/ WriteVerDone
  PROVE  [Upgrading!Next]_(Upgrading!vars)
<1>1. part' = part
  BY DEF WriteVerB, WriteVerBDone, WriteVer, WriteVerDone
<1>2. TypeOK
  BY DEF RollbackInv
<1>3. CASE WriteVerB \/ WriteVerBDone
  BY <1>1, <1>2, <1>3, CellWrites DEF WriteVerB, WriteVerBDone, Level, Upgrading!vars
<1>4. CASE WriteVer
  <2>1. open' = open /\ (open = 0 => VER' = VER)
    <3>1. pc = "ver" /\ BeginWrite("VER") /\ open' = open
      BY <1>4 DEF WriteVer
    <3>2. open = 0 => VER = v
      BY <3>1 DEF RollbackInv, OrderInv
    <3> QED
      BY <1>2, <3>1, <3>2, CellWrites
  <2> QED
    BY <1>1, <2>1 DEF Level, Upgrading!vars
<1>5. CASE WriteVerDone
  <2>1. pc = "verhalf" /\ EndWrite("VER") /\ open' = 0
    BY <1>5 DEF WriteVerDone
  <2>2. VER' = v /\ \A p \in Parts : part[p] = v
    BY <1>2, <2>1, CellWrites DEF RollbackInv, OrderInv
  <2>3. CASE open = 0
    <3>1. VER = v
      BY <2>1, <2>3 DEF RollbackInv, OrderInv
    <3> QED
      BY <1>1, <2>1, <2>2, <2>3, <3>1 DEF Level, Upgrading!vars
  <2>4. CASE open # 0
    <3>1. open = v
      BY <2>1, <2>4, LevelFacts DEF Updating
    <3>2. Level = v /\ Level' = v /\ (open' # 0) = FALSE
      BY <2>1, <2>2, <2>4, <3>1 DEF Level
    <3>3. Upgrading!End
      BY <1>1, <2>2, <2>4, <3>2 DEF Upgrading!End
    <3> QED
      BY <3>3 DEF Upgrading!Next
  <2> QED
    BY <2>3, <2>4
<1> QED
  BY <1>3, <1>4, <1>5

\* The first partition that is written over begins the upgrade.
LEMMA StartUpgrades ==
  ASSUME InPlace, RollbackInv, NEW p \in Parts \cup {"gpt"}, StartPart(p)
  PROVE  [Upgrading!Next]_(Upgrading!vars)
<1>1. cells' = cells /\ VER' = VER /\ pc \in Updating /\ p \in todo
  BY NothingOverwritten DEF StartPart, RollbackInv, VER, Updating
<1>2. CASE p = "gpt"
  BY <1>1, <1>2 DEF StartPart, Level, Upgrading!vars
<1>3. CASE p # "gpt"
  <2>1. /\ p \in Parts /\ part' = [part EXCEPT ![p] = 0]
        /\ open' = IF \E q \in Parts : part[q] \notin {0, v} THEN v ELSE open
    BY <1>3 DEF StartPart
  <2>2. CASE open' = open
    <3>1. Level' = Level /\ (open' # 0) = (open # 0)
      BY <1>1, <2>2 DEF Level
    <3>2. Upgrading!Tear
      BY <2>1, <3>1 DEF Upgrading!Tear, Upgrading!Put
    <3> QED
      BY <3>2 DEF Upgrading!Next
  <2>3. CASE open' # open
    <3>1. open = 0 /\ open' = v
      BY <1>1, <2>1, <2>3, LevelFacts
    <3>2. PICK q \in Parts : part[q] \notin {0, v}
      BY <2>1, <2>3
    <3>3. VER < v /\ SlotsAre(VER)
      BY <1>1, <3>1, <3>2, LevelFacts
    <3>4. Level = VER /\ Level' = v /\ v # 0
      BY <3>1, LevelFacts DEF Level
    <3>5. Level' > Level
      BY <3>3, <3>4, LevelFacts
    <3>6. \A s \in Slots : part[s] = Level
      BY <3>3, <3>4 DEF SlotsAre, Slots
    <3>7. Upgrading!Begin
      BY <2>1, <3>1, <3>4, <3>5, <3>6 DEF Upgrading!Begin, Upgrading!Put
    <3> QED
      BY <3>7 DEF Upgrading!Next
  <2> QED
    BY <2>2, <2>3
<1> QED
  BY <1>2, <1>3

\* What is written is the version that the device is on its way to.
LEMMA FinishUpgrades ==
  ASSUME InPlace, RollbackInv, FinishPart
  PROVE  [Upgrading!Next]_(Upgrading!vars)
<1>1. /\ pc = "parts" /\ pc \in Updating /\ cells' = cells /\ open' = open /\ busy \in todo
      /\ busy \in Parts \cup {"gpt"}
  BY DEF FinishPart, Updating, RollbackInv, TypeOK
<1>2. Level' = Level /\ (open' # 0) = (open # 0)
  BY <1>1 DEF Level, VER
<1>3. CASE busy = "gpt"
  BY <1>2, <1>3 DEF FinishPart, Upgrading!vars
<1>4. CASE busy # "gpt"
  <2>1. busy \in Parts /\ part' = [part EXCEPT ![busy] = v]
    BY <1>1, <1>4 DEF FinishPart
  <2>2. Level = v
    <3>1. busy # "none"
      BY DEF FinishPart
    <3>2. open = 0 => VER = v
      BY <1>1, <1>4, <3>1 DEF RollbackInv, OrderInv
    <3> QED
      BY <1>1, <3>2, LevelFacts DEF Level
  <2>3. Upgrading!Write
    BY <1>2, <2>1, <2>2 DEF Upgrading!Write, Upgrading!Put
  <2> QED
    BY <2>3 DEF Upgrading!Next
<1> QED
  BY <1>3, <1>4

LEMMA StepUpgrades ==
  ASSUME InPlace, RollbackInv, [Next]_vars PROVE [Upgrading!Next]_(Upgrading!vars)
<1>1. ASSUME UNCHANGED <<cells, part, open>> PROVE [Upgrading!Next]_(Upgrading!vars)
  BY <1>1 DEF Level, VER, Upgrading!vars
<1>2. ASSUME NEW d \in Dirs, Boot(d) PROVE UNCHANGED <<cells, part, open>>
  BY <1>2 DEF Boot, disk
<1>3. CASE Check \/ BackupEnv \/ BackupDone \/ Mark \/ PartsDone \/ RestoreEnv
  BY <1>1, <1>3 DEF Check, BackupEnv, BackupDone, Mark, PartsDone, RestoreEnv, disk
<1>4. CASE Unmark \/ CleanUp \/ ScriptFails \/ PowerCut \/ Reboot \/ UNCHANGED vars
  BY <1>1, <1>4 DEF Unmark, CleanUp, ScriptFails, PowerCut, Reboot, vars, disk
<1> QED
  BY <1>1, <1>2, <1>3, <1>4, VerUpgrades, StartUpgrades, FinishUpgrades DEF Next, Step

\* ota_check_rollback() and ota_update_all_in_recovery() implement Upgrade: an
\* upgrade begins from agreeing boot images, leads to a later version, and is over
\* when every partition has it; in between nothing else is written, whatever
\* packages there are and however often the power is cut.
THEOREM UpdateUpgrades == ASSUME InPlace PROVE Spec => UpgradesInSteps
<1>1. Init => Upgrading!Init
  <2> SUFFICES ASSUME Init PROVE VER = Base /\ open = 0 /\ part = [p \in Parts |-> Base]
    BY DEF Upgrading!Init, Level
  <2>1. Home["new"] = Home["old"] /\ Home["new"]["VER"] \in Cells
    BY DEF InPlace, Relocates, Layouts, Names
  <2> QED
    BY <2>1 DEF Init, VER, InPlace, Names
<1>2. RollbackInv /\ [Next]_vars => [Upgrading!Next]_(Upgrading!vars)
  BY StepUpgrades
<1> QED
  BY RollbackInvariant, <1>1, <1>2, PTL DEF Spec, UpgradesInSteps, Upgrading!Spec

-----------------------------------------------------------------------------
(* The u-boot environment of a jetson-tx2-devkit, in either layout.        *)

\* One work directory, or a layout that leaves the environment in its place.
EnvIsSafe == ~Relocates \/ \A d, e \in Dirs : d = e

\* An image that is not complete can still be made: the environment it is read
\* from is covered by the new GPT only after the image has its full size.
EnvInv == Board = "tx2" =>
    /\ env.old = "base" \/ Relocates
    /\ \A d \in Dirs : img[d] # "base" => img[d] \in {"none", "partial"} /\ env.old = "base"
    /\ pc = "envcopy" => env.old = "base"
    /\ pc \in Updating \cup {"unmark", "clean"} => img[dir] = "base"
    /\ pc \in {"ver", "verhalf", "unmark", "clean"} => env.new = "base"

EnvTypes ==
    /\ dir \in Dirs /\ img \in [Dirs -> Contents]
    /\ env \in [old : Contents, new : Contents]

LEMMA EnvStep ==
  ASSUME EnvIsSafe, EnvTypes, EnvInv, [Next]_vars
  PROVE  EnvTypes' /\ EnvInv'
<1> USE DEF EnvTypes, EnvInv, Updating, Contents, disk, Goto, Control
<1>1. ASSUME NEW d \in Dirs, Boot(d) PROVE EnvTypes' /\ EnvInv'
  BY <1>1 DEF Boot
<1>2. CASE Check
  BY <1>2 DEF Check
<1>3. CASE BackupEnv
  BY <1>3 DEF BackupEnv
<1>4. CASE BackupDone
  BY <1>4 DEF BackupDone
<1>5. CASE WriteVerB \/ WriteVerBDone \/ Mark \/ WriteVer \/ WriteVerDone
  BY <1>5 DEF WriteVerB, WriteVerBDone, Mark, WriteVer, WriteVerDone
<1>6. ASSUME NEW p \in Parts \cup {"gpt"}, StartPart(p) PROVE EnvTypes' /\ EnvInv'
  <2>1. UNCHANGED <<img, pc, dir>> /\ pc = "parts"
    BY <1>6 DEF StartPart
  <2>2. CASE env' = env
    BY <2>1, <2>2
  <2>3. CASE env' # env
    <3>1. Board \in {"tx2", "xavier", "nx"} /\ Relocates /\ env' = [old |-> "junk", new |-> env.new]
      BY <1>6, <2>3 DEF StartPart
    <3>2. \A d \in Dirs : img[d] = img[dir]
      BY <3>1 DEF EnvIsSafe
    <3> QED
      BY <2>1, <3>1, <3>2
  <2> QED
    BY <2>2, <2>3
<1>7. CASE FinishPart \/ PartsDone \/ Unmark \/ CleanUp
  BY <1>7 DEF FinishPart, PartsDone, Unmark, CleanUp
<1>8. CASE RestoreEnv
  BY <1>8 DEF RestoreEnv
<1>9. CASE ScriptFails \/ PowerCut \/ Reboot \/ UNCHANGED vars
  BY <1>9 DEF ScriptFails, PowerCut, Reboot, vars
<1> QED
  BY <1>1, <1>2, <1>3, <1>4, <1>5, <1>6, <1>7, <1>8, <1>9 DEF Next, Step

\* ota_backup_uboot_env() and its restore: on a jetson-tx2-devkit the update is
\* declared complete only with the environment of the base system in its new
\* place, wherever the update was cut and however often it was repeated.
THEOREM EnvAlwaysKept == ASSUME EnvIsSafe PROVE Spec => []EnvKept
<1>1. Init => EnvTypes /\ EnvInv
  BY DEF Init, EnvTypes, EnvInv, Contents, Updating
<1>2. EnvTypes /\ EnvInv /\ [Next]_vars => EnvTypes' /\ EnvInv'
  BY EnvStep
<1>3. EnvInv => EnvKept
  BY DEF EnvInv, EnvKept
<1> QED
  BY <1>1, <1>2, <1>3, PTL DEF Spec

-----------------------------------------------------------------------------
(* An update that was interrupted once, on any board and in any layout.    *)

\* One work directory, and not of the version that VER already has: the check takes
\* an interrupted reinstallation for a fresh update.
OneUpgrade ==
    /\ Split = {} /\ \A d, e \in Dirs : d = e
    /\ BaseHasVer /\ (\E n \in Names : Home["new"]["VER"] = Home["old"][n]) =>
           \A d \in Dirs : PkgOf[d] # Base

\* The package is older than the base system, which its VER says.
Outdated == BaseHasVer /\ v < Base

\* What the check lets pass of an update that has started.
Resumable == VER_b = v /\ (VER = v => SlotsAre(v))

\* An older package is refused at once.  Of another one: VER is not above its version,
\* and below it until the update ends; and where an update that has started may be cut
\* or taken up, VER_b and the partitions are as far as the check wants them.
ResumeInv ==
    IF Outdated
    THEN /\ pc \in {"off", "check", "shell", "failed"} /\ marker = {} /\ gpt = "old"
         /\ \A n \in Names : cells[Home["old"][n]] = Base
    ELSE /\ VER <= v /\ (pc # "off" => packs # {}) /\ (pc = "restore" => ~Erases)
         /\ pc \in {"mark", "parts", "restore", "ver", "verhalf", "unmark"} => VER_b = v
         /\ pc = "parts" => \A p \in Parts \ todo : part[p] = v
         /\ pc \in {"restore", "ver", "verhalf", "unmark"} => \A p \in Parts : part[p] = v
         /\ pc = "clean" => dir \notin marker
         /\ faults = 0 =>
              /\ packs # {} /\ pc \notin {"unmark", "clean"} => VER < v
              /\ dir \in marker /\ pc \in {"env", "envcopy", "verb", "verbhalf", "mark"} =>
                   VER_b = v /\ ~Erases
              /\ dir \in marker /\ pc \in {"off", "check", "shell", "failed"} => ~Erases
         /\ faults <= 1 /\ dir \in marker /\ pc \in {"off", "check", "shell", "failed"} => Resumable

ResumeTypes ==
    /\ cells \in [Cells -> Nat] /\ part \in [Parts -> Nat] /\ faults \in Nat
    /\ dir \in Dirs /\ marker \subseteq Dirs /\ packs \subseteq Dirs
    /\ todo \subseteq Parts \cup {"gpt"} /\ busy \in todo \cup {"none"} /\ pc \in Labels

LEMMA ResumeStart == OneUpgrade /\ Init => ResumeTypes /\ ResumeInv
<1> SUFFICES ASSUME OneUpgrade, Init PROVE ResumeTypes /\ ResumeInv
  OBVIOUS
<1>1. v \in Nat \ {0}
  BY DEF Init, v
<1>2. ResumeTypes
  BY DEF Init, ResumeTypes, Labels
<1>3. \A n \in Names : Home["old"][n] \in Cells /\ Home["new"][n] \in Cells
  BY DEF Layouts
<1>4. VER \in {0, Base} /\ (VER = Base => BaseHasVer /\ v # Base)
  BY <1>3 DEF Init, VER, OneUpgrade, v, Names
<1>5. ASSUME BaseHasVer PROVE \A n \in Names : cells[Home["old"][n]] = Base
  BY <1>3, <1>5 DEF Init
<1> QED
  BY <1>1, <1>2, <1>4, <1>5 DEF Init, ResumeInv, Outdated

\* Every step works on the one directory there is, and none on its version.
LEMMA OneVersion ==
  ASSUME OneUpgrade, ResumeTypes, [Next]_vars
  PROVE  /\ dir' = dir /\ v' = v /\ v \in Nat \ {0} /\ (Outdated <=> Outdated')
         /\ \A d \in Dirs : d = dir
<1>1. dir' \in Dirs
  BY DEF ResumeTypes, Next, Step, Boot, Check, BackupEnv, BackupDone, WriteVerB, WriteVerBDone, Mark,
     StartPart, FinishPart, PartsDone, RestoreEnv, WriteVer, WriteVerDone, Unmark, CleanUp,
     ScriptFails, PowerCut, Reboot, Control, vars
<1> QED
  BY <1>1 DEF OneUpgrade, ResumeTypes, v, Outdated

\* The update script overwrites no cell of the new layout.
LEMMA NewCellsKept ==
  ASSUME ResumeTypes, NEW p, Overwrites(p)
  PROVE  VER' = VER /\ VER_b' = VER_b /\ cells' \in [Cells -> Nat]
<1>1. \A n \in Names : Home["new"][n] \in Cells
  BY DEF Layouts
<1> QED
  BY <1>1 DEF ResumeTypes, Overwrites, VER, VER_b, Names

\* The two writes of write_ver(), in any layout and on any board.
LEMMA NewCellsWritten ==
  ASSUME ResumeTypes, v \in Nat
  PROVE  /\ VER \in Nat /\ VER_b \in Nat
         /\ BeginWrite("VER_b") => /\ cells' \in [Cells -> Nat] /\ VER' = VER
                                  /\ VER_b' = IF VER_b = v /\ ~Erases THEN v ELSE 0
         /\ EndWrite("VER_b") => cells' \in [Cells -> Nat] /\ VER' = VER /\ VER_b' = v
         /\ BeginWrite("VER") => /\ cells' \in [Cells -> Nat] /\ VER_b' = VER_b
                                /\ VER' = IF VER = v /\ ~Erases THEN v ELSE 0
         /\ EndWrite("VER") => cells' \in [Cells -> Nat] /\ VER_b' = VER_b /\ VER' = v
<1>1. /\ Home["new"]["VER"] \in Cells /\ Home["new"]["VER_b"] \in Cells
      /\ Home["new"]["VER"] # Home["new"]["VER_b"]
  BY DEF Layouts, Names
<1> QED
  BY <1>1, SMTT(60) DEF ResumeTypes, VER, VER_b, BeginWrite, EndWrite, HalfWritten

LEMMA ResumeTypeStep ==
  ASSUME OneUpgrade, ResumeTypes, [Next]_vars PROVE ResumeTypes'
<1> USE DEF ResumeTypes, Labels, disk, Goto, Control
<1>1. v \in Nat
  BY OneVersion
<1>2. ASSUME NEW d \in Dirs, Boot(d) PROVE ResumeTypes'
  BY <1>2 DEF Boot
<1>3. CASE Check \/ BackupEnv \/ BackupDone
  BY <1>3 DEF Check, BackupEnv, BackupDone
<1>4. CASE WriteVerB \/ WriteVerBDone \/ WriteVer \/ WriteVerDone
  <2>1. cells' \in [Cells -> Nat]
    BY <1>1, <1>4, NewCellsWritten DEF WriteVerB, WriteVerBDone, WriteVer, WriteVerDone
  <2> QED
    BY <1>4, <2>1 DEF WriteVerB, WriteVerBDone, WriteVer, WriteVerDone
<1>5. CASE Mark \/ PartsDone \/ RestoreEnv \/ Unmark \/ CleanUp
  BY <1>5 DEF Mark, PartsDone, RestoreEnv, Unmark, CleanUp
<1>6. ASSUME NEW p \in Parts \cup {"gpt"}, StartPart(p) PROVE ResumeTypes'
  <2>1. cells' \in [Cells -> Nat] /\ p \in todo /\ part' \in [Parts -> Nat]
    BY <1>6, NewCellsKept DEF StartPart
  <2> QED
    BY <1>6, <2>1 DEF StartPart
<1>7. CASE FinishPart
  <2>1. part' \in [Parts -> Nat]
    BY <1>1, <1>7 DEF FinishPart
  <2> QED
    BY <1>7, <2>1 DEF FinishPart
<1>8. CASE ScriptFails \/ PowerCut \/ Reboot \/ UNCHANGED vars
  BY <1>8 DEF ScriptFails, PowerCut, Reboot, vars
<1> QED
  BY <1>2, <1>3, <1>4, <1>5, <1>6, <1>7, <1>8 DEF Next, Step

\* An older package gets no further than the check.
LEMMA OutdatedStep ==
  ASSUME OneUpgrade, ResumeTypes, ResumeInv, Outdated, [Next]_vars PROVE ResumeInv'
<1> USE DEF ResumeInv, disk, Goto, Control
<1>1. Outdated' /\ dir \in Dirs
  BY OneVersion DEF ResumeTypes
<1>2. ASSUME NEW d \in Dirs, Boot(d) PROVE ResumeInv'
  BY <1>1, <1>2 DEF Boot
<1>3. CASE Check
  <2>1. Found(dir) /\ LayoutUsed(dir) = "old"
    BY DEF Found, LayoutUsed, Outdated
  <2>2. Number(dir, "VER") = Base /\ Number(dir, "VER_b") = Base
    BY <2>1 DEF Number, CellOf, Names
  <2>3. ~ReadFails(dir) /\ ~Accepts(dir, Base, Base)
    BY <1>1 DEF ReadFails, OneUpgrade, Accepts, Outdated, v
  <2> QED
    BY <1>1, <1>3, <2>2, <2>3 DEF Check
<1>4. CASE PowerCut \/ Reboot
  BY <1>1, <1>4 DEF PowerCut, Reboot
<1>5. CASE UNCHANGED vars
  BY <1>1, <1>5 DEF vars
<1>6. pc \in {"off", "check", "shell", "failed"}
  OBVIOUS
<1>7. \/ \E d \in Dirs : Boot(d)
      \/ Check \/ PowerCut \/ Reboot \/ UNCHANGED vars
  BY <1>6 DEF Next, Step, BackupEnv, BackupDone, WriteVerB, WriteVerBDone, Mark,
     StartPart, FinishPart, PartsDone, RestoreEnv, WriteVer, WriteVerDone, Unmark, CleanUp, ScriptFails
<1> QED
  BY <1>2, <1>3, <1>4, <1>5, <1>7

\* What the check makes of an update that has started.
LEMMA ResumableAccepted ==
  ASSUME OneUpgrade, ResumeTypes, dir \in marker, Resumable, VER <= v, v \in Nat \ {0}
  PROVE  Accepts(dir, Number(dir, "VER"), Number(dir, "VER_b"))
<1>1. LayoutUsed(dir) = "new" /\ Found(dir)
  BY DEF LayoutUsed, Found
<1>2. Number(dir, "VER") = VER /\ Number(dir, "VER_b") = VER_b
  BY <1>1 DEF Number, CellOf, VER, VER_b
<1>3. VER \in Nat /\ VER_b \in Nat
  BY NewCellsWritten
<1> QED
  BY <1>2, <1>3 DEF Resumable, Accepts, SlotsAgree, SlotsAre, v

LEMMA ResumeStep ==
  ASSUME OneUpgrade, ResumeTypes, ResumeInv, ~Outdated, [Next]_vars PROVE ResumeInv'
<1> USE DEF disk, Goto, Control
<1>1. /\ dir' = dir /\ v' = v /\ v \in Nat \ {0} /\ ~Outdated /\ ~Outdated'
      /\ dir \in Dirs /\ \A d \in Dirs : d = dir
  BY OneVersion DEF ResumeTypes
<1>2. VER \in Nat /\ VER_b \in Nat /\ part \in [Parts -> Nat] /\ faults \in Nat
  BY <1>1, NewCellsWritten DEF ResumeTypes
<1>3. ASSUME UNCHANGED cells PROVE VER' = VER /\ VER_b' = VER_b
  BY <1>3 DEF VER, VER_b
<1>4. ASSUME UNCHANGED <<cells, part>> PROVE Resumable' <=> Resumable
  BY <1>1, <1>3, <1>4 DEF Resumable, SlotsAre
<1>5. ASSUME NEW d \in Dirs, Boot(d) PROVE ResumeInv'
  BY <1>1, <1>3, <1>4, <1>5 DEF Boot, ResumeInv
<1>6. CASE Check
  BY <1>1, <1>3, <1>4, <1>6 DEF Check, ResumeInv, Resumable
<1>7. CASE BackupEnv \/ BackupDone
  BY <1>1, <1>3, <1>4, <1>7 DEF BackupEnv, BackupDone, ResumeInv
<1>8. CASE WriteVerB
  <2>1. VER' = VER /\ VER_b' = IF VER_b = v /\ ~Erases THEN v ELSE 0
    BY <1>1, <1>8, NewCellsWritten DEF WriteVerB
  <2> QED
    BY <1>1, <1>2, <1>8, <2>1 DEF WriteVerB, ResumeInv
<1>9. CASE WriteVerBDone
  <2>1. VER' = VER /\ VER_b' = v
    BY <1>1, <1>9, NewCellsWritten DEF WriteVerBDone
  <2> QED
    BY <1>1, <1>2, <1>9, <2>1 DEF WriteVerBDone, ResumeInv
<1>10. CASE Mark
  BY <1>1, <1>3, <1>10 DEF Mark, ResumeInv
<1>11. ASSUME NEW p \in Parts \cup {"gpt"}, StartPart(p) PROVE ResumeInv'
  <2>1. VER' = VER /\ VER_b' = VER_b /\ p \in todo /\ pc = "parts"
        /\ UNCHANGED <<marker, packs, pc, todo, faults>>
    BY <1>11, NewCellsKept DEF StartPart
  <2>2. \A q \in Parts \ todo : part'[q] = part[q]
    BY <1>2, <1>11, <2>1 DEF StartPart
  <2> QED
    BY <1>1, <2>1, <2>2 DEF ResumeInv
<1>12. CASE FinishPart
  <2>1. VER' = VER /\ VER_b' = VER_b /\ pc = "parts" /\ todo' = todo \ {busy}
        /\ UNCHANGED <<marker, packs, pc, faults>>
    BY <1>3, <1>12 DEF FinishPart
  <2>2. \A q \in Parts \ todo' : part'[q] = v
    BY <1>1, <1>2, <1>12, <2>1, RestAssumption DEF FinishPart, ResumeInv, Parts, Slots
  <2> QED
    BY <1>1, <2>1, <2>2 DEF ResumeInv
<1>13. CASE PartsDone
  BY <1>1, <1>3, <1>13 DEF PartsDone, ResumeInv, Erases
<1>14. CASE RestoreEnv
  <2>1. SlotsAre(v) /\ VER_b = v /\ ~Erases
    BY <1>14 DEF RestoreEnv, ResumeInv, SlotsAre, Parts, Slots
  <2> QED
    BY <1>1, <1>3, <1>4, <1>14, <2>1 DEF RestoreEnv, ResumeInv, Resumable
<1>15. CASE WriteVer
  <2>1. VER_b' = VER_b /\ VER' = IF VER = v /\ ~Erases THEN v ELSE 0
    BY <1>1, <1>15, NewCellsWritten DEF WriteVer
  <2> QED
    BY <1>1, <1>2, <1>15, <2>1 DEF WriteVer, ResumeInv
<1>16. CASE WriteVerDone
  <2>1. VER_b' = VER_b /\ VER' = v
    BY <1>1, <1>16, NewCellsWritten DEF WriteVerDone
  <2> QED
    BY <1>1, <1>2, <1>16, <2>1 DEF WriteVerDone, ResumeInv
<1>17. CASE Unmark
  BY <1>1, <1>3, <1>17 DEF Unmark, ResumeInv
<1>18. CASE CleanUp
  <2>1. packs' = {}
    BY <1>1, <1>18 DEF CleanUp, ResumeTypes
  <2> QED
    BY <1>1, <1>3, <1>18, <2>1 DEF CleanUp, ResumeInv
<1>19. CASE ScriptFails \/ PowerCut
  <2>1. pc' \in {"off", "failed"} /\ faults' = faults + 1 /\ UNCHANGED <<cells, part, marker, packs>>
        /\ pc \notin {"off", "shell", "failed"}
    BY <1>19 DEF ScriptFails, PowerCut
  <2>2. ASSUME faults = 0, dir \in marker PROVE Resumable
    <3>1. pc \in {"check", "env", "envcopy", "verb", "verbhalf", "mark", "parts", "restore", "ver",
                  "verhalf", "unmark"}
      BY <1>1, <2>1, <2>2 DEF ResumeInv, ResumeTypes, Labels
    <3>2. CASE pc = "check"
      BY <1>1, <2>2, <3>2 DEF ResumeInv
    <3>3. CASE pc \in {"env", "envcopy", "verb", "verbhalf", "mark", "parts"}
      <4>1. VER_b = v /\ VER < v
        BY <1>1, <2>2, <3>3 DEF ResumeInv
      <4> QED
        BY <1>1, <1>2, <4>1 DEF Resumable
    <3>4. CASE pc \in {"restore", "ver", "verhalf", "unmark"}
      BY <1>1, <2>2, <3>4 DEF ResumeInv, Resumable, SlotsAre, Parts, Slots
    <3> QED
      BY <3>1, <3>2, <3>3, <3>4
  <2> QED
    BY <1>1, <1>2, <1>3, <1>4, <2>1, <2>2 DEF ResumeInv
<1>20. CASE Reboot \/ UNCHANGED vars
  BY <1>1, <1>3, <1>4, <1>20 DEF Reboot, vars, ResumeInv
<1> QED
  BY <1>5, <1>6, <1>7, <1>8, <1>9, <1>10, <1>11, <1>12, <1>13, <1>14, <1>15, <1>16, <1>17, <1>18,
     <1>19, <1>20 DEF Next, Step

\* ota_check_rollback() never refuses the package whose update was interrupted, on
\* eMMC and QSPI, and whether VER and VER_b stay in place or move; for one fault.
THEOREM MarkedAlwaysResumed == ASSUME OneUpgrade PROVE Spec => MarkedIsResumed
<1>1. ResumeTypes /\ ResumeInv /\ [Next]_vars => ResumeTypes' /\ ResumeInv'
  BY ResumeTypeStep, OutdatedStep, ResumeStep
<1>2. ResumeTypes /\ ResumeInv /\ [Next]_vars =>
        [pc = "check" /\ dir \in marker /\ faults <= 1 => pc' # "shell"]_vars
  <2> SUFFICES ASSUME ResumeTypes, ResumeInv, Next, pc = "check", dir \in marker, faults <= 1
               PROVE  pc' # "shell"
    OBVIOUS
  <2>1. Accepts(dir, Number(dir, "VER"), Number(dir, "VER_b"))
    <3>1. v \in Nat \ {0} /\ ~Outdated
      BY OneVersion DEF ResumeInv
    <3> QED
      BY <3>1, ResumableAccepted DEF ResumeInv
  <2>2. Check \/ PowerCut
    BY DEF Next, Step, Boot, BackupEnv, BackupDone, WriteVerB, WriteVerBDone, Mark, StartPart,
       FinishPart, PartsDone, RestoreEnv, WriteVer, WriteVerDone, Unmark, CleanUp, ScriptFails, Reboot
  <2> QED
    BY <2>1, <2>2 DEF Check, PowerCut, Control, Goto
<1> QED
  BY ResumeStart, <1>1, <1>2, PTL DEF Spec, MarkedIsResumed
-----------------------------------------------------------------------------
(* OtaRecovery for any retry limit and any number of faults, when the      *)
(* bootloader takes an invalid kernel-bootctrl as the normal kernel.  What *)
(* its recovery kernel updates is the subject of OtaRollback.              *)

USE CountsAssumption

LEMMA RecoveryInitInv == RecoveryInit => RecoveryInv
  BY SMTT(30) DEF RecoveryInit, RecoveryInv, RecoveryTypeOK, SlotInv, SelectInv, WrittenInv, CountInv, CleanedIsWhole,
         Setups, Images, NoFile, Empty, Writing, InTasks, Closing

LEMMA RecoveryStepInv ==
  ASSUME BadBoots = "normal", RecoveryInv, [RecoveryNext]_recoveryVars
  PROVE  RecoveryInv'
<1> USE DEF RecoveryInv, RecoveryTypeOK, SlotInv, SelectInv, WrittenInv, CountInv, CleanedIsWhole,
            Setups, Images, NoFile, Empty, Writing, InTasks, Closing, MoveTo, Fault,
            boot, storage, hist
<1>1. CASE BeginBase
  BY <1>1 DEF BeginBase
<1>2. CASE WriteImage
  BY <1>2 DEF WriteImage
<1>3. CASE WriteDtb
  BY <1>3 DEF WriteDtb
<1>4. CASE ActivateA
  BY <1>4 DEF ActivateA
<1>5. CASE WriteKernelBootctrl
  BY <1>5 DEF WriteKernelBootctrl
<1>6. CASE BootKernel
  BY <1>6 DEF BootKernel, Kernel
<1>7. CASE Enter
  BY <1>7 DEF Enter
<1>8. CASE EnableRemoteAccess
  BY <1>8 DEF EnableRemoteAccess
<1>9. CASE BeginRootfs
  BY <1>9 DEF BeginRootfs
<1>10. CASE EndRootfs
  BY <1>10 DEF EndRootfs
<1>11. CASE ForceBootingToNormal
  BY <1>11 DEF ForceBootingToNormal
<1>12. CASE UpdateRecoveryImage
  BY <1>12 DEF UpdateRecoveryImage
<1>13. CASE UpdateRecoveryDtb
  BY <1>13 DEF UpdateRecoveryDtb
<1>14. CASE CleanUpTasks
  <2>1. CleanedIsWhole'
    BY <1>14, Zenon DEF CleanUpTasks
  <2>2. RecoveryTypeOK' /\ CountInv'
    <3>1. work' \in BOOLEAN
      BY <1>14, Zenon DEF CleanUpTasks
    <3>2. UNCHANGED <<setup, image, dtb, active, bootctrl, rootfs, losses>> /\ place' = "off"
      BY <1>14 DEF CleanUpTasks
    <3>3. count' = NoFile /\ reboots' = 0
      BY <1>14 DEF CleanUpTasks
    <3> QED
      BY <3>1, <3>2, <3>3
  <2>3. SlotInv' /\ SelectInv'
    BY <1>14 DEF CleanUpTasks
  <2>4. WrittenInv'
    BY <1>14 DEF CleanUpTasks
  <2> QED
    BY <2>1, <2>2, <2>3, <2>4 DEF RecoveryInv
<1>15. CASE GiveUp
  BY <1>15 DEF GiveUp, MayRetry, Retries
<1>16. CASE Retry
  BY <1>16 DEF Retry, MayRetry, Retries
<1>17. CASE PowerLoss
  BY <1>17 DEF PowerLoss, MayRetry
<1>18. CASE LeaveShell
  BY <1>18 DEF LeaveShell
<1>19. CASE UNCHANGED recoveryVars
  BY <1>19 DEF recoveryVars
<1> QED
  BY <1>1, <1>2, <1>3, <1>4, <1>5, <1>6, <1>7, <1>8, <1>9, <1>10, <1>11, <1>12, <1>13, <1>14, <1>15, <1>16, <1>17, <1>18, <1>19 DEF RecoveryNext, Device

\* The invariant that carries the others holds in every reachable state.
THEOREM RecoveryInvariant == ASSUME BadBoots = "normal" PROVE RecoverySpec => []RecoveryInv
  BY RecoveryInitInv, RecoveryStepInv, PTL DEF RecoverySpec

\* Whenever the power is cut, the device boots a kernel that is whole and finds
\* what it needs.
THEOREM DeviceAlwaysBoots == ASSUME BadBoots = "normal" PROVE RecoverySpec => []AlwaysBoots
<1>1. RecoveryInv => AlwaysBoots
  BY DEF RecoveryInv, RecoveryTypeOK, SlotInv, SelectInv, AlwaysBoots, Kernel
<1> QED
  BY <1>1, RecoveryInvariant, PTL

\* The work directory is removed only from a device that is updated.
THEOREM CleanUpComesLast == ASSUME BadBoots = "normal" PROVE RecoverySpec => []CleanedIsWhole
<1>1. RecoveryInv => CleanedIsWhole
  BY DEF RecoveryInv
<1> QED
  BY <1>1, RecoveryInvariant, PTL

\* No sequence of failures and power cuts makes more retries than the limit.
THEOREM RetriesAreBounded == ASSUME BadBoots = "normal" PROVE RecoverySpec => []RetryBounded
<1>1. RecoveryInv => RetryBounded
  BY DEF RecoveryInv, RecoveryTypeOK, CountInv, RetryBounded, NoFile, Empty
<1> QED
  BY <1>1, RecoveryInvariant, PTL
=============================================================================
