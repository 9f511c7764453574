-------------------------- MODULE MassFlashProofs --------------------------
EXTENDS MassFlash, TLAPS

Pcs == {"boot", "list", "look", "ssh", "flash", "reboot", "exit", "ok", "fail"}
Ats == {"gpt", "probe", "app", "untar", "wait", "open", "dd", "ok", "fail"}

\* A disk is a device and a kind; no disk is none.
LEMMA DiskParts ==
  /\ \A d \in Disks : d[1] \in Targets /\ d[2] \in Kinds /\ d = <<d[1], d[2]>> /\ d # NoDisk
  /\ \A t \in Targets, k \in Kinds : <<t, k>> \in Disks /\ <<t, k>> # NoDisk
  /\ \A p \in Procs, k \in Kinds : <<p, k>> \in Writers
  BY DEF Disks, NoDisk, Writers

LEMMA BlockType ==
  ASSUME TypeOK, NEW n
  PROVE  /\ Block(n) \in Disks \cup {NoDisk}
         /\ Block(n) # NoDisk => n \in Names /\ dev[n] = "block" /\ sd[n] = Block(n)
  BY DEF Block, TypeOK

\* The types that the parts of the actions leave.
LEMMA GotoType ==
  ASSUME TypeOK, NEW p \in Procs, NEW l, NEW m \in Pcs, Goto(p, l, m)
  PROVE  pc' \in [Procs -> Pcs]
  BY DEF TypeOK, Goto, Pcs

LEMMA ExitType ==
  ASSUME TypeOK, NEW p \in Procs, NEW l, NEW m \in Pcs, Exit(p, l, m)
  PROVE  pc' \in [Procs -> Pcs] /\ dev' \in [Names -> {"none", "block", "file"}]
<1>1. pc' \in [Procs -> Pcs]
  BY GotoType DEF Exit
<1>2. dev' \in [Names -> {"none", "block", "file"}]
  BY DEF TypeOK, Exit
<1> QED
  BY <1>1, <1>2

LEMMA StepType ==
  ASSUME TypeOK, NEW p \in Procs, NEW k \in Kinds, NEW l, NEW m \in Ats,
         Step(p, k, l, m) \/ AllWriters(p, m)
  PROVE  at' \in [Writers -> Ats]
<1>1. CASE Step(p, k, l, m)
  BY <1>1, DiskParts DEF TypeOK, Step, Ats
<1>2. CASE AllWriters(p, m)
  BY <1>2 DEF TypeOK, AllWriters, Ats
<1> QED
  BY <1>1, <1>2

LEMMA OpenType ==
  ASSUME TypeOK, NEW p \in Procs, NEW k \in Kinds, NEW part \in {"gpt", "app", "part"},
         Open(p, k, part) \/ Written(p, k, part)
  PROVE  /\ disk' \in [Disks -> SUBSET {"gpt", "app", "part"}]
         /\ on' \in [Writers -> Disks \cup {NoDisk}]
<1>1. CASE Open(p, k, part)
  BY <1>1, BlockType, DiskParts, ZenonT(60) DEF TypeOK, Open
<1>2. CASE Written(p, k, part)
  BY <1>2, DiskParts DEF TypeOK, Written
<1> QED
  BY <1>1, <1>2

LEMMA DetachType ==
  ASSUME TypeOK, NEW t \in Targets, Detach(t)
  PROVE  /\ sd' \in [Names -> Disks \cup {NoDisk}]
         /\ on' \in [Writers -> Disks \cup {NoDisk}]
         /\ [n \in Names |-> NodesWithout(t, n)] \in [Names -> {"none", "block", "file"}]
  BY DEF TypeOK, Detach, NodesWithout

LEMMA TypeStep ==
  ASSUME TypeOK, Next \/ UNCHANGED vars
  PROVE  TypeOK'
<1>1. ASSUME NEW t \in Targets, NEW k \in Kinds, Attach(t, k)
     PROVE  TypeOK'
  BY <1>1, DiskParts DEF Attach, TypeOK, bus, media, search, jobs, main, hist, Pcs, Ats
<1>2. ASSUME NEW t \in Targets, Drop(t)
     PROVE  TypeOK'
  <2>1. /\ sd' \in [Names -> Disks \cup {NoDisk}]
       /\ on' \in [Writers -> Disks \cup {NoDisk}]
       /\ dev' \in [Names -> {"none", "block", "file"}]
    BY <1>2, DetachType DEF Drop
  <2>2. /\ lost' \subseteq Targets
       /\ faults' \in Nat
    BY <1>2 DEF Drop, TypeOK
  <2>3. UNCHANGED <<target, says, spoilt, media, pc, search, at, qjob, main>>
    BY <1>2 DEF Drop
  <2> QED
    BY <2>1, <2>2, <2>3 DEF TypeOK, bus, media, search, jobs, main, hist, Pcs, Ats
<1>3. ASSUME NEW p \in Procs, NEW k \in Kinds, WriteError(p, k)
     PROVE  TypeOK'
  <2>1. on' \in [Writers -> Disks \cup {NoDisk}]
    BY <1>3, DiskParts DEF WriteError, TypeOK
  <2>2. /\ spoilt' \subseteq Disks
       /\ faults' \in Nat
    BY <1>3, DiskParts DEF WriteError, TypeOK
  <2>3. UNCHANGED <<target, says, sd, dev, lost, media, pc, search, at, qjob, main>>
    BY <1>3 DEF WriteError
  <2> QED
    BY <2>1, <2>2, <2>3 DEF TypeOK, bus, media, search, jobs, main, hist, Pcs, Ats
<1>4. ASSUME NEW p \in Procs, BootInitrd(p)
     PROVE  TypeOK'
  <2>1. /\ pc' \in [Procs -> Pcs]
       /\ dev' \in [Names -> {"none", "block", "file"}]
    BY <1>4, GotoType, ExitType DEF BootInitrd, Pcs, TypeOK
  <2>2. /\ target' \in [Targets -> {"rcm", "initrd", "gone"}]
       /\ says' \in [Targets -> Instances \cup {Nobody}]
    BY <1>4, ProcsAssumption DEF BootInitrd, TypeOK
  <2>3. UNCHANGED <<sd, hist, media, search, jobs, main>>
    BY <1>4 DEF BootInitrd
  <2> QED
    BY <2>1, <2>2, <2>3 DEF TypeOK, bus, media, search, jobs, main, hist, Pcs, Ats
<1>5. ASSUME NEW p \in Procs, List(p)
     PROVE  TypeOK'
  <2>1. pc' \in [Procs -> Pcs]
    BY <1>5, GotoType, ExitType DEF List, Pcs
  <2>3. todo' \in [Procs -> SUBSET Names]
    BY <1>5 DEF List, TypeOK
  <2>2. UNCHANGED <<bus, media, polls, held, serial, sshcon, jobs, main>>
    BY <1>5 DEF List
  <2> QED
    BY <2>1, <2>2, <2>3 DEF TypeOK, bus, media, search, jobs, main, hist, Pcs, Ats
<1>6. ASSUME NEW p \in Procs, NEW n \in Names, Look(p, n)
     PROVE  TypeOK'
  BY <1>6, BlockType, DiskParts DEF Look, Mine, TypeOK, bus, media, search, jobs, main, hist, Pcs, Ats
<1>7. ASSUME NEW p \in Procs, LookAtNothing(p)
     PROVE  TypeOK'
  <2>1. /\ pc' \in [Procs -> Pcs]
       /\ dev' \in [Names -> {"none", "block", "file"}]
    BY <1>7, GotoType, ExitType DEF LookAtNothing, Pcs, TypeOK
  <2>2. UNCHANGED <<target, says, sd, hist, media, search, jobs, main>>
    BY <1>7 DEF LookAtNothing
  <2> QED
    BY <2>1, <2>2 DEF TypeOK, bus, media, search, jobs, main, hist, Pcs, Ats
<1>8. ASSUME NEW p \in Procs, KeepLooking(p)
     PROVE  TypeOK'
  <2>1. /\ pc' \in [Procs -> Pcs]
       /\ dev' \in [Names -> {"none", "block", "file"}]
    BY <1>8, GotoType, ExitType DEF KeepLooking, Poll, Pcs, TypeOK
  <2>2. polls' \in [Procs -> Nat]
    BY <1>8 DEF KeepLooking, Poll, TypeOK
  <2>3. UNCHANGED <<target, says, sd, hist, media, todo, held, serial, sshcon, jobs, main>>
    BY <1>8 DEF KeepLooking, Poll
  <2> QED
    BY <2>1, <2>2, <2>3 DEF TypeOK, bus, media, search, jobs, main, hist, Pcs, Ats
<1>9. ASSUME NEW p \in Procs, ReadSerial(p)
     PROVE  TypeOK'
  <2>1. /\ pc' \in [Procs -> Pcs]
       /\ dev' \in [Names -> {"none", "block", "file"}]
    BY <1>9, GotoType, ExitType DEF ReadSerial, Pcs, TypeOK
  <2>2. polls' \in [Procs -> Nat]
    BY <1>9 DEF ReadSerial, TypeOK
  <2>3. serial' \in [Procs -> {SerialOf[t] : t \in Targets} \cup {Nobody}]
    <3> DEFINE d == Block(held[<<p, "mmc0">>])
    <3>1. (d = NoDisk \/ d \in Disks) /\ (d # NoDisk => d[1] \in Targets)
      BY BlockType, DiskParts
    <3>2. serial' = serial \/ (d # NoDisk /\ serial' = [serial EXCEPT ![p] = SerialOf[d[1]]])
      BY <1>9 DEF ReadSerial
    <3> HIDE DEF d
    <3> QED
      BY <3>1, <3>2 DEF TypeOK
  <2>4. UNCHANGED <<target, says, sd, hist, media, todo, held, sshcon, jobs, main>>
    BY <1>9 DEF ReadSerial
  <2> QED
    BY <2>1, <2>2, <2>3, <2>4 DEF TypeOK, bus, media, search, jobs, main, hist, Pcs, Ats
<1>10. ASSUME NEW p \in Procs, PingDevice(p)
     PROVE  TypeOK'
  <2>1. pc' \in [Procs -> Pcs]
    BY <1>10, GotoType, ExitType DEF PingDevice, Pcs
  <2>2. sshcon' \in [Procs -> Targets \cup {Nobody}]
    BY <1>10 DEF PingDevice, Reachable, TypeOK
  <2>3. UNCHANGED <<bus, media, todo, polls, held, serial, jobs, main>>
    BY <1>10 DEF PingDevice
  <2> QED
    BY <2>1, <2>2, <2>3 DEF TypeOK, bus, media, search, jobs, main, hist, Pcs, Ats
<1>11. ASSUME NEW p \in Procs, NoAnswer(p)
     PROVE  TypeOK'
  <2>1. /\ pc' \in [Procs -> Pcs]
       /\ dev' \in [Names -> {"none", "block", "file"}]
    BY <1>11, GotoType, ExitType DEF NoAnswer, Poll, Pcs, TypeOK
  <2>2. polls' \in [Procs -> Nat]
    BY <1>11 DEF NoAnswer, Poll, TypeOK
  <2>3. UNCHANGED <<target, says, sd, hist, media, todo, held, serial, sshcon, jobs, main>>
    BY <1>11 DEF NoAnswer, Poll
  <2> QED
    BY <2>1, <2>2, <2>3 DEF TypeOK, bus, media, search, jobs, main, hist, Pcs, Ats
<1>12. ASSUME NEW p \in Procs, Partprobe(p)
     PROVE  TypeOK'
  <2>0. PICK k \in Kinds : TRUE
    BY KindsAssumption
  <2>1. at' \in [Writers -> Ats]
    BY <1>12, <2>0, StepType DEF Partprobe, Ats
  <2>2. UNCHANGED <<bus, media, pc, search, on, qjob, main>>
    BY <1>12 DEF Partprobe
  <2> QED
    BY <2>1, <2>2 DEF TypeOK, bus, media, search, jobs, main, hist, Pcs, Ats
<1>13. ASSUME NEW p \in Procs, NEW k \in Kinds, CreateGpt(p, k)
     PROVE  TypeOK'
  <2>1. at' \in [Writers -> Ats]
    BY <1>13, StepType DEF CreateGpt, Ats
  <2>2. disk' \in [Disks -> SUBSET {"gpt", "app", "part"}]
    <3> DEFINE d == Block(held[<<p, k>>])
    <3>1. d \in Disks \cup {NoDisk}
      BY BlockType
    <3>2. disk' = disk \/ (d # NoDisk /\ disk' = [disk EXCEPT ![d] = {"gpt"}])
      BY <1>13 DEF CreateGpt
    <3> HIDE DEF d
    <3> QED
      BY <3>1, <3>2 DEF TypeOK
  <2>3. UNCHANGED <<bus, qspi, pc, search, on, qjob, main>>
    BY <1>13 DEF CreateGpt
  <2> QED
    BY <2>1, <2>2, <2>3 DEF TypeOK, bus, media, search, jobs, main, hist, Pcs, Ats
<1>14. ASSUME NEW p \in Procs, NEW k \in Kinds, OpenApp(p, k)
     PROVE  TypeOK'
  <2>1. at' \in [Writers -> Ats]
    BY <1>14, StepType DEF OpenApp, Ats
  <2>2. /\ disk' \in [Disks -> SUBSET {"gpt", "app", "part"}]
       /\ on' \in [Writers -> Disks \cup {NoDisk}]
    BY <1>14, OpenType DEF OpenApp, TypeOK
  <2>3. dev' \in [Names -> {"none", "block", "file"}]
    BY <1>14 DEF OpenApp, TypeOK
  <2>4. UNCHANGED <<target, says, sd, hist, qspi, pc, search, qjob, main>>
    BY <1>14 DEF OpenApp
  <2> QED
    BY <2>1, <2>2, <2>3, <2>4 DEF TypeOK, bus, media, search, jobs, main, hist, Pcs, Ats
<1>15. ASSUME NEW p \in Procs, NEW k \in Kinds, CloseApp(p, k)
     PROVE  TypeOK'
  <2>1. at' \in [Writers -> Ats]
    BY <1>15, StepType DEF CloseApp, Ats
  <2>2. /\ disk' \in [Disks -> SUBSET {"gpt", "app", "part"}]
       /\ on' \in [Writers -> Disks \cup {NoDisk}]
    BY <1>15, OpenType DEF CloseApp, TypeOK
  <2>3. UNCHANGED <<bus, qspi, pc, search, qjob, main>>
    BY <1>15 DEF CloseApp
  <2> QED
    BY <2>1, <2>2, <2>3 DEF TypeOK, bus, media, search, jobs, main, hist, Pcs, Ats
<1>16. ASSUME NEW p \in Procs, NEW k \in Kinds, WaitForBlockDev(p, k)
     PROVE  TypeOK'
  <2>1. at' \in [Writers -> Ats]
    BY <1>16, StepType DEF WaitForBlockDev, Ats
  <2>2. UNCHANGED <<bus, media, pc, search, on, qjob, main>>
    BY <1>16 DEF WaitForBlockDev
  <2> QED
    BY <2>1, <2>2 DEF TypeOK, bus, media, search, jobs, main, hist, Pcs, Ats
<1>17. ASSUME NEW p \in Procs, NEW k \in Kinds, OpenPart(p, k)
     PROVE  TypeOK'
  <2>1. at' \in [Writers -> Ats]
    BY <1>17, StepType DEF OpenPart, Ats
  <2>2. /\ disk' \in [Disks -> SUBSET {"gpt", "app", "part"}]
       /\ on' \in [Writers -> Disks \cup {NoDisk}]
    BY <1>17, OpenType DEF OpenPart, TypeOK
  <2>3. dev' \in [Names -> {"none", "block", "file"}]
    BY <1>17 DEF OpenPart, TypeOK
  <2>4. UNCHANGED <<target, says, sd, hist, qspi, pc, search, qjob, main>>
    BY <1>17 DEF OpenPart
  <2> QED
    BY <2>1, <2>2, <2>3, <2>4 DEF TypeOK, bus, media, search, jobs, main, hist, Pcs, Ats
<1>18. ASSUME NEW p \in Procs, NEW k \in Kinds, ClosePart(p, k)
     PROVE  TypeOK'
  <2>1. at' \in [Writers -> Ats]
    BY <1>18, StepType DEF ClosePart, Ats
  <2>2. /\ disk' \in [Disks -> SUBSET {"gpt", "app", "part"}]
       /\ on' \in [Writers -> Disks \cup {NoDisk}]
    BY <1>18, OpenType DEF ClosePart, TypeOK
  <2>3. UNCHANGED <<bus, qspi, pc, search, qjob, main>>
    BY <1>18 DEF ClosePart
  <2> QED
    BY <2>1, <2>2, <2>3 DEF TypeOK, bus, media, search, jobs, main, hist, Pcs, Ats
<1>19. ASSUME NEW p \in Procs, BeginQspi(p)
     PROVE  TypeOK'
  BY <1>19, ZenonT(60) DEF BeginQspi, QspiStep, Up, TypeOK, bus, media, search, jobs, main, hist, Pcs, Ats
<1>20. ASSUME NEW p \in Procs, EndQspi(p)
     PROVE  TypeOK'
  BY <1>20, ZenonT(60) DEF EndQspi, QspiStep, Up, TypeOK, bus, media, search, jobs, main, hist, Pcs, Ats
<1>21. ASSUME NEW p \in Procs, WaitForJobs(p)
     PROVE  TypeOK'
  <2>1. /\ pc' \in [Procs -> Pcs]
       /\ dev' \in [Names -> {"none", "block", "file"}]
    BY <1>21, GotoType, ExitType DEF WaitForJobs, Pcs, TypeOK
  <2>2. UNCHANGED <<target, says, sd, hist, media, search, jobs, main>>
    BY <1>21 DEF WaitForJobs
  <2> QED
    BY <2>1, <2>2 DEF TypeOK, bus, media, search, jobs, main, hist, Pcs, Ats
<1>22. ASSUME NEW p \in Procs, RebootTarget(p)
     PROVE  TypeOK'
  <2>1. /\ sd' \in [Names -> Disks \cup {NoDisk}]
       /\ on' \in [Writers -> Disks \cup {NoDisk}]
       /\ dev' \in [Names -> {"none", "block", "file"}]
    BY <1>22, DetachType DEF RebootTarget, Up
  <2>2. /\ target' \in [Targets -> {"rcm", "initrd", "gone"}]
       /\ lost' \subseteq Targets
    BY <1>22 DEF RebootTarget, Up, TypeOK
  <2>3. pc' \in [Procs -> Pcs]
    BY <1>22, GotoType, ExitType DEF RebootTarget, Pcs
  <2>4. UNCHANGED <<says, spoilt, faults, media, search, at, qjob, main>>
    BY <1>22 DEF RebootTarget
  <2> QED
    BY <2>1, <2>2, <2>3, <2>4 DEF TypeOK, bus, media, search, jobs, main, hist, Pcs, Ats
<1>23. ASSUME NEW p \in Procs, RebootFailed(p)
     PROVE  TypeOK'
  <2>1. /\ pc' \in [Procs -> Pcs]
       /\ dev' \in [Names -> {"none", "block", "file"}]
    BY <1>23, GotoType, ExitType DEF RebootFailed, Pcs, TypeOK
  <2>2. UNCHANGED <<target, says, sd, hist, media, search, jobs, main>>
    BY <1>23 DEF RebootFailed
  <2> QED
    BY <2>1, <2>2 DEF TypeOK, bus, media, search, jobs, main, hist, Pcs, Ats
<1>24. ASSUME NEW p \in Procs, Success(p)
     PROVE  TypeOK'
  <2>1. /\ pc' \in [Procs -> Pcs]
       /\ dev' \in [Names -> {"none", "block", "file"}]
    BY <1>24, GotoType, ExitType DEF Success, Pcs, TypeOK
  <2>2. UNCHANGED <<target, says, sd, hist, media, search, jobs, main>>
    BY <1>24 DEF Success
  <2> QED
    BY <2>1, <2>2 DEF TypeOK, bus, media, search, jobs, main, hist, Pcs, Ats
<1>25. ASSUME NEW p \in Procs, Reap(p)
     PROVE  TypeOK'
  BY <1>25, DiskParts DEF Reap, TypeOK, bus, media, search, jobs, main, hist, Pcs, Ats
<1>26. CASE UNCHANGED vars
  BY <1>26 DEF vars, TypeOK, bus, media, search, jobs, main, hist
<1> QED
  BY <1>1, <1>2, <1>3, <1>4, <1>5, <1>6, <1>7, <1>8, <1>9, <1>10, <1>11, <1>12, <1>13,
     <1>14, <1>15, <1>16, <1>17, <1>18, <1>19, <1>20, <1>21, <1>22, <1>23, <1>24, <1>25,
     <1>26 DEF Next, Bus, Process, Write
LEMMA InitInv == Apart /\ Init => MassFlashInv
<1> SUFFICES ASSUME Apart, Init PROVE MassFlashInv
  OBVIOUS
<1>1. TypeOK
  BY ProcsAssumption DEF Init, TypeOK
<1>2. BootInv
  BY <1>1, ProcsAssumption, DiskParts DEF Init, BootInv, TypeOK
<1>3. SearchInv
  BY <1>1, DiskParts DEF Init, SearchInv, Finds, TypeOK
<1>4. FlashInv
  BY <1>1, DiskParts DEF Init, FlashInv, Holds, JobsOk, TypeOK
<1>5. ReapInv
  BY DEF Init, ReapInv
<1> QED
  BY <1>1, <1>2, <1>3, <1>4, <1>5 DEF MassFlashInv

-----------------------------------------------------------------------------
(* What processes do to each other.                                        *)

\* p moves from l to m, and the files it may remove were not block devices.
Moves(p, l, m) ==
    /\ Goto(p, l, m)
    /\ dev' \in [Names -> {"none", "block", "file"}]
    /\ \A n \in Names : dev'[n] = "block" <=> dev[n] = "block"

LEMMA ExitMoves ==
  ASSUME TypeOK, NEW p \in Procs, NEW l, NEW m, Exit(p, l, m)
  PROVE  Moves(p, l, m)
  BY DEF TypeOK, Exit, Moves

LEMMA GotoMoves ==
  ASSUME TypeOK, NEW p \in Procs, NEW l, NEW m, Goto(p, l, m), UNCHANGED dev
  PROVE  Moves(p, l, m)
  BY DEF TypeOK, Moves

LEMMA MovesBlock ==
  ASSUME TypeOK, NEW p \in Procs, NEW l, NEW m, Moves(p, l, m), UNCHANGED sd, NEW n
  PROVE  Block(n)' = Block(n)
  BY DEF Moves, Block

\* A process that searches or flashes has its device, unless that is lost.
LEMMA DeviceIsThere ==
  ASSUME TypeOK, BootInv, SearchInv, NEW p \in Procs, TargetOf[p] \notin lost,
         pc[p] \notin {"boot", "exit", "ok", "fail"}
  PROVE  /\ target[TargetOf[p]] = "initrd"
         /\ \A k \in Kinds : held[<<p, k>>] # NoName => Block(held[<<p, k>>]) = <<TargetOf[p], k>>
         /\ pc[p] \in {"ssh", "flash", "reboot"} =>
              \A k \in Kinds : Block(held[<<p, k>>]) = <<TargetOf[p], k>>
<1>1. TargetOf[p] \in Targets /\ target[TargetOf[p]] \in {"rcm", "initrd", "gone"}
  BY ProcsAssumption DEF TypeOK
<1>2. target[TargetOf[p]] = "initrd"
  BY <1>1 DEF BootInv
<1> QED
  BY <1>2 DEF SearchInv, Finds, Complete

-----------------------------------------------------------------------------
(* BootInv                                                                 *)

LEMMA MovesBoot ==
  ASSUME TypeOK, BootInv, NEW p \in Procs, NEW l, NEW m, Moves(p, l, m),
         l \notin {"boot", "fail", "ok"}, m # "boot", l = "exit" => m = "ok",
         UNCHANGED <<says, target, held, lost>>
  PROVE  BootInv'
<1>1. pc[p] = l /\ pc' = [pc EXCEPT ![p] = m] /\ pc \in [Procs -> Pcs]
  BY DEF Moves, Goto, TypeOK, Pcs
<1>2. pc'[p] = m /\ \A q \in Procs \ {p} : pc'[q] = pc[q]
  BY <1>1
<1>3. \A q \in Procs : pc[q] \in {"exit", "ok"} => pc'[q] \in {"exit", "ok"}
  BY <1>1, <1>2
<1> QED
  BY <1>1, <1>2, <1>3 DEF BootInv

LEMMA BootStep ==
  ASSUME Apart, TypeOK, BootInv, Next \/ UNCHANGED vars
  PROVE  BootInv'
<1>1. ASSUME NEW t \in Targets, NEW k \in Kinds, Attach(t, k)
     PROVE  BootInv'
  BY <1>1 DEF Attach, BootInv, Complete, bus, media, search, jobs, main, hist
<1>2. ASSUME NEW t \in Targets, Drop(t)
     PROVE  BootInv'
  <2>1. lost' = lost \cup {t} /\ UNCHANGED <<says, target, pc, held>>
    BY <1>2 DEF Drop, search
  <2> QED
    BY <2>1 DEF BootInv
<1>3. ASSUME NEW p \in Procs, NEW k \in Kinds, WriteError(p, k)
     PROVE  BootInv'
  BY <1>3 DEF WriteError, BootInv, Complete, bus, media, search, jobs, main, hist
<1>4. ASSUME NEW p \in Procs, BootInitrd(p)
     PROVE  BootInv'
  <2>1. /\ pc[p] = "boot" /\ target[TargetOf[p]] = "rcm"
        /\ TargetOf[p] \in Targets /\ p \in Instances
    BY <1>4, ProcsAssumption DEF BootInitrd, Goto, Exit, BootInv
  <2>2. UNCHANGED <<held, lost>>
    BY <1>4 DEF BootInitrd, hist, search
  <2>3. CASE /\ Goto(p, "boot", "list")
             /\ target' = [target EXCEPT ![TargetOf[p]] = "initrd"]
             /\ says' = [says EXCEPT ![TargetOf[p]] = p]
    <3>1. \A t \in Targets : says'[t] = IF t = TargetOf[p] THEN p ELSE says[t]
      BY <2>1, <2>3 DEF TypeOK
    <3>2. \A t \in Targets : target'[t] = IF t = TargetOf[p] THEN "initrd" ELSE target[t]
      BY <2>1, <2>3 DEF TypeOK
    <3>3. \A q \in Procs : pc'[q] = IF q = p THEN "list" ELSE pc[q]
      BY <2>1, <2>3 DEF TypeOK, Goto
    <3>4. \A q \in Procs : TargetOf[q] \in Targets /\ (TargetOf[q] = TargetOf[p] => q = p)
      BY ProcsAssumption
    <3> QED
      BY <2>1, <2>2, <3>1, <3>2, <3>3, <3>4 DEF BootInv
  <2>4. CASE Exit(p, "boot", "fail") /\ UNCHANGED <<target, says>>
    <3>1. \A q \in Procs : pc'[q] = IF q = p THEN "fail" ELSE pc[q]
      BY <2>4 DEF TypeOK, Exit, Goto
    <3> QED
      BY <2>1, <2>2, <2>4, <3>1 DEF BootInv
  <2> QED
    BY <1>4, <2>3, <2>4 DEF BootInitrd
<1>5. ASSUME NEW p \in Procs, List(p)
     PROVE  BootInv'
  <2>1. Goto(p, "list", "look") /\ UNCHANGED dev
    BY <1>5 DEF List, bus
  <2>2. Moves(p, "list", "look")
    BY <2>1, ExitMoves, GotoMoves
  <2>3. UNCHANGED <<says, target, held, lost>>
    BY <1>5 DEF List, bus, bus, media, search, jobs, main, hist
  <2> QED
    BY <2>2, <2>3, MovesBoot
<1>6. ASSUME NEW p \in Procs, NEW n \in Names, Look(p, n)
     PROVE  BootInv'
  <2>1. target[TargetOf[p]] # "rcm" /\ \A q \in Procs \ {p}, k \in Kinds : held'[<<q, k>>] = held[<<q, k>>]
    BY <1>6, DiskParts, BlockType, SMTT(30) DEF Look, TypeOK, BootInv
  <2> QED
    BY <1>6, <2>1 DEF Look, BootInv, bus, media, search, jobs, main, hist
<1>7. ASSUME NEW p \in Procs, LookAtNothing(p)
     PROVE  BootInv'
  <2>1. Exit(p, "look", "fail")
    BY <1>7 DEF LookAtNothing
  <2>2. Moves(p, "look", "fail")
    BY <2>1, ExitMoves, GotoMoves
  <2>3. UNCHANGED <<says, target, held, lost>>
    BY <1>7 DEF LookAtNothing, bus, media, search, jobs, main, hist
  <2> QED
    BY <2>2, <2>3, MovesBoot
<1>8. ASSUME NEW p \in Procs, KeepLooking(p)
     PROVE  BootInv'
  <2>1. \/ Exit(p, "look", "fail")
        \/ Goto(p, "look", "list") /\ UNCHANGED dev
    BY <1>8 DEF KeepLooking, Poll
  <2>2. Moves(p, "look", "fail") \/ Moves(p, "look", "list")
    BY <2>1, ExitMoves, GotoMoves
  <2>3. UNCHANGED <<says, target, held, lost>>
    BY <1>8 DEF KeepLooking, Poll, bus, media, search, jobs, main, hist
  <2> QED
    BY <2>2, <2>3, MovesBoot
<1>9. ASSUME NEW p \in Procs, ReadSerial(p)
     PROVE  BootInv'
  <2>1. \/ Exit(p, "look", "fail")
        \/ Goto(p, "look", "ssh") /\ UNCHANGED dev
    BY <1>9 DEF ReadSerial
  <2>2. Moves(p, "look", "fail") \/ Moves(p, "look", "ssh")
    BY <2>1, ExitMoves, GotoMoves
  <2>3. UNCHANGED <<says, target, held, lost>>
    BY <1>9 DEF ReadSerial, bus, media, search, jobs, main, hist
  <2> QED
    BY <2>2, <2>3, MovesBoot
<1>10. ASSUME NEW p \in Procs, PingDevice(p)
     PROVE  BootInv'
  <2>1. Goto(p, "ssh", "flash") /\ UNCHANGED dev
    BY <1>10 DEF PingDevice, bus
  <2>2. Moves(p, "ssh", "flash")
    BY <2>1, ExitMoves, GotoMoves
  <2>3. UNCHANGED <<says, target, held, lost>>
    BY <1>10 DEF PingDevice, bus, bus, media, search, jobs, main, hist
  <2> QED
    BY <2>2, <2>3, MovesBoot
<1>11. ASSUME NEW p \in Procs, NoAnswer(p)
     PROVE  BootInv'
  <2>1. \/ Exit(p, "ssh", "fail")
        \/ Goto(p, "ssh", "ssh") /\ UNCHANGED dev
    BY <1>11 DEF NoAnswer, Poll
  <2>2. Moves(p, "ssh", "fail") \/ Moves(p, "ssh", "ssh")
    BY <2>1, ExitMoves, GotoMoves
  <2>3. UNCHANGED <<says, target, held, lost>>
    BY <1>11 DEF NoAnswer, Poll, bus, media, search, jobs, main, hist
  <2> QED
    BY <2>2, <2>3, MovesBoot
<1>12. ASSUME NEW p \in Procs, Partprobe(p)
     PROVE  BootInv'
  BY <1>12 DEF Partprobe, BootInv, Complete, bus, media, search, jobs, main, hist
<1>13. ASSUME NEW p \in Procs, NEW k \in Kinds, CreateGpt(p, k)
     PROVE  BootInv'
  BY <1>13 DEF CreateGpt, BootInv, Complete, bus, media, search, jobs, main, hist
<1>14. ASSUME NEW p \in Procs, NEW k \in Kinds, OpenApp(p, k)
     PROVE  BootInv'
  BY <1>14 DEF OpenApp, BootInv, Complete, bus, media, search, jobs, main, hist
<1>15. ASSUME NEW p \in Procs, NEW k \in Kinds, CloseApp(p, k)
     PROVE  BootInv'
  BY <1>15 DEF CloseApp, BootInv, Complete, bus, media, search, jobs, main, hist
<1>16. ASSUME NEW p \in Procs, NEW k \in Kinds, WaitForBlockDev(p, k)
     PROVE  BootInv'
  BY <1>16 DEF WaitForBlockDev, BootInv, Complete, bus, media, search, jobs, main, hist
<1>17. ASSUME NEW p \in Procs, NEW k \in Kinds, OpenPart(p, k)
     PROVE  BootInv'
  BY <1>17 DEF OpenPart, BootInv, Complete, bus, media, search, jobs, main, hist
<1>18. ASSUME NEW p \in Procs, NEW k \in Kinds, ClosePart(p, k)
     PROVE  BootInv'
  BY <1>18 DEF ClosePart, BootInv, Complete, bus, media, search, jobs, main, hist
<1>19. ASSUME NEW p \in Procs, BeginQspi(p)
     PROVE  BootInv'
  BY <1>19 DEF BeginQspi, BootInv, Complete, bus, media, search, jobs, main, hist
<1>20. ASSUME NEW p \in Procs, EndQspi(p)
     PROVE  BootInv'
  BY <1>20 DEF EndQspi, BootInv, Complete, bus, media, search, jobs, main, hist
<1>21. ASSUME NEW p \in Procs, WaitForJobs(p)
     PROVE  BootInv'
  <2>1. \/ Exit(p, "flash", "fail")
        \/ Goto(p, "flash", "reboot") /\ UNCHANGED dev
    BY <1>21 DEF WaitForJobs
  <2>2. Moves(p, "flash", "fail") \/ Moves(p, "flash", "reboot")
    BY <2>1, ExitMoves, GotoMoves
  <2>3. UNCHANGED <<says, target, held, lost>>
    BY <1>21 DEF WaitForJobs, bus, media, search, jobs, main, hist
  <2> QED
    BY <2>2, <2>3, MovesBoot
<1>22. ASSUME NEW p \in Procs, RebootTarget(p)
     PROVE  BootInv'
  <2> DEFINE u == sshcon[p]
  <2>1. /\ u \in Targets /\ target[u] = "initrd" /\ pc[p] = "reboot"
        /\ pc' = [pc EXCEPT ![p] = "exit"]
        /\ target' = [target EXCEPT ![u] = "gone"]
        /\ lost' = IF u = TargetOf[p] THEN lost ELSE lost \cup {u}
        /\ UNCHANGED <<says, held>>
    BY <1>22 DEF RebootTarget, Up, Goto, search
  <2> HIDE DEF u
  <2>2. \A t \in Targets : target'[t] = IF t = u THEN "gone" ELSE target[t]
    BY <2>1 DEF TypeOK
  <2>3. \A q \in Procs : pc'[q] = IF q = p THEN "exit" ELSE pc[q]
    BY <2>1 DEF TypeOK
  <2>4. \A q \in Procs : TargetOf[q] \in Targets /\ (TargetOf[q] = TargetOf[p] => q = p)
    BY ProcsAssumption
  <2> QED
    BY <2>1, <2>2, <2>3, <2>4 DEF BootInv
<1>23. ASSUME NEW p \in Procs, RebootFailed(p)
     PROVE  BootInv'
  <2>1. Exit(p, "reboot", "fail")
    BY <1>23 DEF RebootFailed
  <2>2. Moves(p, "reboot", "fail")
    BY <2>1, ExitMoves, GotoMoves
  <2>3. UNCHANGED <<says, target, held, lost>>
    BY <1>23 DEF RebootFailed, bus, media, search, jobs, main, hist
  <2> QED
    BY <2>2, <2>3, MovesBoot
<1>24. ASSUME NEW p \in Procs, Success(p)
     PROVE  BootInv'
  <2>1. Exit(p, "exit", "ok")
    BY <1>24 DEF Success
  <2>2. Moves(p, "exit", "ok")
    BY <2>1, ExitMoves, GotoMoves
  <2>3. UNCHANGED <<says, target, held, lost>>
    BY <1>24 DEF Success, bus, media, search, jobs, main, hist
  <2> QED
    BY <2>2, <2>3, MovesBoot
<1>25. ASSUME NEW p \in Procs, Reap(p)
     PROVE  BootInv'
  BY <1>25 DEF Reap, BootInv, Complete, bus, media, search, jobs, main, hist
<1>26. CASE UNCHANGED vars
  BY <1>26 DEF vars, BootInv, bus, media, search, jobs, main, hist
<1> QED
  BY <1>1, <1>2, <1>3, <1>4, <1>5, <1>6, <1>7, <1>8, <1>9, <1>10, <1>11, <1>12, <1>13,
     <1>14, <1>15, <1>16, <1>17, <1>18, <1>19, <1>20, <1>21, <1>22, <1>23, <1>24, <1>25,
     <1>26 DEF Next, Bus, Process, Write
-----------------------------------------------------------------------------
(* SearchInv                                                               *)

\* q keeps what it has found: its disks stay where they are, or its device
\* is not running, and it moves to no state that asks for more.
LEMMA FindsKept ==
  ASSUME NEW q \in Procs, Finds(q),
         \A k \in Kinds : held'[<<q, k>>] = held[<<q, k>>],
         target'[TargetOf[q]] = "initrd" => target[TargetOf[q]] = "initrd",
         \A k \in Kinds : target'[TargetOf[q]] = "initrd" =>
           (Block(held[<<q, k>>]) = <<TargetOf[q], k>> => Block(held[<<q, k>>])' = <<TargetOf[q], k>>),
         \A k \in Kinds : on'[<<q, k>>] \in {NoDisk, <<TargetOf[q], k>>},
         serial'[q] = serial[q], sshcon'[q] = sshcon[q],
         pc'[q] = "ssh" => pc[q] = "ssh",
         pc'[q] \in {"flash", "reboot"} => pc[q] \in {"flash", "reboot"}
  PROVE  Finds(q)'
<1>1. \A k \in Kinds : held'[<<q, k>>] # NoName /\ target'[TargetOf[q]] = "initrd"
          => Block(held[<<q, k>>])' = <<TargetOf[q], k>>
  BY DEF Finds
<1>2. pc'[q] \in {"ssh", "flash", "reboot"} => Complete(q)'
  BY DEF Finds, Complete
<1>3. pc'[q] = "ssh" => serial'[q] = SerialOf[TargetOf[q]]
  BY DEF Finds
<1>4. sshcon'[q] \in {Nobody, TargetOf[q]} /\ (pc'[q] \in {"flash", "reboot"} => sshcon'[q] = TargetOf[q])
  BY DEF Finds
<1> QED
  BY <1>1, <1>2, <1>3, <1>4 DEF Finds

\* A step in which nothing leaves the bus: what q reads stays the same.
LEMMA SearchKept ==
  ASSUME TypeOK, SearchInv, UNCHANGED <<held, target, sd, lost, serial, sshcon>>,
         \A n : Block(n) # NoDisk => Block(n)' = Block(n),
         \A q \in Procs : TargetOf[q] \notin lost =>
           \A k \in Kinds : on'[<<q, k>>] \in {NoDisk, <<TargetOf[q], k>>},
         \A q \in Procs : /\ pc'[q] = "ssh" => pc[q] = "ssh"
                          /\ pc'[q] \in {"flash", "reboot"} => pc[q] \in {"flash", "reboot"}
  PROVE  SearchInv'
<1> SUFFICES ASSUME NEW q \in Procs, TargetOf[q] \notin lost PROVE Finds(q)'
  BY DEF SearchInv
<1>1. Finds(q)
  BY DEF SearchInv
<1>2. \A k \in Kinds : Block(held[<<q, k>>]) = <<TargetOf[q], k>> => Block(held[<<q, k>>])' = <<TargetOf[q], k>>
  BY DEF NoDisk
<1> QED
  BY <1>1, <1>2, FindsKept

LEMMA OnKept ==
  ASSUME SearchInv, UNCHANGED on
  PROVE  \A q \in Procs : TargetOf[q] \notin lost =>
           \A k \in Kinds : on'[<<q, k>>] \in {NoDisk, <<TargetOf[q], k>>}
  BY DEF SearchInv, Finds

\* A process that moves, and nothing else that matters to a search.
LEMMA MovesSearch ==
  ASSUME TypeOK, SearchInv, NEW p \in Procs, NEW l, NEW m, Moves(p, l, m),
         m = "ssh" => l = "ssh", m \in {"flash", "reboot"} => l \in {"flash", "reboot"},
         UNCHANGED <<held, target, sd, lost, serial, sshcon, on>>
  PROVE  SearchInv'
<1>1. \A n : Block(n)' = Block(n)
  BY MovesBlock
<1>2. \A q \in Procs : /\ pc'[q] = "ssh" => pc[q] = "ssh"
                       /\ pc'[q] \in {"flash", "reboot"} => pc[q] \in {"flash", "reboot"}
  BY DEF Moves, Goto, TypeOK
<1> QED
  BY <1>1, <1>2, OnKept, SearchKept

\* The disks of other devices stay where they are.
LEMMA DetachKeeps ==
  ASSUME TypeOK, NEW t \in Targets, NEW u \in Targets \ {t}, Detach(t), NEW k \in Kinds,
         dev' = [n \in Names |-> NodesWithout(t, n)], NEW n, Block(n) = <<u, k>>
  PROVE  Block(n)' = <<u, k>>
<1>1. n \in Names /\ dev[n] = "block" /\ sd[n] = <<u, k>>
  BY DiskParts, BlockType
<1>2. sd[n] \notin DisksOf(t)
  BY <1>1 DEF DisksOf
<1> QED
  BY <1>1, <1>2 DEF Detach, NodesWithout, Block

LEMMA DetachOn ==
  ASSUME TypeOK, NEW t \in Targets, Detach(t), NEW q \in Procs, Finds(q)
  PROVE  \A k \in Kinds : on'[<<q, k>>] \in {NoDisk, <<TargetOf[q], k>>}
  BY DiskParts DEF Detach, Finds

LEMMA OpenOn ==
  ASSUME TypeOK, BootInv, SearchInv, NEW p \in Procs, NEW k \in Kinds, NEW part,
         pc[p] = "flash", Open(p, k, part)
  PROVE  \A q \in Procs : TargetOf[q] \notin lost =>
           \A j \in Kinds : on'[<<q, j>>] \in {NoDisk, <<TargetOf[q], j>>}
<1> DEFINE d == Block(held[<<p, k>>])
<1>1. on' = [on EXCEPT ![<<p, k>>] = d]
  BY DEF Open
<1>2. TargetOf[p] \notin lost => d = <<TargetOf[p], k>>
  BY DeviceIsThere
<1> HIDE DEF d
<1> SUFFICES ASSUME NEW q \in Procs, TargetOf[q] \notin lost, NEW j \in Kinds
             PROVE  on'[<<q, j>>] \in {NoDisk, <<TargetOf[q], j>>}
  OBVIOUS
<1>3. on'[<<q, j>>] = IF q = p /\ j = k THEN d ELSE on[<<q, j>>]
  BY <1>1, DiskParts DEF TypeOK
<1> QED
  BY <1>2, <1>3 DEF SearchInv, Finds

LEMMA WrittenOn ==
  ASSUME TypeOK, SearchInv, NEW p \in Procs, NEW k \in Kinds, NEW part, Written(p, k, part)
  PROVE  \A q \in Procs : TargetOf[q] \notin lost =>
           \A j \in Kinds : on'[<<q, j>>] \in {NoDisk, <<TargetOf[q], j>>}
  BY DiskParts DEF Written, SearchInv, Finds, TypeOK

LEMMA QuietSearch ==
  ASSUME TypeOK, SearchInv, UNCHANGED <<held, target, sd, dev, lost, serial, sshcon, on, pc>>
  PROVE  SearchInv'
<1>1. \A n : Block(n) # NoDisk => Block(n)' = Block(n)
  BY DEF Block
<1> QED
  BY <1>1, OnKept, SearchKept

LEMMA SearchStep ==
  ASSUME Apart, TypeOK, BootInv, SearchInv, Next \/ UNCHANGED vars
  PROVE  SearchInv'
<1>1. ASSUME NEW t \in Targets, NEW k \in Kinds, Attach(t, k)
     PROVE  SearchInv'
  <2>1. UNCHANGED <<held, target, lost, serial, sshcon, on, pc>>
    BY <1>1 DEF Attach, bus, media, search, jobs, main, hist
  <2>2. PICK n \in Names : /\ sd[n] = NoDisk /\ sd' = [sd EXCEPT ![n] = <<t, k>>]
                           /\ dev' = [dev EXCEPT ![n] = IF @ = "file" THEN "file" ELSE "block"]
    BY <1>1 DEF Attach
  <2> SUFFICES ASSUME NEW q \in Procs, TargetOf[q] \notin lost PROVE Finds(q)'
    BY <2>1 DEF SearchInv
  <2>3. ASSUME NEW j \in Kinds, Block(held[<<q, j>>]) = <<TargetOf[q], j>>
        PROVE  Block(held[<<q, j>>])' = <<TargetOf[q], j>>
    <3>1. PICK m \in Names : m = held[<<q, j>>] /\ dev[m] = "block" /\ sd[m] = <<TargetOf[q], j>> /\ sd[m] # NoDisk
      BY <2>3, BlockType, DiskParts DEF NoDisk
    <3>2. m # n
      BY <2>2, <3>1
    <3>3. dev'[m] = dev[m] /\ sd'[m] = sd[m]
      BY <2>2, <3>1, <3>2 DEF TypeOK
    <3>4. Block(m)' = <<TargetOf[q], j>>
      BY <3>1, <3>3 DEF Block
    <3> QED
      BY <2>1, <3>1, <3>4
  <2>4. Finds(q)
    BY DEF SearchInv
  <2>5. \A j \in Kinds : on[<<q, j>>] \in {NoDisk, <<TargetOf[q], j>>}
    BY <2>4 DEF Finds
  <2> QED
    BY <2>1, <2>3, <2>4, <2>5, FindsKept
<1>2. ASSUME NEW t \in Targets, Drop(t)
     PROVE  SearchInv'
  <2>1. /\ lost' = lost \cup {t} /\ Detach(t) /\ dev' = [n \in Names |-> NodesWithout(t, n)]
        /\ UNCHANGED <<held, target, serial, sshcon, pc>>
    BY <1>2 DEF Drop, bus, media, search, jobs, main, hist
  <2> SUFFICES ASSUME NEW q \in Procs, TargetOf[q] \notin lost \cup {t} PROVE Finds(q)'
    BY <2>1 DEF SearchInv
  <2>2. Finds(q) /\ TargetOf[q] \in Targets \ {t}
    BY ProcsAssumption DEF SearchInv
  <2>3. \A j \in Kinds : Block(held[<<q, j>>]) = <<TargetOf[q], j>> => Block(held[<<q, j>>])' = <<TargetOf[q], j>>
    BY <2>1, <2>2, DetachKeeps
  <2>4. \A j \in Kinds : on'[<<q, j>>] \in {NoDisk, <<TargetOf[q], j>>}
    BY <2>1, <2>2, DetachOn
  <2> QED
    BY <2>1, <2>2, <2>3, <2>4, FindsKept
<1>3. ASSUME NEW p \in Procs, NEW k \in Kinds, WriteError(p, k)
     PROVE  SearchInv'
  <2>1. UNCHANGED <<held, target, sd, dev, lost, serial, sshcon, pc>>
    BY <1>3 DEF WriteError, bus, media, search, jobs, main, hist
  <2>2. \A q \in Procs : TargetOf[q] \notin lost =>
          \A j \in Kinds : on'[<<q, j>>] \in {NoDisk, <<TargetOf[q], j>>}
    BY <1>3, DiskParts DEF WriteError, SearchInv, Finds, TypeOK
  <2>3. \A n : Block(n) # NoDisk => Block(n)' = Block(n)
    BY <2>1 DEF Block
  <2> QED
    BY <2>1, <2>2, <2>3, SearchKept
<1>4. ASSUME NEW p \in Procs, BootInitrd(p)
     PROVE  SearchInv'
  <2>1. UNCHANGED <<held, sd, lost, serial, sshcon, on>> /\ pc[p] = "boot"
    BY <1>4 DEF BootInitrd, Goto, Exit, bus, media, search, jobs, main, hist
  <2>2. CASE Exit(p, "boot", "fail") /\ UNCHANGED <<target, says>>
    <3>1. Moves(p, "boot", "fail")
      BY <2>2, ExitMoves
    <3> QED
      BY <2>1, <2>2, <3>1, MovesSearch
  <2>3. CASE Goto(p, "boot", "list") /\ target' = [target EXCEPT ![TargetOf[p]] = "initrd"] /\ UNCHANGED dev
    <3> SUFFICES ASSUME NEW q \in Procs, TargetOf[q] \notin lost PROVE Finds(q)'
      BY <2>1 DEF SearchInv
    <3>1. Finds(q) /\ TargetOf[q] \in Targets
      BY ProcsAssumption DEF SearchInv
    <3>2. pc'[q] = IF q = p THEN "list" ELSE pc[q]
      BY <2>3 DEF TypeOK, Goto
    <3>3. \A n : Block(n)' = Block(n)
      BY <2>1, <2>3 DEF Block
    <3>4. CASE q = p
      <4>1. \A k \in Kinds : held[<<q, k>>] = NoName
        BY <2>1, <3>4 DEF BootInv
      <4> QED
        BY <2>1, <3>1, <3>2, <3>4, <4>1 DEF Finds
    <3>5. CASE q # p
      <4>1. target'[TargetOf[q]] = target[TargetOf[q]]
        BY <2>3, <3>1, <3>5, ProcsAssumption DEF TypeOK
      <4>2. \A k \in Kinds : on[<<q, k>>] \in {NoDisk, <<TargetOf[q], k>>}
        BY <3>1 DEF Finds
      <4> QED
        BY <2>1, <3>1, <3>2, <3>3, <3>5, <4>1, <4>2, FindsKept
    <3> QED
      BY <3>4, <3>5
  <2> QED
    BY <1>4, <2>2, <2>3 DEF BootInitrd
<1>5. ASSUME NEW p \in Procs, List(p)
     PROVE  SearchInv'
  <2>1. Goto(p, "list", "look") /\ UNCHANGED dev
    BY <1>5 DEF List, bus
  <2>2. Moves(p, "list", "look")
    BY <2>1, ExitMoves, GotoMoves
  <2>3. UNCHANGED <<held, target, sd, lost, serial, sshcon, on>>
    BY <1>5 DEF List, bus, bus, media, search, jobs, main, hist
  <2> QED
    BY <2>2, <2>3, MovesSearch
<1>6. ASSUME NEW p \in Procs, NEW n \in Names, Look(p, n)
     PROVE  SearchInv'
  <2> DEFINE d == Block(n)
  <2>1. /\ UNCHANGED <<target, sd, dev, lost, serial, sshcon, on, pc>> /\ pc[p] = "look"
        /\ held' = IF Mine(p, d) THEN [held EXCEPT ![<<p, d[2]>>] = n] ELSE held
    BY <1>6 DEF Look, bus, media, search, jobs, main, hist
  <2>2. \A m : Block(m)' = Block(m)
    BY <2>1 DEF Block
  <2>3. d \in Disks \cup {NoDisk}
    BY BlockType
  <2>4. Mine(p, d) => d[1] = TargetOf[p] /\ d[2] \in Kinds /\ d = <<d[1], d[2]>>
    BY <2>3, DiskParts DEF Mine, BootInv, Apart
  <2>5. held' = held \/ \E k \in Kinds : d = <<TargetOf[p], k>> /\ held' = [held EXCEPT ![<<p, k>>] = n]
    BY <2>1, <2>4
  <2>6. d = Block(n)
    OBVIOUS
  <2> HIDE DEF d
  <2> SUFFICES ASSUME NEW q \in Procs, TargetOf[q] \notin lost PROVE Finds(q)'
    BY <2>1 DEF SearchInv
  <2>7. Finds(q)
    BY DEF SearchInv
  <2>8. ASSUME NEW k \in Kinds, held'[<<q, k>>] # NoName, target[TargetOf[q]] = "initrd"
        PROVE  Block(held'[<<q, k>>]) = <<TargetOf[q], k>>
    <3>1. <<q, k>> \in Writers /\ (held[<<q, k>>] # NoName => Block(held[<<q, k>>]) = <<TargetOf[q], k>>)
      BY <2>7, <2>8, DiskParts DEF Finds
    <3>2. CASE held' = held
      BY <2>8, <3>1, <3>2
    <3>3. ASSUME NEW j \in Kinds, d = <<TargetOf[p], j>>, held' = [held EXCEPT ![<<p, j>>] = n]
          PROVE  Block(held'[<<q, k>>]) = <<TargetOf[q], k>>
      <4>1. held \in [Writers -> Names \cup {NoName}]
        BY DEF TypeOK
      <4>2. held'[<<q, k>>] = IF q = p /\ k = j THEN n ELSE held[<<q, k>>]
        BY <3>1, <3>3, <4>1
      <4> QED
        BY <2>6, <2>8, <3>1, <3>3, <4>2
    <3> QED
      BY <2>5, <3>2, <3>3
  <2>9. pc[q] # "look" => \A k \in Kinds : held'[<<q, k>>] = held[<<q, k>>]
    BY <2>1, <2>5, DiskParts DEF TypeOK
  <2>10. \A k \in Kinds : held'[<<q, k>>] # NoName /\ target'[TargetOf[q]] = "initrd" =>
           Block(held[<<q, k>>])' = <<TargetOf[q], k>>
    <3>1. \A k \in Kinds : Block(held[<<q, k>>])' = Block(held'[<<q, k>>])
      BY <2>1 DEF Block
    <3> QED
      BY <2>1, <2>8, <3>1
  <2>11. pc[q] \in {"ssh", "flash", "reboot"} => Complete(q)'
    BY <2>7, <2>9 DEF Finds, Complete
  <2> QED
    BY <2>1, <2>7, <2>10, <2>11 DEF Finds
<1>7. ASSUME NEW p \in Procs, LookAtNothing(p)
     PROVE  SearchInv'
  <2>1. Exit(p, "look", "fail")
    BY <1>7 DEF LookAtNothing
  <2>2. Moves(p, "look", "fail")
    BY <2>1, ExitMoves, GotoMoves
  <2>3. UNCHANGED <<held, target, sd, lost, serial, sshcon, on>>
    BY <1>7 DEF LookAtNothing, bus, media, search, jobs, main, hist
  <2> QED
    BY <2>2, <2>3, MovesSearch
<1>8. ASSUME NEW p \in Procs, KeepLooking(p)
     PROVE  SearchInv'
  <2>1. \/ Exit(p, "look", "fail")
        \/ Goto(p, "look", "list") /\ UNCHANGED dev
    BY <1>8 DEF KeepLooking, Poll
  <2>2. Moves(p, "look", "fail") \/ Moves(p, "look", "list")
    BY <2>1, ExitMoves, GotoMoves
  <2>3. UNCHANGED <<held, target, sd, lost, serial, sshcon, on>>
    BY <1>8 DEF KeepLooking, Poll, bus, media, search, jobs, main, hist
  <2> QED
    BY <2>2, <2>3, MovesSearch
<1>9. ASSUME NEW p \in Procs, ReadSerial(p)
     PROVE  SearchInv'
  <2>1. UNCHANGED <<held, target, sd, lost, sshcon, on>>
    BY <1>9 DEF ReadSerial, bus, media, search, jobs, main, hist
  <2> DEFINE d == Block(held[<<p, "mmc0">>])
  <2>2. CASE d = NoDisk
    <3>1. Moves(p, "look", "fail") /\ UNCHANGED serial
      BY <1>9, <2>2, ExitMoves DEF ReadSerial
    <3> QED
      BY <2>1, <3>1, MovesSearch
  <2>3. CASE d # NoDisk
    <3>1. /\ Goto(p, "look", "ssh") /\ serial' = [serial EXCEPT ![p] = SerialOf[d[1]]] /\ UNCHANGED dev
          /\ Complete(p)
      BY <1>9, <2>3 DEF ReadSerial
    <3>2. \A n : Block(n)' = Block(n)
      BY <2>1, <3>1 DEF Block
    <3> SUFFICES ASSUME NEW q \in Procs, TargetOf[q] \notin lost PROVE Finds(q)'
      BY <2>1 DEF SearchInv
    <3>3. Finds(q) /\ pc[p] = "look"
      BY <3>1 DEF SearchInv, Goto
    <3>4. CASE q = p
      <4>1. d = <<TargetOf[p], "mmc0">>
        BY <3>1, <3>3, <3>4, DeviceIsThere, KindsAssumption DEF Complete
      <4>2. d[1] = TargetOf[p]
        BY <4>1
      <4> HIDE DEF d
      <4>3. serial'[p] = SerialOf[TargetOf[p]]
        BY <3>1, <4>2 DEF TypeOK
      <4>4. pc'[p] = "ssh"
        BY <3>1 DEF Goto, TypeOK
      <4>5. Complete(p)'
        BY <2>1, <3>1 DEF Complete
      <4>6. \A k \in Kinds : Block(held[<<p, k>>])' = Block(held[<<p, k>>])
        BY <2>1, <3>2
      <4> QED
        BY <2>1, <3>3, <3>4, <4>3, <4>4, <4>5, <4>6 DEF Finds
    <3>5. CASE q # p
      <4>1. pc'[q] = pc[q] /\ serial'[q] = serial[q]
        BY <3>1, <3>5 DEF Goto, TypeOK
      <4>2. \A k \in Kinds : on[<<q, k>>] \in {NoDisk, <<TargetOf[q], k>>}
        BY <3>3 DEF Finds
      <4> QED
        BY <2>1, <3>2, <3>3, <4>1, <4>2, FindsKept
    <3> QED
      BY <3>4, <3>5
  <2> QED
    BY <2>2, <2>3
<1>10. ASSUME NEW p \in Procs, PingDevice(p)
     PROVE  SearchInv'
  <2>1. UNCHANGED <<held, target, sd, dev, lost, serial, on>> /\ Goto(p, "ssh", "flash")
    BY <1>10 DEF PingDevice, bus, media, search, jobs, main, hist
  <2>2. PICK t \in Targets : SerialOf[t] = serial[p] /\ sshcon' = [sshcon EXCEPT ![p] = t]
    BY <1>10 DEF PingDevice, Reachable
  <2>3. \A n : Block(n)' = Block(n)
    BY <2>1 DEF Block
  <2> SUFFICES ASSUME NEW q \in Procs, TargetOf[q] \notin lost PROVE Finds(q)'
    BY <2>1 DEF SearchInv
  <2>4. Finds(q) /\ pc[p] = "ssh"
    BY <2>1 DEF SearchInv, Goto
  <2>5. \A r \in Procs : /\ pc'[r] = IF r = p THEN "flash" ELSE pc[r]
                         /\ sshcon'[r] = IF r = p THEN t ELSE sshcon[r]
    BY <2>1, <2>2 DEF Goto, TypeOK
  <2>6. \A k \in Kinds : on[<<q, k>>] \in {NoDisk, <<TargetOf[q], k>>}
    BY <2>4 DEF Finds
  <2>7. CASE q = p
    <3>1. t = TargetOf[p]
      BY <2>2, <2>4, <2>7, ProcsAssumption DEF Finds, Apart
    <3>2. Complete(p)'
      BY <2>1, <2>4, <2>7 DEF Finds, Complete
    <3>3. \A k \in Kinds : Block(held[<<p, k>>])' = Block(held[<<p, k>>])
      BY <2>1, <2>3
    <3> QED
      BY <2>1, <2>4, <2>5, <2>7, <3>1, <3>2, <3>3 DEF Finds
  <2>8. CASE q # p
    BY <2>1, <2>3, <2>4, <2>5, <2>6, <2>8, FindsKept
  <2> QED
    BY <2>7, <2>8
<1>11. ASSUME NEW p \in Procs, NoAnswer(p)
     PROVE  SearchInv'
  <2>1. \/ Exit(p, "ssh", "fail")
        \/ Goto(p, "ssh", "ssh") /\ UNCHANGED dev
    BY <1>11 DEF NoAnswer, Poll
  <2>2. Moves(p, "ssh", "fail") \/ Moves(p, "ssh", "ssh")
    BY <2>1, ExitMoves, GotoMoves
  <2>3. UNCHANGED <<held, target, sd, lost, serial, sshcon, on>>
    BY <1>11 DEF NoAnswer, Poll, bus, media, search, jobs, main, hist
  <2> QED
    BY <2>2, <2>3, MovesSearch
<1>12. ASSUME NEW p \in Procs, Partprobe(p)
     PROVE  SearchInv'
  <2>1. UNCHANGED <<held, target, sd, dev, lost, serial, sshcon, on, pc>>
    BY <1>12 DEF Partprobe, bus, media, search, jobs, main, hist
  <2> QED
    BY <2>1, QuietSearch
<1>13. ASSUME NEW p \in Procs, NEW k \in Kinds, CreateGpt(p, k)
     PROVE  SearchInv'
  <2>1. UNCHANGED <<held, target, sd, dev, lost, serial, sshcon, on, pc>>
    BY <1>13 DEF CreateGpt, bus, media, search, jobs, main, hist
  <2> QED
    BY <2>1, QuietSearch
<1>14. ASSUME NEW p \in Procs, NEW k \in Kinds, OpenApp(p, k)
     PROVE  SearchInv'
  <2>1. UNCHANGED <<held, target, sd, dev, lost, serial, sshcon, pc>> /\ pc[p] = "flash"
    BY <1>14 DEF OpenApp, Step, bus, media, search, jobs, main, hist
  <2>2. \A q \in Procs : TargetOf[q] \notin lost =>
          \A j \in Kinds : on'[<<q, j>>] \in {NoDisk, <<TargetOf[q], j>>}
    BY <1>14, <2>1, OnKept, OpenOn DEF OpenApp
  <2>3. \A n : Block(n) # NoDisk => Block(n)' = Block(n)
    BY <2>1 DEF Block
  <2> QED
    BY <2>1, <2>2, <2>3, SearchKept
<1>15. ASSUME NEW p \in Procs, NEW k \in Kinds, CloseApp(p, k)
     PROVE  SearchInv'
  <2>1. UNCHANGED <<held, target, sd, dev, lost, serial, sshcon, pc>> /\ pc[p] = "flash"
    BY <1>15 DEF CloseApp, Step, bus, media, search, jobs, main, hist
  <2>2. \A q \in Procs : TargetOf[q] \notin lost =>
          \A j \in Kinds : on'[<<q, j>>] \in {NoDisk, <<TargetOf[q], j>>}
    BY <1>15, WrittenOn DEF CloseApp
  <2>3. \A n : Block(n) # NoDisk => Block(n)' = Block(n)
    BY <2>1 DEF Block
  <2> QED
    BY <2>1, <2>2, <2>3, SearchKept
<1>16. ASSUME NEW p \in Procs, NEW k \in Kinds, WaitForBlockDev(p, k)
     PROVE  SearchInv'
  <2>1. UNCHANGED <<held, target, sd, dev, lost, serial, sshcon, on, pc>>
    BY <1>16 DEF WaitForBlockDev, bus, media, search, jobs, main, hist
  <2> QED
    BY <2>1, QuietSearch
<1>17. ASSUME NEW p \in Procs, NEW k \in Kinds, OpenPart(p, k)
     PROVE  SearchInv'
  <2>1. UNCHANGED <<held, target, sd, lost, serial, sshcon, pc>> /\ pc[p] = "flash"
    BY <1>17 DEF OpenPart, Step, bus, media, search, jobs, main, hist
  <2>2. \A q \in Procs : TargetOf[q] \notin lost =>
          \A j \in Kinds : on'[<<q, j>>] \in {NoDisk, <<TargetOf[q], j>>}
    BY <1>17, <2>1, OnKept, OpenOn DEF OpenPart
  <2>3. \A n : Block(n) # NoDisk => Block(n)' = Block(n)
    BY <1>17, <2>1 DEF OpenPart, Block, TypeOK
  <2> QED
    BY <2>1, <2>2, <2>3, SearchKept
<1>18. ASSUME NEW p \in Procs, NEW k \in Kinds, ClosePart(p, k)
     PROVE  SearchInv'
  <2>1. UNCHANGED <<held, target, sd, dev, lost, serial, sshcon, pc>> /\ pc[p] = "flash"
    BY <1>18 DEF ClosePart, Step, bus, media, search, jobs, main, hist
  <2>2. \A q \in Procs : TargetOf[q] \notin lost =>
          \A j \in Kinds : on'[<<q, j>>] \in {NoDisk, <<TargetOf[q], j>>}
    BY <1>18, WrittenOn DEF ClosePart
  <2>3. \A n : Block(n) # NoDisk => Block(n)' = Block(n)
    BY <2>1 DEF Block
  <2> QED
    BY <2>1, <2>2, <2>3, SearchKept
<1>19. ASSUME NEW p \in Procs, BeginQspi(p)
     PROVE  SearchInv'
  <2>1. UNCHANGED <<held, target, sd, dev, lost, serial, sshcon, on, pc>>
    BY <1>19 DEF BeginQspi, bus, media, search, jobs, main, hist
  <2> QED
    BY <2>1, QuietSearch
<1>20. ASSUME NEW p \in Procs, EndQspi(p)
     PROVE  SearchInv'
  <2>1. UNCHANGED <<held, target, sd, dev, lost, serial, sshcon, on, pc>>
    BY <1>20 DEF EndQspi, bus, media, search, jobs, main, hist
  <2> QED
    BY <2>1, QuietSearch
<1>21. ASSUME NEW p \in Procs, WaitForJobs(p)
     PROVE  SearchInv'
  <2>1. \/ Exit(p, "flash", "fail")
        \/ Goto(p, "flash", "reboot") /\ UNCHANGED dev
    BY <1>21 DEF WaitForJobs
  <2>2. Moves(p, "flash", "fail") \/ Moves(p, "flash", "reboot")
    BY <2>1, ExitMoves, GotoMoves
  <2>3. UNCHANGED <<held, target, sd, lost, serial, sshcon, on>>
    BY <1>21 DEF WaitForJobs, bus, media, search, jobs, main, hist
  <2> QED
    BY <2>2, <2>3, MovesSearch
<1>22. ASSUME NEW p \in Procs, RebootTarget(p)
     PROVE  SearchInv'
  <2> DEFINE u == sshcon[p]
  <2>1. /\ u \in Targets /\ pc[p] = "reboot" /\ Detach(u) /\ dev' = [n \in Names |-> NodesWithout(u, n)]
        /\ lost' = IF u = TargetOf[p] THEN lost ELSE lost \cup {u}
        /\ target' = [target EXCEPT ![u] = "gone"] /\ pc' = [pc EXCEPT ![p] = "exit"]
        /\ UNCHANGED <<held, serial, sshcon>>
    BY <1>22 DEF RebootTarget, Up, Goto, bus, media, search, jobs, main, hist
  <2> SUFFICES ASSUME NEW q \in Procs, TargetOf[q] \notin lost' PROVE Finds(q)'
    BY DEF SearchInv
  <2>2. Finds(q) /\ TargetOf[q] \in Targets /\ TargetOf[q] \notin lost
    BY <2>1, ProcsAssumption DEF SearchInv
  <2>3. q = p => u = TargetOf[q]
    BY <2>1, <2>2 DEF Finds
  <2>4. q # p => TargetOf[q] # u
    BY <2>1, <2>2, ProcsAssumption
  <2>5. target'[TargetOf[q]] = IF q = p THEN "gone" ELSE target[TargetOf[q]]
    BY <2>1, <2>2, <2>3, <2>4 DEF TypeOK
  <2>6. ASSUME NEW j \in Kinds, target'[TargetOf[q]] = "initrd", Block(held[<<q, j>>]) = <<TargetOf[q], j>>
        PROVE  Block(held[<<q, j>>])' = <<TargetOf[q], j>>
    <3>1. TargetOf[q] \in Targets \ {u}
      BY <2>2, <2>4, <2>5, <2>6
    <3> QED
      BY <2>1, <2>6, <3>1, DetachKeeps
  <2>7. \A j \in Kinds : on'[<<q, j>>] \in {NoDisk, <<TargetOf[q], j>>}
    BY <2>1, <2>2, DetachOn
  <2>8. pc'[q] = IF q = p THEN "exit" ELSE pc[q]
    BY <2>1 DEF TypeOK
  <2>9. target'[TargetOf[q]] = "initrd" => target[TargetOf[q]] = "initrd"
    BY <2>5
  <2> QED
    BY <2>1, <2>2, <2>6, <2>7, <2>8, <2>9, FindsKept
<1>23. ASSUME NEW p \in Procs, RebootFailed(p)
     PROVE  SearchInv'
  <2>1. Exit(p, "reboot", "fail")
    BY <1>23 DEF RebootFailed
  <2>2. Moves(p, "reboot", "fail")
    BY <2>1, ExitMoves, GotoMoves
  <2>3. UNCHANGED <<held, target, sd, lost, serial, sshcon, on>>
    BY <1>23 DEF RebootFailed, bus, media, search, jobs, main, hist
  <2> QED
    BY <2>2, <2>3, MovesSearch
<1>24. ASSUME NEW p \in Procs, Success(p)
     PROVE  SearchInv'
  <2>1. Exit(p, "exit", "ok")
    BY <1>24 DEF Success
  <2>2. Moves(p, "exit", "ok")
    BY <2>1, ExitMoves, GotoMoves
  <2>3. UNCHANGED <<held, target, sd, lost, serial, sshcon, on>>
    BY <1>24 DEF Success, bus, media, search, jobs, main, hist
  <2> QED
    BY <2>2, <2>3, MovesSearch
<1>25. ASSUME NEW p \in Procs, Reap(p)
     PROVE  SearchInv'
  <2>1. UNCHANGED <<held, target, sd, dev, lost, serial, sshcon, on, pc>>
    BY <1>25 DEF Reap, bus, media, search, jobs, main, hist
  <2> QED
    BY <2>1, QuietSearch
<1>26. CASE UNCHANGED vars
  BY <1>26, QuietSearch DEF vars, bus, media, search, jobs, main, hist
<1> QED
  BY <1>1, <1>2, <1>3, <1>4, <1>5, <1>6, <1>7, <1>8, <1>9, <1>10, <1>11, <1>12, <1>13,
     <1>14, <1>15, <1>16, <1>17, <1>18, <1>19, <1>20, <1>21, <1>22, <1>23, <1>24, <1>25,
     <1>26 DEF Next, Bus, Process, Write
-----------------------------------------------------------------------------
(* FlashInv and ReapInv                                                    *)

\* The last conjunct of FlashInv needs only the jobs and the step of a process.
LEMMA FlashKept ==
  ASSUME FlashInv, lost' = {} => lost = {}, UNCHANGED <<disk, qspi, at, on, qjob, spoilt>>,
         \A q \in Procs : pc'[q] \in {"reboot", "exit", "ok"} => pc[q] \in {"reboot", "exit", "ok"}
  PROVE  FlashInv'
<1> SUFFICES ASSUME lost = {}, NEW q \in Procs
             PROVE  /\ \A k \in Kinds : Holds(q, k)'
                    /\ qjob'[q] = "ok" => qspi'[TargetOf[q]]
                    /\ pc'[q] \in {"reboot", "exit", "ok"} => JobsOk(q)'
  BY DEF FlashInv
<1>1. \A k \in Kinds : Holds(q, k)'
  BY DEF FlashInv, Holds
<1>2. qjob'[q] = "ok" => qspi'[TargetOf[q]]
  BY DEF FlashInv
<1>3. pc'[q] \in {"reboot", "exit", "ok"} => JobsOk(q)'
  BY DEF FlashInv, JobsOk
<1> QED
  BY <1>1, <1>2, <1>3

LEMMA MovesFlash ==
  ASSUME TypeOK, FlashInv, NEW p \in Procs, NEW l, NEW m, Moves(p, l, m),
         m \in {"reboot", "exit", "ok"} => l \in {"reboot", "exit", "ok"},
         UNCHANGED <<lost, disk, qspi, at, on, qjob, spoilt>>
  PROVE  FlashInv'
<1>1. \A q \in Procs : pc'[q] \in {"reboot", "exit", "ok"} => pc[q] \in {"reboot", "exit", "ok"}
  BY DEF Moves, Goto, TypeOK
<1> QED
  BY <1>1, FlashKept

\* A writer changes its own step, its own disk and nothing of the others.
LEMMA WriterKept ==
  ASSUME TypeOK, FlashInv, NEW p \in Procs, NEW k \in Kinds, pc[p] = "flash",
         UNCHANGED <<pc, lost, spoilt, qspi, qjob>>,
         \A w \in Writers \ {<<p, k>>} : at'[w] = at[w] /\ on'[w] = on[w],
         lost = {} => /\ \A d \in Disks \ {<<TargetOf[p], k>>} : disk'[d] = disk[d]
                      /\ Holds(p, k)'
  PROVE  FlashInv'
<1> SUFFICES ASSUME lost = {}, NEW q \in Procs
             PROVE  /\ \A j \in Kinds : Holds(q, j)'
                    /\ qjob'[q] = "ok" => qspi'[TargetOf[q]]
                    /\ pc'[q] \in {"reboot", "exit", "ok"} => JobsOk(q)'
  BY DEF FlashInv
<1>1. ASSUME NEW j \in Kinds
      PROVE  Holds(q, j)'
  <2>1. CASE q = p /\ j = k
    BY <2>1
  <2>2. CASE ~(q = p /\ j = k)
    <3>1. <<q, j>> \in Writers \ {<<p, k>>} /\ <<TargetOf[q], j>> \in Disks \ {<<TargetOf[p], k>>}
      BY <2>2, DiskParts, ProcsAssumption
    <3>2. at'[<<q, j>>] = at[<<q, j>>] /\ on'[<<q, j>>] = on[<<q, j>>]
      BY <3>1
    <3>3. disk'[<<TargetOf[q], j>>] = disk[<<TargetOf[q], j>>]
      BY <3>1
    <3>4. Holds(q, j)
      BY DEF FlashInv
    <3> QED
      BY <3>2, <3>3, <3>4 DEF Holds
  <2> QED
    BY <2>1, <2>2
<1>2. qjob'[q] = "ok" => qspi'[TargetOf[q]]
  BY DEF FlashInv
<1>3. pc'[q] \in {"reboot", "exit", "ok"} => JobsOk(q)'
  <2> SUFFICES ASSUME pc[q] \in {"reboot", "exit", "ok"} PROVE JobsOk(q)'
    OBVIOUS
  <2>1. JobsOk(q) /\ q # p
    BY DEF FlashInv
  <2>2. \A j \in Kinds : at'[<<q, j>>] = at[<<q, j>>]
    BY <2>1, DiskParts
  <2> QED
    BY <2>1, <2>2 DEF JobsOk
<1> QED
  BY <1>1, <1>2, <1>3

\* With nothing lost, the disk that a writer of p opens is its own.
LEMMA OwnDisk ==
  ASSUME TypeOK, BootInv, SearchInv, lost = {}, NEW p \in Procs, NEW k \in Kinds, pc[p] = "flash"
  PROVE  /\ Block(held[<<p, k>>]) = <<TargetOf[p], k>>
         /\ <<TargetOf[p], k>> \in Disks /\ <<TargetOf[p], k>> # NoDisk
         /\ on[<<p, k>>] \in {NoDisk, <<TargetOf[p], k>>}
         /\ sshcon[p] = TargetOf[p]
<1>1. TargetOf[p] \in Targets
  BY ProcsAssumption
<1> QED
  BY <1>1, DeviceIsThere, DiskParts DEF SearchInv, Finds

LEMMA FlashStep ==
  ASSUME TypeOK, BootInv, SearchInv, FlashInv, Next \/ UNCHANGED vars
  PROVE  FlashInv'
<1>1. ASSUME NEW t \in Targets, NEW k \in Kinds, Attach(t, k)
     PROVE  FlashInv'
  <2>1. UNCHANGED <<pc, lost, disk, qspi, at, on, qjob, spoilt>>
    BY <1>1 DEF Attach, bus, media, search, jobs, main, hist
  <2> QED
    BY <2>1, FlashKept
<1>2. ASSUME NEW t \in Targets, Drop(t)
     PROVE  FlashInv'
  BY <1>2 DEF Drop, FlashInv
<1>3. ASSUME NEW p \in Procs, NEW k \in Kinds, WriteError(p, k)
     PROVE  FlashInv'
  <2>1. /\ UNCHANGED <<lost, disk, qspi, at, qjob, pc>> /\ on[<<p, k>>] # NoDisk
        /\ spoilt' = spoilt \cup {on[<<p, k>>]} /\ on' = [on EXCEPT ![<<p, k>>] = NoDisk]
    BY <1>3 DEF WriteError, bus, media, search, jobs, main, hist
  <2> SUFFICES ASSUME lost = {}, NEW q \in Procs
               PROVE  /\ \A j \in Kinds : Holds(q, j)'
                      /\ qjob'[q] = "ok" => qspi'[TargetOf[q]]
                      /\ pc'[q] \in {"reboot", "exit", "ok"} => JobsOk(q)'
    BY <2>1 DEF FlashInv
  <2>2. ASSUME NEW j \in Kinds, <<TargetOf[q], j>> \notin spoilt'
        PROVE  on'[<<q, j>>] = on[<<q, j>>]
    <3>1. on[<<q, j>>] \in {NoDisk, <<TargetOf[q], j>>}
      BY DEF SearchInv, Finds
    <3> QED
      BY <2>1, <2>2, <3>1, DiskParts DEF TypeOK
  <2>3. \A j \in Kinds : Holds(q, j)'
    BY <2>1, <2>2, ZenonT(60) DEF FlashInv, Holds
  <2>4. qjob'[q] = "ok" => qspi'[TargetOf[q]]
    BY <2>1 DEF FlashInv
  <2>5. pc'[q] \in {"reboot", "exit", "ok"} => JobsOk(q)'
    BY <2>1 DEF FlashInv, JobsOk
  <2> QED
    BY <2>3, <2>4, <2>5
<1>4. ASSUME NEW p \in Procs, BootInitrd(p)
     PROVE  FlashInv'
  <2>1. \A q \in Procs : pc'[q] \in {"reboot", "exit", "ok"} => pc[q] \in {"reboot", "exit", "ok"}
    BY <1>4 DEF BootInitrd, Goto, Exit, TypeOK
  <2> QED
    BY <1>4, <2>1, FlashKept DEF BootInitrd, bus, media, search, jobs, main, hist
<1>5. ASSUME NEW p \in Procs, List(p)
     PROVE  FlashInv'
  <2>1. Goto(p, "list", "look") /\ UNCHANGED dev
    BY <1>5 DEF List, bus
  <2>2. Moves(p, "list", "look")
    BY <2>1, ExitMoves, GotoMoves
  <2>3. UNCHANGED <<lost, disk, qspi, at, on, qjob, spoilt>>
    BY <1>5 DEF List, bus, bus, media, search, jobs, main, hist
  <2> QED
    BY <2>2, <2>3, MovesFlash
<1>6. ASSUME NEW p \in Procs, NEW n \in Names, Look(p, n)
     PROVE  FlashInv'
  <2>1. UNCHANGED <<pc, lost, disk, qspi, at, on, qjob, spoilt>>
    BY <1>6 DEF Look, bus, media, search, jobs, main, hist
  <2> QED
    BY <2>1, FlashKept
<1>7. ASSUME NEW p \in Procs, LookAtNothing(p)
     PROVE  FlashInv'
  <2>1. Exit(p, "look", "fail")
    BY <1>7 DEF LookAtNothing
  <2>2. Moves(p, "look", "fail")
    BY <2>1, ExitMoves, GotoMoves
  <2>3. UNCHANGED <<lost, disk, qspi, at, on, qjob, spoilt>>
    BY <1>7 DEF LookAtNothing, bus, media, search, jobs, main, hist
  <2> QED
    BY <2>2, <2>3, MovesFlash
<1>8. ASSUME NEW p \in Procs, KeepLooking(p)
     PROVE  FlashInv'
  <2>1. \/ Exit(p, "look", "fail")
        \/ Goto(p, "look", "list") /\ UNCHANGED dev
    BY <1>8 DEF KeepLooking, Poll
  <2>2. Moves(p, "look", "fail") \/ Moves(p, "look", "list")
    BY <2>1, ExitMoves, GotoMoves
  <2>3. UNCHANGED <<lost, disk, qspi, at, on, qjob, spoilt>>
    BY <1>8 DEF KeepLooking, Poll, bus, media, search, jobs, main, hist
  <2> QED
    BY <2>2, <2>3, MovesFlash
<1>9. ASSUME NEW p \in Procs, ReadSerial(p)
     PROVE  FlashInv'
  <2>1. \/ Exit(p, "look", "fail")
        \/ Goto(p, "look", "ssh") /\ UNCHANGED dev
    BY <1>9 DEF ReadSerial
  <2>2. Moves(p, "look", "fail") \/ Moves(p, "look", "ssh")
    BY <2>1, ExitMoves, GotoMoves
  <2>3. UNCHANGED <<lost, disk, qspi, at, on, qjob, spoilt>>
    BY <1>9 DEF ReadSerial, bus, media, search, jobs, main, hist
  <2> QED
    BY <2>2, <2>3, MovesFlash
<1>10. ASSUME NEW p \in Procs, PingDevice(p)
     PROVE  FlashInv'
  <2>1. Goto(p, "ssh", "flash") /\ UNCHANGED dev
    BY <1>10 DEF PingDevice, bus
  <2>2. Moves(p, "ssh", "flash")
    BY <2>1, ExitMoves, GotoMoves
  <2>3. UNCHANGED <<lost, disk, qspi, at, on, qjob, spoilt>>
    BY <1>10 DEF PingDevice, bus, bus, media, search, jobs, main, hist
  <2> QED
    BY <2>2, <2>3, MovesFlash
<1>11. ASSUME NEW p \in Procs, NoAnswer(p)
     PROVE  FlashInv'
  <2>1. \/ Exit(p, "ssh", "fail")
        \/ Goto(p, "ssh", "ssh") /\ UNCHANGED dev
    BY <1>11 DEF NoAnswer, Poll
  <2>2. Moves(p, "ssh", "fail") \/ Moves(p, "ssh", "ssh")
    BY <2>1, ExitMoves, GotoMoves
  <2>3. UNCHANGED <<lost, disk, qspi, at, on, qjob, spoilt>>
    BY <1>11 DEF NoAnswer, Poll, bus, media, search, jobs, main, hist
  <2> QED
    BY <2>2, <2>3, MovesFlash
<1>12. ASSUME NEW p \in Procs, Partprobe(p)
     PROVE  FlashInv'
  <2>1. /\ pc[p] = "flash" /\ UNCHANGED <<pc, lost, spoilt, qspi, qjob, on, disk>>
        /\ \A k \in Kinds : at[<<p, k>>] = "probe"
        /\ AllWriters(p, "app") \/ AllWriters(p, "fail")
    BY <1>12 DEF Partprobe, bus, media, search, jobs, main, hist
  <2> SUFFICES ASSUME lost = {}, NEW q \in Procs
               PROVE  /\ \A j \in Kinds : Holds(q, j)'
                      /\ qjob'[q] = "ok" => qspi'[TargetOf[q]]
                      /\ pc'[q] \in {"reboot", "exit", "ok"} => JobsOk(q)'
    BY <2>1 DEF FlashInv
  <2>2. \A j \in Kinds : /\ q # p => at'[<<q, j>>] = at[<<q, j>>]
                         /\ q = p => at'[<<q, j>>] \in {"app", "fail"} /\ at[<<q, j>>] = "probe"
    BY <2>1, DiskParts DEF AllWriters
  <2>3. \A j \in Kinds : Holds(q, j)'
    BY <2>1, <2>2, SMTT(30) DEF FlashInv, Holds
  <2>4. qjob'[q] = "ok" => qspi'[TargetOf[q]]
    BY <2>1 DEF FlashInv
  <2>5. pc'[q] \in {"reboot", "exit", "ok"} => JobsOk(q)'
    <3> SUFFICES ASSUME pc[q] \in {"reboot", "exit", "ok"} PROVE JobsOk(q)'
      BY <2>1
    <3>1. JobsOk(q) /\ q # p
      BY <2>1 DEF FlashInv
    <3> QED
      BY <2>1, <2>2, <3>1 DEF JobsOk
  <2> QED
    BY <2>3, <2>4, <2>5
<1>13. ASSUME NEW p \in Procs, NEW k \in Kinds, CreateGpt(p, k)
     PROVE  FlashInv'
  <2>1. pc[p] = "flash" /\ UNCHANGED <<pc, lost, spoilt, qspi, qjob, on>>
    BY <1>13 DEF CreateGpt, bus, media, search, jobs, main, hist
  <2>2. CASE lost # {}
    BY <2>1, <2>2 DEF FlashInv
  <2>3. CASE lost = {}
    <3> DEFINE u == <<TargetOf[p], k>>
    <3>1. Block(held[<<p, k>>]) = u /\ u \in Disks /\ u # NoDisk
      BY <2>1, <2>3, OwnDisk
    <3>2. /\ at' = [at EXCEPT ![<<p, k>>] = "probe"] /\ disk' = [disk EXCEPT ![u] = {"gpt"}]
      BY <1>13, <3>1 DEF CreateGpt, Step
    <3> HIDE DEF u
    <3>3. \A w \in Writers \ {<<p, k>>} : at'[w] = at[w] /\ on'[w] = on[w]
      BY <2>1, <3>2 DEF TypeOK
    <3>4. \A d \in Disks \ {u} : disk'[d] = disk[d]
      BY <3>1, <3>2 DEF TypeOK
    <3>5. Holds(p, k)'
      <4>1. at'[<<p, k>>] = "probe" /\ disk'[u] = {"gpt"}
        BY <3>1, <3>2, DiskParts DEF TypeOK
      <4> QED
        BY <4>1 DEF Holds, u
    <3> QED
      BY <2>1, <3>3, <3>4, <3>5, WriterKept DEF u
  <2> QED
    BY <2>2, <2>3
<1>14. ASSUME NEW p \in Procs, NEW k \in Kinds, OpenApp(p, k)
     PROVE  FlashInv'
  <2>1. pc[p] = "flash" /\ UNCHANGED <<pc, lost, spoilt, qspi, qjob>>
    BY <1>14 DEF OpenApp, Step, bus, media, search, jobs, main, hist
  <2>2. \A w \in Writers \ {<<p, k>>} : at'[w] = at[w] /\ on'[w] = on[w]
    BY <1>14 DEF OpenApp, Step, Open, Written, TypeOK
  <2>3. ASSUME lost = {}
        PROVE  (\A d \in Disks \ {<<TargetOf[p], k>>} : disk'[d] = disk[d]) /\ Holds(p, k)'
    <3> DEFINE u == <<TargetOf[p], k>>
    <3>1. /\ Block(held[<<p, k>>]) = u /\ u \in Disks /\ u # NoDisk
          /\ on[<<p, k>>] \in {NoDisk, u} /\ Holds(p, k)
      BY <2>1, <2>3, OwnDisk DEF FlashInv
    <3>2. <<p, k>> \in Writers
      BY DiskParts
    <3>3. \/ /\ at[<<p, k>>] = "app" /\ at' = [at EXCEPT ![<<p, k>>] = "untar"]
             /\ on' = [on EXCEPT ![<<p, k>>] = u] /\ disk' = [disk EXCEPT ![u] = @ \ {"app"}]
          \/ at[<<p, k>>] = "app" /\ at' = [at EXCEPT ![<<p, k>>] = "fail"] /\ UNCHANGED <<on, disk>>
      BY <1>14, <3>1 DEF OpenApp, Step, Open, Written
    <3> HIDE DEF u
    <3>4. /\ \A d \in Disks \ {u} : disk'[d] = disk[d]
          /\ spoilt' = spoilt
      BY <2>1, <3>1, <3>3 DEF TypeOK
    <3>5. Holds(p, k)'
      <4>1. \/ at'[<<p, k>>] = "untar" /\ on'[<<p, k>>] = u /\ disk'[u] = disk[u] \ {"app"}
            \/ at'[<<p, k>>] = "fail"
        BY <3>1, <3>2, <3>3 DEF TypeOK
      <4>2. u \notin spoilt => "gpt" \in disk[u]
        BY <3>1, <3>3 DEF Holds, u
      <4> QED
        BY <2>1, <4>1, <4>2 DEF Holds, u
    <3> QED
      BY <3>4, <3>5 DEF u
  <2> QED
    BY <2>1, <2>2, <2>3, WriterKept
<1>15. ASSUME NEW p \in Procs, NEW k \in Kinds, CloseApp(p, k)
     PROVE  FlashInv'
  <2>1. pc[p] = "flash" /\ UNCHANGED <<pc, lost, spoilt, qspi, qjob>>
    BY <1>15 DEF CloseApp, Step, bus, media, search, jobs, main, hist
  <2>2. \A w \in Writers \ {<<p, k>>} : at'[w] = at[w] /\ on'[w] = on[w]
    BY <1>15 DEF CloseApp, Step, Open, Written, TypeOK
  <2>3. ASSUME lost = {}
        PROVE  (\A d \in Disks \ {<<TargetOf[p], k>>} : disk'[d] = disk[d]) /\ Holds(p, k)'
    <3> DEFINE u == <<TargetOf[p], k>>
    <3>1. /\ Block(held[<<p, k>>]) = u /\ u \in Disks /\ u # NoDisk
          /\ on[<<p, k>>] \in {NoDisk, u} /\ Holds(p, k)
      BY <2>1, <2>3, OwnDisk DEF FlashInv
    <3>2. <<p, k>> \in Writers
      BY DiskParts
    <3>3. /\ at[<<p, k>>] = "untar"
          /\ \/ at' = [at EXCEPT ![<<p, k>>] = "wait"]
             \/ at' = [at EXCEPT ![<<p, k>>] = "fail"] /\ on[<<p, k>>] = NoDisk
          /\ disk' = IF on[<<p, k>>] = NoDisk THEN disk ELSE [disk EXCEPT ![u] = @ \cup {"app"}]
          /\ on' = [on EXCEPT ![<<p, k>>] = NoDisk]
      BY <1>15, <3>1 DEF CloseApp, Step, Open, Written
    <3> HIDE DEF u
    <3>4. /\ \A d \in Disks \ {u} : disk'[d] = disk[d]
          /\ spoilt' = spoilt
      BY <2>1, <3>1, <3>3 DEF TypeOK
    <3>5. Holds(p, k)'
      BY <2>1, <3>1, <3>2, <3>3, ZenonT(60) DEF TypeOK, Holds, u
    <3> QED
      BY <3>4, <3>5 DEF u
  <2> QED
    BY <2>1, <2>2, <2>3, WriterKept
<1>16. ASSUME NEW p \in Procs, NEW k \in Kinds, WaitForBlockDev(p, k)
     PROVE  FlashInv'
  <2>1. pc[p] = "flash" /\ UNCHANGED <<pc, lost, spoilt, qspi, qjob>>
    BY <1>16 DEF WaitForBlockDev, Step, bus, media, search, jobs, main, hist
  <2>2. \A w \in Writers \ {<<p, k>>} : at'[w] = at[w] /\ on'[w] = on[w]
    BY <1>16 DEF WaitForBlockDev, Step, jobs, TypeOK
  <2>3. ASSUME lost = {}
        PROVE  (\A d \in Disks \ {<<TargetOf[p], k>>} : disk'[d] = disk[d]) /\ Holds(p, k)'
    <3> DEFINE u == <<TargetOf[p], k>>
    <3>1. /\ Block(held[<<p, k>>]) = u /\ u \in Disks /\ u # NoDisk
          /\ on[<<p, k>>] \in {NoDisk, u} /\ Holds(p, k)
      BY <2>1, <2>3, OwnDisk DEF FlashInv
    <3>2. <<p, k>> \in Writers
      BY DiskParts
    <3>3. at[<<p, k>>] = "wait" /\ at' = [at EXCEPT ![<<p, k>>] = "open"] /\ UNCHANGED <<on, disk>>
      BY <1>16, <3>1 DEF WaitForBlockDev, Step, media
    <3> HIDE DEF u
    <3>4. /\ \A d \in Disks \ {u} : disk'[d] = disk[d]
          /\ spoilt' = spoilt
      BY <2>1, <3>1, <3>3 DEF TypeOK
    <3>5. Holds(p, k)'
      BY <2>1, <3>1, <3>2, <3>3 DEF TypeOK, Holds, u
    <3> QED
      BY <3>4, <3>5 DEF u
  <2> QED
    BY <2>1, <2>2, <2>3, WriterKept
<1>17. ASSUME NEW p \in Procs, NEW k \in Kinds, OpenPart(p, k)
     PROVE  FlashInv'
  <2>1. pc[p] = "flash" /\ UNCHANGED <<pc, lost, spoilt, qspi, qjob>>
    BY <1>17 DEF OpenPart, Step, bus, media, search, jobs, main, hist
  <2>2. \A w \in Writers \ {<<p, k>>} : at'[w] = at[w] /\ on'[w] = on[w]
    BY <1>17 DEF OpenPart, Step, Open, Written, TypeOK
  <2>3. ASSUME lost = {}
        PROVE  (\A d \in Disks \ {<<TargetOf[p], k>>} : disk'[d] = disk[d]) /\ Holds(p, k)'
    <3> DEFINE u == <<TargetOf[p], k>>
    <3>1. /\ Block(held[<<p, k>>]) = u /\ u \in Disks /\ u # NoDisk
          /\ on[<<p, k>>] \in {NoDisk, u} /\ Holds(p, k)
      BY <2>1, <2>3, OwnDisk DEF FlashInv
    <3>2. <<p, k>> \in Writers
      BY DiskParts
    <3>3. /\ at[<<p, k>>] = "open" /\ at' = [at EXCEPT ![<<p, k>>] = "dd"]
          /\ on' = [on EXCEPT ![<<p, k>>] = u] /\ disk' = [disk EXCEPT ![u] = @ \ {"part"}]
      BY <1>17, <3>1 DEF OpenPart, Step, Open, Written
    <3> HIDE DEF u
    <3>4. /\ \A d \in Disks \ {u} : disk'[d] = disk[d]
          /\ spoilt' = spoilt
      BY <2>1, <3>1, <3>3 DEF TypeOK
    <3>5. Holds(p, k)'
      BY <2>1, <3>1, <3>2, <3>3 DEF TypeOK, Holds, u
    <3> QED
      BY <3>4, <3>5 DEF u
  <2> QED
    BY <2>1, <2>2, <2>3, WriterKept
<1>18. ASSUME NEW p \in Procs, NEW k \in Kinds, ClosePart(p, k)
     PROVE  FlashInv'
  <2>1. pc[p] = "flash" /\ UNCHANGED <<pc, lost, spoilt, qspi, qjob>>
    BY <1>18 DEF ClosePart, Step, bus, media, search, jobs, main, hist
  <2>2. \A w \in Writers \ {<<p, k>>} : at'[w] = at[w] /\ on'[w] = on[w]
    BY <1>18 DEF ClosePart, Step, Open, Written, TypeOK
  <2>3. ASSUME lost = {}
        PROVE  (\A d \in Disks \ {<<TargetOf[p], k>>} : disk'[d] = disk[d]) /\ Holds(p, k)'
    <3> DEFINE u == <<TargetOf[p], k>>
    <3>1. /\ Block(held[<<p, k>>]) = u /\ u \in Disks /\ u # NoDisk
          /\ on[<<p, k>>] \in {NoDisk, u} /\ Holds(p, k)
      BY <2>1, <2>3, OwnDisk DEF FlashInv
    <3>2. <<p, k>> \in Writers
      BY DiskParts
    <3>3. /\ at[<<p, k>>] = "dd" /\ at' = [at EXCEPT ![<<p, k>>] = "ok"]
          /\ disk' = IF on[<<p, k>>] = NoDisk THEN disk ELSE [disk EXCEPT ![u] = @ \cup {"part"}]
          /\ on' = [on EXCEPT ![<<p, k>>] = NoDisk]
      BY <1>18, <3>1 DEF ClosePart, Step, Open, Written
    <3> HIDE DEF u
    <3>4. /\ \A d \in Disks \ {u} : disk'[d] = disk[d]
          /\ spoilt' = spoilt
      BY <2>1, <3>1, <3>3 DEF TypeOK
    <3>5. Holds(p, k)'
      BY <2>1, <3>1, <3>2, <3>3, SMTT(60) DEF TypeOK, Holds, u
    <3> QED
      BY <3>4, <3>5 DEF u
  <2> QED
    BY <2>1, <2>2, <2>3, WriterKept
<1>19. ASSUME NEW p \in Procs, BeginQspi(p)
     PROVE  FlashInv'
  <2>1. /\ pc[p] = "flash" /\ qjob[p] # "ok" /\ UNCHANGED <<pc, lost, spoilt, at, on, disk>>
        /\ \/ qjob' = [qjob EXCEPT ![p] = "run"] /\ qspi' = [qspi EXCEPT ![sshcon[p]] = FALSE]
           \/ qjob' = [qjob EXCEPT ![p] = "fail"] /\ UNCHANGED qspi
    BY <1>19 DEF BeginQspi, QspiStep, bus, media, search, jobs, main, hist
  <2> SUFFICES ASSUME lost = {}, NEW q \in Procs
               PROVE  /\ \A j \in Kinds : Holds(q, j)'
                      /\ qjob'[q] = "ok" => qspi'[TargetOf[q]]
                      /\ pc'[q] \in {"reboot", "exit", "ok"} => JobsOk(q)'
    BY <2>1 DEF FlashInv
  <2>2. \A j \in Kinds : Holds(q, j)'
    BY <2>1 DEF FlashInv, Holds
  <2>3. sshcon[p] = TargetOf[p] /\ TargetOf[p] \in Targets /\ TargetOf[q] \in Targets
    BY <2>1, KindsAssumption, ProcsAssumption, OwnDisk
  <2>4. qjob'[q] = "ok" => qspi'[TargetOf[q]]
    <3>1. CASE q = p
      BY <2>1, <2>3, <3>1 DEF TypeOK
    <3>2. CASE q # p
      <4>1. qjob'[q] = qjob[q] /\ qspi'[TargetOf[q]] = qspi[TargetOf[q]]
        BY <2>1, <2>3, <3>2, ProcsAssumption DEF TypeOK
      <4> QED
        BY <4>1 DEF FlashInv
    <3> QED
      BY <3>1, <3>2
  <2>5. pc'[q] \in {"reboot", "exit", "ok"} => JobsOk(q)'
    <3> SUFFICES ASSUME pc[q] \in {"reboot", "exit", "ok"} PROVE JobsOk(q)'
      BY <2>1
    <3>1. JobsOk(q) /\ q # p
      BY <2>1 DEF FlashInv
    <3>2. qjob'[q] = qjob[q]
      BY <2>1, <3>1 DEF TypeOK
    <3> QED
      BY <2>1, <3>1, <3>2 DEF JobsOk
  <2> QED
    BY <2>2, <2>4, <2>5
<1>20. ASSUME NEW p \in Procs, EndQspi(p)
     PROVE  FlashInv'
  <2>1. /\ pc[p] = "flash" /\ qjob[p] # "ok" /\ UNCHANGED <<pc, lost, spoilt, at, on, disk>>
        /\ \/ qjob' = [qjob EXCEPT ![p] = "ok"] /\ qspi' = [qspi EXCEPT ![sshcon[p]] = TRUE]
           \/ qjob' = [qjob EXCEPT ![p] = "fail"] /\ UNCHANGED qspi
    BY <1>20 DEF EndQspi, QspiStep, bus, media, search, jobs, main, hist
  <2> SUFFICES ASSUME lost = {}, NEW q \in Procs
               PROVE  /\ \A j \in Kinds : Holds(q, j)'
                      /\ qjob'[q] = "ok" => qspi'[TargetOf[q]]
                      /\ pc'[q] \in {"reboot", "exit", "ok"} => JobsOk(q)'
    BY <2>1 DEF FlashInv
  <2>2. \A j \in Kinds : Holds(q, j)'
    BY <2>1 DEF FlashInv, Holds
  <2>3. sshcon[p] = TargetOf[p] /\ TargetOf[p] \in Targets /\ TargetOf[q] \in Targets
    BY <2>1, KindsAssumption, ProcsAssumption, OwnDisk
  <2>4. qjob'[q] = "ok" => qspi'[TargetOf[q]]
    <3>1. CASE q = p
      BY <2>1, <2>3, <3>1 DEF TypeOK
    <3>2. CASE q # p
      <4>1. qjob'[q] = qjob[q] /\ qspi'[TargetOf[q]] = qspi[TargetOf[q]]
        BY <2>1, <2>3, <3>2, ProcsAssumption DEF TypeOK
      <4> QED
        BY <4>1 DEF FlashInv
    <3> QED
      BY <3>1, <3>2
  <2>5. pc'[q] \in {"reboot", "exit", "ok"} => JobsOk(q)'
    <3> SUFFICES ASSUME pc[q] \in {"reboot", "exit", "ok"} PROVE JobsOk(q)'
      BY <2>1
    <3>1. JobsOk(q) /\ q # p
      BY <2>1 DEF FlashInv
    <3>2. qjob'[q] = qjob[q]
      BY <2>1, <3>1 DEF TypeOK
    <3> QED
      BY <2>1, <3>1, <3>2 DEF JobsOk
  <2> QED
    BY <2>2, <2>4, <2>5
<1>21. ASSUME NEW p \in Procs, WaitForJobs(p)
     PROVE  FlashInv'
  <2>1. UNCHANGED <<lost, disk, qspi, at, on, qjob, spoilt>>
    BY <1>21 DEF WaitForJobs, bus, media, search, jobs, main, hist
  <2>2. CASE JobsOk(p)
    <3>1. pc' = [pc EXCEPT ![p] = "reboot"]
      BY <1>21, <2>2 DEF WaitForJobs, Goto
    <3> SUFFICES ASSUME lost = {}, NEW q \in Procs
                 PROVE  /\ \A j \in Kinds : Holds(q, j)'
                        /\ qjob'[q] = "ok" => qspi'[TargetOf[q]]
                        /\ pc'[q] \in {"reboot", "exit", "ok"} => JobsOk(q)'
      BY <2>1 DEF FlashInv
    <3>2. \A j \in Kinds : Holds(q, j)'
      BY <2>1 DEF FlashInv, Holds
    <3>3. qjob'[q] = "ok" => qspi'[TargetOf[q]]
      BY <2>1 DEF FlashInv
    <3>4. pc'[q] \in {"reboot", "exit", "ok"} => JobsOk(q)
      BY <2>2, <3>1 DEF FlashInv, TypeOK
    <3>5. JobsOk(q)' = JobsOk(q)
      BY <2>1 DEF JobsOk
    <3> QED
      BY <3>2, <3>3, <3>4, <3>5
  <2>3. CASE ~JobsOk(p)
    <3>1. Moves(p, "flash", "fail")
      BY <1>21, <2>3, ExitMoves DEF WaitForJobs
    <3> QED
      BY <2>1, <3>1, MovesFlash
  <2> QED
    BY <2>2, <2>3
<1>22. ASSUME NEW p \in Procs, RebootTarget(p)
     PROVE  FlashInv'
  <2> DEFINE u == sshcon[p]
  <2>1. /\ u \in Targets /\ pc[p] = "reboot" /\ Detach(u)
        /\ lost' = IF u = TargetOf[p] THEN lost ELSE lost \cup {u}
        /\ pc' = [pc EXCEPT ![p] = "exit"]
        /\ UNCHANGED <<spoilt, disk, qspi, at, qjob>>
    BY <1>22 DEF RebootTarget, Up, Goto, bus, media, search, jobs, main, hist
  <2> HIDE DEF u
  <2> SUFFICES ASSUME lost' = {}, NEW q \in Procs
               PROVE  /\ \A j \in Kinds : Holds(q, j)'
                      /\ qjob'[q] = "ok" => qspi'[TargetOf[q]]
                      /\ pc'[q] \in {"reboot", "exit", "ok"} => JobsOk(q)'
    BY DEF FlashInv
  <2>2. lost = {} /\ u = TargetOf[p]
    BY <2>1
  <2>3. JobsOk(p)
    BY <2>1, <2>2 DEF FlashInv
  <2>4. ASSUME NEW j \in Kinds
        PROVE  Holds(q, j)'
    <3>1. CASE q = p
      BY <2>1, <2>2, <2>3, <3>1 DEF FlashInv, Holds, JobsOk
    <3>2. CASE q # p
      <4>1. <<q, j>> \in Writers /\ <<TargetOf[q], j>> \notin DisksOf(u) /\ NoDisk \notin DisksOf(u)
        BY <2>2, <3>2, DiskParts, ProcsAssumption DEF DisksOf, NoDisk
      <4>2. on[<<q, j>>] \in {NoDisk, <<TargetOf[q], j>>}
        BY <2>2 DEF SearchInv, Finds
      <4>3. on'[<<q, j>>] = on[<<q, j>>]
        BY <2>1, <4>1, <4>2 DEF Detach
      <4> QED
        BY <2>1, <2>2, <4>3 DEF FlashInv, Holds
    <3> QED
      BY <3>1, <3>2
  <2>5. qjob'[q] = "ok" => qspi'[TargetOf[q]]
    BY <2>1, <2>2 DEF FlashInv
  <2>6. pc'[q] \in {"reboot", "exit", "ok"} => JobsOk(q)
    BY <2>1, <2>2, <2>3 DEF FlashInv, TypeOK
  <2>7. JobsOk(q)' = JobsOk(q)
    BY <2>1 DEF JobsOk
  <2> QED
    BY <2>4, <2>5, <2>6, <2>7
<1>23. ASSUME NEW p \in Procs, RebootFailed(p)
     PROVE  FlashInv'
  <2>1. Exit(p, "reboot", "fail")
    BY <1>23 DEF RebootFailed
  <2>2. Moves(p, "reboot", "fail")
    BY <2>1, ExitMoves, GotoMoves
  <2>3. UNCHANGED <<lost, disk, qspi, at, on, qjob, spoilt>>
    BY <1>23 DEF RebootFailed, bus, media, search, jobs, main, hist
  <2> QED
    BY <2>2, <2>3, MovesFlash
<1>24. ASSUME NEW p \in Procs, Success(p)
     PROVE  FlashInv'
  <2>1. Exit(p, "exit", "ok")
    BY <1>24 DEF Success
  <2>2. Moves(p, "exit", "ok")
    BY <2>1, ExitMoves, GotoMoves
  <2>3. UNCHANGED <<lost, disk, qspi, at, on, qjob, spoilt>>
    BY <1>24 DEF Success, bus, media, search, jobs, main, hist
  <2> QED
    BY <2>2, <2>3, MovesFlash
<1>25. ASSUME NEW p \in Procs, Reap(p)
     PROVE  FlashInv'
  <2>1. UNCHANGED <<pc, lost, disk, qspi, at, on, qjob, spoilt>>
    BY <1>25 DEF Reap, bus, media, search, jobs, main, hist
  <2> QED
    BY <2>1, FlashKept
<1>26. CASE UNCHANGED vars
  BY <1>26, FlashKept DEF vars, bus, media, search, jobs, main, hist
<1> QED
  BY <1>1, <1>2, <1>3, <1>4, <1>5, <1>6, <1>7, <1>8, <1>9, <1>10, <1>11, <1>12, <1>13,
     <1>14, <1>15, <1>16, <1>17, <1>18, <1>19, <1>20, <1>21, <1>22, <1>23, <1>24, <1>25,
     <1>26 DEF Next, Bus, Process, Write
LEMMA ReapStep ==
  ASSUME TypeOK, ReapInv, Next \/ UNCHANGED vars
  PROVE  ReapInv'
<1>1. ASSUME NEW p \in Procs, Reap(p)
      PROVE  ReapInv'
  <2>1. p \in pids /\ Ended(p) /\ pids' = pids \ {p} /\ pc' = pc
    BY <1>1 DEF Reap
  <2>2. failure' = (failure \/ pc[p] = "fail")
    BY <1>1 DEF Reap
  <2>3. \A q \in Procs : q \in Procs \ pids' <=> q \in Procs \ pids \/ q = p
    BY <2>1
  <2>4. \A q \in Procs \ pids' : Ended(q)'
    BY <2>1, <2>3 DEF ReapInv, Ended
  <2>5. (\E q \in Procs \ pids' : pc'[q] = "fail") <=> (\E q \in Procs \ pids : pc[q] = "fail") \/ pc[p] = "fail"
    BY <2>1, <2>3
  <2>6. failure <=> \E q \in Procs \ pids : pc[q] = "fail"
    BY DEF ReapInv
  <2>7. failure' <=> \E q \in Procs \ pids' : pc'[q] = "fail"
    BY <2>2, <2>5, <2>6, Zenon
  <2> QED
    BY <2>4, <2>7 DEF ReapInv
<1>2. ASSUME UNCHANGED main, \A q \in Procs : Ended(q) => pc'[q] = pc[q]
      PROVE  ReapInv'
  <2>1. pids' = pids /\ failure' = failure
    BY <1>2 DEF main
  <2>2. \A q \in Procs \ pids' : Ended(q)'
    BY <1>2, <2>1 DEF ReapInv, Ended
  <2>3. \A q \in Procs \ pids : pc'[q] = pc[q]
    BY <1>2 DEF ReapInv
  <2>4. (\E q \in Procs \ pids' : pc'[q] = "fail") <=> \E q \in Procs \ pids : pc[q] = "fail"
    BY <2>1, <2>3
  <2>5. failure <=> \E q \in Procs \ pids : pc[q] = "fail"
    BY DEF ReapInv
  <2>6. failure' <=> \E q \in Procs \ pids' : pc'[q] = "fail"
    BY <2>1, <2>4, <2>5, Zenon
  <2> QED
    BY <2>2, <2>6 DEF ReapInv
<1>3. ASSUME NEW p \in Procs, NEW l, NEW m, Goto(p, l, m), l \notin {"ok", "fail"}
      PROVE  \A q \in Procs : Ended(q) => pc'[q] = pc[q]
  BY <1>3 DEF Goto, Ended, TypeOK
<1>4. ASSUME Bus
      PROVE  UNCHANGED <<pc, main>>
  BY <1>4 DEF Bus, Drop, Attach, WriteError
<1>5. ASSUME NEW p \in Procs, Process(p)
      PROVE  UNCHANGED main
  BY <1>5 DEF Process, Write, BootInitrd, List, Look, LookAtNothing, KeepLooking, Poll, ReadSerial,
     PingDevice, NoAnswer, Partprobe, CreateGpt, OpenApp, CloseApp, WaitForBlockDev, OpenPart,
     ClosePart, BeginQspi, EndQspi, WaitForJobs, RebootTarget, RebootFailed, Success
<1>6. ASSUME NEW p \in Procs, Process(p)
      PROVE  pc' = pc \/ \E l \in Pcs \ {"ok", "fail"}, m \in Pcs : Goto(p, l, m)
  <2>1. BootInitrd(p) => \E m \in Pcs : Goto(p, "boot", m)
    BY DEF BootInitrd, Exit, Pcs
  <2>2. List(p) => Goto(p, "list", "look")
    BY DEF List
  <2>3. LookAtNothing(p) \/ KeepLooking(p) \/ ReadSerial(p) => \E m \in Pcs : Goto(p, "look", m)
    BY DEF LookAtNothing, KeepLooking, Poll, ReadSerial, Exit, Pcs
  <2>4. PingDevice(p) \/ NoAnswer(p) => \E m \in Pcs : Goto(p, "ssh", m)
    BY DEF PingDevice, NoAnswer, Poll, Exit, Pcs
  <2>5. WaitForJobs(p) => \E m \in Pcs : Goto(p, "flash", m)
    BY DEF WaitForJobs, Exit, Pcs
  <2>6. RebootTarget(p) \/ RebootFailed(p) => \E m \in Pcs : Goto(p, "reboot", m)
    BY DEF RebootTarget, RebootFailed, Exit, Pcs
  <2>7. Success(p) => Goto(p, "exit", "ok")
    BY DEF Success, Exit
  <2>8. (\E n \in Names : Look(p, n)) \/ Partprobe(p) \/ (\E k \in Kinds : Write(p, k))
        \/ BeginQspi(p) \/ EndQspi(p) => pc' = pc
    BY DEF Look, Partprobe, Write, CreateGpt, OpenApp, CloseApp, WaitForBlockDev, OpenPart,
       ClosePart, BeginQspi, EndQspi
  <2> QED
    BY <1>6, <2>1, <2>2, <2>3, <2>4, <2>5, <2>6, <2>7, <2>8 DEF Process, Pcs
<1>7. CASE UNCHANGED vars
  BY <1>2, <1>7 DEF vars
<1> QED
  BY <1>1, <1>2, <1>3, <1>4, <1>5, <1>6, <1>7 DEF Next

-----------------------------------------------------------------------------
(* The files that dd makes in /dev: Apart is not needed for them.          *)

\* Each of them stands under a name that a process holds which is still to exit.
Working == {"flash", "reboot", "exit"}
CleanInv == \A n \in Names : dev[n] = "file" =>
    \E p \in Procs, k \in Kinds : pc[p] \in Working /\ held[<<p, k>>] = n

LEMMA CleanKept ==
  ASSUME CleanInv, \A n \in Names : dev'[n] = "file" => dev[n] = "file",
         \A q \in Procs : pc[q] \in Working =>
             pc'[q] \in Working /\ \A k \in Kinds : held'[<<q, k>>] = held[<<q, k>>]
  PROVE  CleanInv'
  BY DEF CleanInv

\* What a process leaves when it exits is held by another.
LEMMA CleanExit ==
  ASSUME TypeOK, CleanInv, NEW p \in Procs, NEW l, NEW m, Exit(p, l, m), UNCHANGED held
  PROVE  CleanInv'
<1> SUFFICES ASSUME NEW n \in Names, dev'[n] = "file"
             PROVE  \E q \in Procs, k \in Kinds : pc'[q] \in Working /\ held'[<<q, k>>] = n
  BY DEF CleanInv
<1>1. dev[n] = "file" /\ \A k \in Kinds : held[<<p, k>>] # n
  BY DEF Exit, TypeOK
<1>2. PICK q \in Procs, k \in Kinds : pc[q] \in Working /\ held[<<q, k>>] = n
  BY <1>1 DEF CleanInv
<1>3. q # p
  BY <1>1, <1>2
<1>4. pc'[q] = pc[q]
  BY <1>3 DEF Exit, Goto, TypeOK
<1> QED
  BY <1>2, <1>4

LEMMA CleanGoto ==
  ASSUME TypeOK, CleanInv, NEW p \in Procs, NEW l, NEW m, Goto(p, l, m),
         l \in Working => m \in Working, UNCHANGED <<dev, held>>
  PROVE  CleanInv'
<1>1. \A q \in Procs : pc[q] \in Working => pc'[q] \in Working
  BY DEF Goto, TypeOK
<1> QED
  BY <1>1, CleanKept

LEMMA CleanStep ==
  ASSUME TypeOK, CleanInv, Next \/ UNCHANGED vars
  PROVE  CleanInv'
<1> USE DEF bus, media, search, jobs, main, hist
<1>1. ASSUME NEW t \in Targets, NEW k \in Kinds, Attach(t, k)
      PROVE  CleanInv'
  <2>1. \A n \in Names : dev'[n] = "file" => dev[n] = "file"
    BY <1>1 DEF Attach, TypeOK
  <2> QED
    BY <1>1, <2>1, CleanKept DEF Attach
<1>2. ASSUME NEW t \in Targets, Drop(t)
      PROVE  CleanInv'
  <2>1. \A n \in Names : dev'[n] = "file" => dev[n] = "file"
    BY <1>2 DEF Drop, NodesWithout
  <2> QED
    BY <1>2, <2>1, CleanKept DEF Drop
<1>3. ASSUME NEW p \in Procs, NEW k \in Kinds, WriteError(p, k)
      PROVE  CleanInv'
  BY <1>3, CleanKept DEF WriteError
<1>4. ASSUME NEW p \in Procs, Process(p)
      PROVE  CleanInv'
  <2>1. CASE BootInitrd(p)
    <3>1. CASE Goto(p, "boot", "list") /\ UNCHANGED <<dev, held>>
      BY <3>1, CleanGoto DEF Working
    <3>2. CASE Exit(p, "boot", "fail") /\ UNCHANGED held
      BY <3>2, CleanExit
    <3> QED
      BY <2>1, <3>1, <3>2 DEF BootInitrd
  <2>2. CASE List(p)
    BY <2>2, CleanGoto DEF List, Working
  <2>3. ASSUME NEW n \in Names, Look(p, n)
        PROVE  CleanInv'
    <3>1. pc[p] = "look" /\ pc' = pc /\ dev' = dev
      BY <2>3 DEF Look
    <3>2. \A q \in Procs, k \in Kinds : q # p => held'[<<q, k>>] = held[<<q, k>>]
      BY <2>3, DiskParts DEF Look, TypeOK
    <3> QED
      BY <3>1, <3>2, CleanKept DEF Working
  <2>4. CASE LookAtNothing(p) \/ RebootFailed(p) \/ Success(p)
    BY <2>4, CleanExit DEF LookAtNothing, RebootFailed, Success
  <2>5. ASSUME NEW l \in {"look", "ssh"}, NEW m, Poll(p, l, m)
        PROVE  CleanInv'
    <3>1. CASE Exit(p, l, "fail") /\ UNCHANGED held
      BY <3>1, CleanExit
    <3>2. CASE Goto(p, l, m) /\ UNCHANGED <<dev, held>>
      BY <3>2, CleanGoto DEF Working
    <3> QED
      BY <2>5, <3>1, <3>2 DEF Poll
  <2>6. CASE KeepLooking(p) \/ NoAnswer(p)
    BY <2>5, <2>6 DEF KeepLooking, NoAnswer
  <2>7. CASE ReadSerial(p)
    <3>1. CASE Exit(p, "look", "fail") /\ UNCHANGED held
      BY <3>1, CleanExit
    <3>2. CASE Goto(p, "look", "ssh") /\ UNCHANGED <<dev, held>>
      BY <3>2, CleanGoto DEF Working
    <3> QED
      BY <2>7, <3>1, <3>2 DEF ReadSerial
  <2>8. CASE PingDevice(p)
    BY <2>8, CleanGoto DEF PingDevice, Working
  <2>9. CASE Partprobe(p) \/ BeginQspi(p) \/ EndQspi(p)
    BY <2>9, CleanKept DEF Partprobe, BeginQspi, EndQspi
  <2>10. ASSUME NEW k \in Kinds, Write(p, k)
         PROVE  CleanInv'
    <3>1. CASE dev' = dev
      BY <2>10, <3>1, CleanKept DEF Write, CreateGpt, OpenApp, CloseApp, WaitForBlockDev,
         OpenPart, ClosePart
    <3>2. CASE dev' # dev
      <4>1. /\ dev' = [dev EXCEPT ![held[<<p, k>>]] = "file"]
            /\ pc[p] = "flash" /\ UNCHANGED <<pc, held>>
        BY <2>10, <3>2 DEF Write, CreateGpt, OpenApp, CloseApp, WaitForBlockDev, OpenPart,
           ClosePart, Step
      <4> SUFFICES ASSUME NEW n \in Names, dev'[n] = "file"
                   PROVE  \E q \in Procs, j \in Kinds :
                             pc'[q] \in Working /\ held'[<<q, j>>] = n
        BY DEF CleanInv
      <4>2. CASE held[<<p, k>>] = n
        BY <4>1, <4>2 DEF Working
      <4>3. CASE held[<<p, k>>] # n
        BY <4>1, <4>3 DEF CleanInv, TypeOK
      <4> QED
        BY <4>2, <4>3
    <3> QED
      BY <3>1, <3>2
  <2>11. CASE WaitForJobs(p)
    <3>1. CASE Exit(p, "flash", "fail") /\ UNCHANGED held
      BY <3>1, CleanExit
    <3>2. CASE Goto(p, "flash", "reboot") /\ UNCHANGED <<dev, held>>
      BY <3>2, CleanGoto DEF Working
    <3> QED
      BY <2>11, <3>1, <3>2 DEF WaitForJobs
  <2>12. CASE RebootTarget(p)
    <3>1. \A n \in Names : dev'[n] = "file" => dev[n] = "file"
      BY <2>12 DEF RebootTarget, NodesWithout
    <3>2. \A q \in Procs : pc[q] \in Working => pc'[q] \in Working
      BY <2>12 DEF RebootTarget, Goto, Working, TypeOK
    <3> QED
      BY <2>12, <3>1, <3>2, CleanKept DEF RebootTarget
  <2> QED
    BY <1>4, <2>1, <2>2, <2>3, <2>4, <2>6, <2>7, <2>8, <2>9, <2>10, <2>11, <2>12 DEF Process
<1>5. ASSUME NEW p \in Procs, Reap(p)
      PROVE  CleanInv'
  BY <1>5, CleanKept DEF Reap
<1>6. CASE UNCHANGED vars
  BY <1>6, CleanKept DEF vars
<1> QED
  BY <1>1, <1>2, <1>3, <1>4, <1>5, <1>6 DEF Next, Bus

-----------------------------------------------------------------------------
(* The theorems.                                                           *)

\* As long as the sessions are Apart, everything that the run massflash checks
\* of a search, of the order in which a device is written and rebooted, and of
\* the main script, holds for any number of devices, disks and faults.
THEOREM MassFlashInvariant ==
  ASSUME Apart
  PROVE  Spec => []MassFlashInv
<1>1. Init => MassFlashInv
  BY InitInv
<1>2. MassFlashInv /\ [Next]_vars => MassFlashInv'
  BY TypeStep, BootStep, SearchStep, FlashStep, ReapStep DEF MassFlashInv
<1> QED
  BY <1>1, <1>2, PTL DEF Spec

\* wait_for_booting() and ping_device(): a process opens only disks of the
\* device at its own USB instance, and talks only to that device, whatever the
\* order in which the disks of all of them appear in /dev and leave it, unless
\* its device was lost.
THEOREM SearchesStayApart ==
  ASSUME Apart
  PROVE  Spec => []OwnUnlessLost
<1>1. MassFlashInv => OwnUnlessLost
  BY DEF MassFlashInv, SearchInv, Finds, OwnUnlessLost
<1> QED
  BY <1>1, MassFlashInvariant, PTL

\* l4t_initrd_flash_internal.sh:787-811: a device that is rebooted has all of
\* its disks and its QSPI written, however its writers interleave with one
\* another and with other sessions.
THEOREM RebootComesLast ==
  ASSUME Apart
  PROVE  Spec => []RebootedIsFlashed
<1>1. MassFlashInv => RebootedIsFlashed
  <2> SUFFICES ASSUME MassFlashInv, lost = {}, NEW t \in Targets, target[t] = "gone"
               PROVE  qspi[t] /\ \A k \in Kinds : <<t, k>> \in spoilt \/ Carries(<<t, k>>)
    BY DEF RebootedIsFlashed
  <2>1. PICK p \in Procs : TargetOf[p] = t /\ pc[p] \in {"exit", "ok"}
    BY DEF MassFlashInv, BootInv
  <2>2. JobsOk(p) /\ (\A k \in Kinds : Holds(p, k)) /\ (qjob[p] = "ok" => qspi[t])
    BY <2>1 DEF MassFlashInv, FlashInv
  <2>3. qspi[t]
    BY <2>2 DEF JobsOk
  <2>4. \A k \in Kinds : <<t, k>> \in spoilt \/ Carries(<<t, k>>)
    BY <2>1, <2>2 DEF JobsOk, Holds, Carries
  <2> QED
    BY <2>3, <2>4
<1> QED
  BY <1>1, MassFlashInvariant, PTL

\* l4t_initrd_flash.sh:216-248: the exit status is that of a failed process
\* if, and only if, one has failed, in whatever order they end.
THEOREM StatusAlwaysTrue ==
  ASSUME Apart
  PROVE  Spec => []StatusIsTrue
<1>1. MassFlashInv => StatusIsTrue
  <2> SUFFICES ASSUME MassFlashInv, pids = {} PROVE failure <=> \E p \in Procs : pc[p] = "fail"
    BY DEF StatusIsTrue
  <2>1. failure <=> \E p \in Procs \ pids : pc[p] = "fail"
    BY DEF MassFlashInv, ReapInv
  <2>2. (\E p \in Procs \ pids : pc[p] = "fail") <=> \E p \in Procs : pc[p] = "fail"
    OBVIOUS
  <2> QED
    BY <2>1, <2>2, Zenon
<1> QED
  BY <1>1, MassFlashInvariant, PTL

\* cleanup() of l4t_initrd_flash_internal.sh on every exit: whatever dd wrote to
\* the name of a disk that had left, when all processes have ended no regular
\* file is left in /dev for the next session, even where sessions are not Apart.
THEOREM DevAlwaysClean == Spec => []DevIsClean
<1>1. Init => TypeOK /\ CleanInv
  <2> SUFFICES ASSUME Init PROVE TypeOK /\ CleanInv
    OBVIOUS
  <2>1. CleanInv
    BY DEF Init, CleanInv
  <2>2. TypeOK
    BY ProcsAssumption DEF Init, TypeOK
  <2> QED
    BY <2>1, <2>2
<1>2. TypeOK /\ CleanInv /\ [Next]_vars => TypeOK' /\ CleanInv'
  BY TypeStep, CleanStep
<1>3. CleanInv => DevIsClean
  BY DEF CleanInv, DevIsClean, Ended, Working
<1> QED
  BY <1>1, <1>2, <1>3, PTL DEF Spec
=============================================================================
