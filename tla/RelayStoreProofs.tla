-------------------------- MODULE RelayStoreProofs --------------------------
(***************************************************************************)
(* For any set of computers and any number of faults: what a save, cut off *)
(* at any file operation or failing in one, leaves for the next process.   *)
(***************************************************************************)
EXTENDS RelayStore, TLAPS

\* The save in progress works for the process's own memory.
SaveInv ==
    /\ ~running => save = "idle"
    /\ running => acked \subseteq memory
    /\ save # "idle" => saving \in memory
    /\ save \in {"written", "copying", "copied", "removed"} => tmp = Whole(memory)
    /\ save = "copying" => primary # Missing

\* Only damage breaks the state file, and a backup just made is a copy of it.
BackupInv ==
    /\ damaged => faults # 0
    /\ save = "removed" => faults # 0
    /\ save = "copied" /\ faults = 0 => primary = Missing \/ backup = primary

\* Where the acknowledged registrations are.
HoldInv ==
    /\ faults <= 1 /\ primary.is = "whole" => acked \subseteq primary.hosts
    /\ faults <= 1 /\ primary = Missing => acked \subseteq backup.hosts
    /\ faults <= 1 /\ primary = Broken =>
           backup = Broken \/ ackedBefore \subseteq backup.hosts
    /\ faults = 0 => backup = Broken \/ ackedBefore \subseteq backup.hosts

IInv == TypeOK /\ SaveInv /\ BackupInv /\ HoldInv

USE FaultAssumption DEF File, Missing, Broken, Whole, SavePoints

\* Every file is in one of the three states.
LEMMA FileStates ==
    ASSUME NEW f \in File
    PROVE  \/ f = Missing /\ f.is = "missing" /\ f.hosts = {}
           \/ f = Broken /\ f.is = "broken" /\ f.hosts = {}
           \/ f.is = "whole" /\ f.hosts \in SUBSET Hosts
OBVIOUS

LEMMA IInvInit == Init => IInv
<1> SUFFICES ASSUME Init PROVE IInv
  OBVIOUS
<1>1. TypeOK
  <2>1. Missing \in File /\ 0 \in 0..MaxFaults
    OBVIOUS
  <2>2. /\ {primary, backup, tmp} \subseteq File
        /\ save \in SavePoints
        /\ acked \in SUBSET Hosts /\ ackedBefore \in SUBSET acked
    BY <2>1 DEF Init
  <2> HIDE DEF File, SavePoints
  <2>3. primary # Broken
    BY DEF Init
  <2> QED BY <2>1, <2>2, <2>3 DEF Init, TypeOK
<1>2. SaveInv /\ BackupInv
  BY DEF Init, SaveInv, BackupInv
<1>3. HoldInv
  BY DEF Init, HoldInv
<1> QED BY <1>1, <1>2, <1>3 DEF IInv

\* Every operation of a save, every failure of one, damage, death and restart
\* preserve the invariant.
LEMMA TypeStep == TypeOK /\ SaveInv /\ [Next]_vars => TypeOK'
<1> SUFFICES ASSUME TypeOK, SaveInv, [Next]_vars PROVE TypeOK'
  OBVIOUS
<1> USE DEF TypeOK, files
<1>1. CASE Start
  BY <1>1 DEF Start, Loaded
<1>2. CASE Crash
  BY <1>2 DEF Crash
<1>3. CASE Damage
  BY <1>3 DEF Damage, Fault
<1>4. CASE WriteTmp
  BY <1>4 DEF WriteTmp, GiveUp, Fault
<1>5. CASE ReadPrimary
  BY <1>5 DEF ReadPrimary, Fault
<1>6. CASE WriteBackup
  BY <1>6 DEF WriteBackup, GiveUp, Fault
<1>7. ASSUME Replace, save \in {"copied", "removed"},
             UNCHANGED <<backup, running, memory, saving, damaged, faults>>
      PROVE  TypeOK'
  <2>1. tmp = Whole(memory) /\ saving \in Hosts /\ Missing \in File
    BY <1>7 DEF SaveInv
  <2>2. primary' \in File /\ primary' # Broken /\ tmp' \in File
    BY <1>7, <2>1 DEF Replace
  <2>3. acked' \in SUBSET Hosts /\ ackedBefore' \in SUBSET acked'
    BY <1>7, <2>1 DEF Replace
  <2>4. save' \in SavePoints
    BY <1>7 DEF Replace
  <2> HIDE DEF File, Missing, Broken, Whole, SavePoints
  <2> QED BY <1>7, <2>2, <2>3, <2>4
<1>8. CASE Rename
  <2>1. CASE Replace /\ UNCHANGED faults
    BY <1>7, <1>8, <2>1 DEF Rename
  <2>2. CASE GiveUp /\ UNCHANGED <<primary, acked, ackedBefore>>
    BY <1>8, <2>2 DEF Rename, GiveUp, Fault
  <2>3. CASE RemovePrimary
    BY <1>8, <2>3 DEF Rename, RemovePrimary, Fault
  <2> QED BY <1>8, <2>1, <2>2, <2>3 DEF Rename
<1>9. CASE RenameAgain
  <2>1. CASE Replace /\ UNCHANGED faults
    BY <1>7, <1>9, <2>1 DEF RenameAgain
  <2>2. CASE Fault /\ save' = "idle" /\ UNCHANGED <<primary, tmp, acked, ackedBefore>>
    BY <1>9, <2>2 DEF RenameAgain, Fault
  <2> QED BY <1>9, <2>1, <2>2 DEF RenameAgain
<1>10. ASSUME NEW h \in Hosts, Register(h) PROVE TypeOK'
  BY <1>10 DEF Register, Fault
<1>11. CASE UNCHANGED vars
  BY <1>11 DEF vars
<1> QED
  BY <1>1, <1>2, <1>3, <1>4, <1>5, <1>6, <1>8, <1>9, <1>10, <1>11 DEF Next, Save

LEMMA SaveStep == IInv /\ [Next]_vars => SaveInv'
<1> SUFFICES ASSUME IInv, [Next]_vars PROVE SaveInv'
  OBVIOUS
<1> USE DEF IInv, TypeOK, SaveInv, files
<1>1. CASE Start
  BY <1>1 DEF Start
<1>2. CASE Crash
  BY <1>2 DEF Crash
<1>3. CASE Damage
  BY <1>3 DEF Damage
<1>4. CASE WriteTmp
  BY <1>4 DEF WriteTmp, GiveUp
<1>5. CASE ReadPrimary
  BY <1>5 DEF ReadPrimary
<1>6. CASE WriteBackup
  BY <1>6 DEF WriteBackup, GiveUp
<1>7. CASE Rename
  BY <1>7 DEF Rename, Replace, RemovePrimary, GiveUp
<1>8. CASE RenameAgain
  BY <1>8 DEF RenameAgain, Replace
<1>9. ASSUME NEW h \in Hosts, Register(h) PROVE SaveInv'
  BY <1>9 DEF Register
<1>10. CASE UNCHANGED vars
  BY <1>10 DEF vars
<1> QED
  BY <1>1, <1>2, <1>3, <1>4, <1>5, <1>6, <1>7, <1>8, <1>9, <1>10 DEF Next, Save

LEMMA BackupStep == IInv /\ [Next]_vars => BackupInv'
<1> SUFFICES ASSUME IInv, [Next]_vars PROVE BackupInv'
  OBVIOUS
<1> USE DEF IInv, TypeOK, SaveInv, BackupInv, files
<1>1. CASE Start
  BY <1>1 DEF Start
<1>2. CASE Crash
  BY <1>2 DEF Crash
<1>3. CASE Damage
  BY <1>3 DEF Damage, Fault
<1>4. CASE WriteTmp
  BY <1>4 DEF WriteTmp, GiveUp, Fault
<1>5. CASE ReadPrimary
  BY <1>5 DEF ReadPrimary, Fault
<1>6. CASE WriteBackup
  BY <1>6 DEF WriteBackup, GiveUp, Fault
<1>7. CASE Rename
  BY <1>7 DEF Rename, Replace, RemovePrimary, GiveUp, Fault
<1>8. CASE RenameAgain
  BY <1>8 DEF RenameAgain, Replace, Fault
<1>9. ASSUME NEW h \in Hosts, Register(h) PROVE BackupInv'
  BY <1>9 DEF Register, Fault
<1>10. CASE UNCHANGED vars
  BY <1>10 DEF vars
<1> QED
  BY <1>1, <1>2, <1>3, <1>4, <1>5, <1>6, <1>7, <1>8, <1>9, <1>10 DEF Next, Save

LEMMA HoldStep == IInv /\ [Next]_vars => HoldInv'
<1> SUFFICES ASSUME IInv, [Next]_vars PROVE HoldInv'
  OBVIOUS
<1> USE FileStates DEF IInv, TypeOK, HoldInv, files
<1>1. CASE Start
  BY <1>1 DEF Start
<1>2. CASE Crash
  BY <1>2 DEF Crash
<1>3. CASE Damage
  BY <1>3 DEF Damage, Fault
<1>4. CASE WriteTmp
  BY <1>4 DEF WriteTmp, GiveUp, Fault
<1>5. CASE ReadPrimary
  BY <1>5 DEF ReadPrimary, Fault
<1>6. CASE WriteBackup
  BY <1>6 DEF WriteBackup, GiveUp, Fault, SaveInv
\* A rename puts all that memory holds, hence all that was acknowledged, into
\* the state file; what the file held before is in the backup by then.
<1>7. ASSUME Replace, UNCHANGED <<backup, faults>>, running,
             save \in {"copied", "removed"},
             save = "removed" => faults # 0
      PROVE  HoldInv'
  <2>1. primary' = Whole(memory) /\ acked' = acked \cup {saving} /\ ackedBefore' = acked
    BY <1>7 DEF Replace, SaveInv
  <2>2. acked' \subseteq primary'.hosts /\ primary'.is = "whole"
    BY <1>7, <2>1 DEF SaveInv
  <2>3. ASSUME faults = 0 PROVE backup = Broken \/ acked \subseteq backup.hosts
    <3>1. primary = Missing \/ (backup = primary /\ primary # Broken)
      BY <1>7, <2>3 DEF BackupInv
    <3> QED BY <2>3, <3>1
  <2> QED BY <1>7, <2>1, <2>2, <2>3
<1>8. CASE Rename
  <2>1. CASE Replace /\ UNCHANGED faults
    BY <1>7, <1>8, <2>1 DEF Rename, SaveInv
  <2>2. CASE GiveUp /\ UNCHANGED <<primary, acked, ackedBefore>>
    BY <1>8, <2>2 DEF Rename, GiveUp, Fault
  <2>3. CASE RemovePrimary
    <3>1. Fault /\ primary' = Missing /\ UNCHANGED <<backup, acked, ackedBefore>>
      BY <1>8, <2>3 DEF Rename, RemovePrimary
    <3>2. ASSUME faults = 0 PROVE acked \subseteq backup.hosts
      <4>1. primary = Missing \/ (backup = primary /\ primary # Broken)
        BY <1>8, <3>2 DEF BackupInv, Rename
      <4> QED BY <3>2, <4>1
    <3> QED BY <3>1, <3>2 DEF Fault
  <2> QED BY <1>8, <2>1, <2>2, <2>3 DEF Rename
<1>9. CASE RenameAgain
  BY <1>7, <1>9 DEF RenameAgain, Fault, SaveInv, BackupInv
<1>10. ASSUME NEW h \in Hosts, Register(h) PROVE HoldInv'
  BY <1>10 DEF Register, Fault
<1>11. CASE UNCHANGED vars
  BY <1>11 DEF vars
<1> QED
  BY <1>1, <1>2, <1>3, <1>4, <1>5, <1>6, <1>8, <1>9, <1>10, <1>11 DEF Next, Save
-----------------------------------------------------------------------------
\* Whatever dies, fails or is damaged, the invariant holds.
THEOREM Inductive == Spec => []IInv
<1>1. IInv /\ [Next]_vars => IInv'
  BY TypeStep, SaveStep, BackupStep, HoldStep DEF IInv
<1> QED BY IInvInit, <1>1, PTL DEF Spec

\* What the relay holds in memory and in its three files always has its type: no
\* sequence of operations, deaths and faults makes up a computer or a file.
THEOREM TypeCorrect == Spec => []TypeOK
<1>1. IInv => TypeOK
  BY DEF IInv
<1> QED BY Inductive, <1>1, PTL

\* No registration that was answered 200 is lost by a crash at any point of a
\* save, nor by one failing file operation, as long as nobody damages the file.
THEOREM CrashLosesNothing == Spec => []AcknowledgedSurvive
<1>1. IInv => AcknowledgedSurvive
  <2> SUFFICES ASSUME IInv, ~damaged PROVE Startable /\ (faults <= 1 => acked \subseteq Loaded)
    BY DEF AcknowledgedSurvive
  <2>1. Startable
    BY DEF IInv, TypeOK, Startable
  <2>2. primary = Missing \/ primary.is = "whole"
    BY FileStates DEF IInv, TypeOK, BackupInv
  <2>3. faults <= 1 => acked \subseteq Loaded
    BY <2>2 DEF IInv, HoldInv, Loaded
  <2> QED BY <2>1, <2>3
<1> QED BY Inductive, <1>1, PTL

\* After damage to the state file, the backup still has all but the last one.
THEOREM DamageLosesOneSave == Spec => DamageCostsOneSave
<1>1. IInv /\ [Next]_vars => [Start /\ faults <= 1 => ackedBefore \subseteq memory']_vars
  <2> SUFFICES ASSUME IInv, Start, faults <= 1 PROVE ackedBefore \subseteq Loaded
    BY DEF Start
  <2>1. ackedBefore \subseteq acked
    BY DEF IInv, TypeOK
  <2>2. CASE primary = Broken
    BY <2>2 DEF IInv, HoldInv, Loaded, Start, Startable
  <2>3. CASE primary # Broken
    <3>1. primary = Missing \/ primary.is = "whole"
      BY <2>3, FileStates DEF IInv, TypeOK
    <3> QED BY <2>1, <3>1 DEF IInv, HoldInv, Loaded
  <2> QED BY <2>2, <2>3
<1> QED BY Inductive, <1>1, PTL DEF Spec, DamageCostsOneSave
=============================================================================
