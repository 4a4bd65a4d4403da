------------------------- MODULE BundleInstallProofs -------------------------
(***************************************************************************)
(* Proofs about BundleInstall for any number of files, versions and        *)
(* faults:                                                                 *)
(*                                                                         *)
(*   TypeCorrect            the type invariant;                            *)
(*   FloorNeverFalls,                                                      *)
(*   OldImagesStayOut       the anti-rollback floor, when NVS is never     *)
(*                          erased;                                        *)
(*   GenerationsAreWhole,                                                  *)
(*   KernelFilesAreWhole, ConfirmedStays,                                  *)
(*   InstallIsAtomic        the transaction, when a confirmed image does   *)
(*                          not go bad;                                    *)
(* and about the other way a kernel gets into a slot, the Settings app,    *)
(* which has state of its own:                                             *)
(*   UpdatesAreSafe         the update from the card;                      *)
(*   CredentialsAreKept     the credentials the Wi-Fi page saves.          *)
(***************************************************************************)
EXTENDS BundleInstall, Sequences, TLAPS

\* The bootloader's states of ota_1 always have a good image behind them, and a
\* confirmed but unselected ota_1 is selected again before Recovery does more.
SelectedInv ==
    /\ selected => otaState \in {"new", "pending", "valid"}
    /\ otaState \in {"new", "pending"} => selected
    /\ otaState \in {"new", "pending", "valid"} => imageOk /\ slot # Absent
    /\ otaState = "valid" /\ ~selected =>
          pc \in {"reset", "resolve", "check"} /\ ~journal

\* Recovery works on an unselected ota_1; only a finished bundle install leaves
\* it selected, with its journal, while Recovery waits for the reboot.
RecoveryInv ==
    /\ selected => pc \in {"reset", "web", "kernel", "soak", "running", "remove"}
    /\ pc = "web" /\ selected => journal /\ otaState = "new"
    /\ pc = "remove" => ctx # "finalize" /\ (selected <=> ctx = "confirm")
    /\ pc = "rollback" => journal /\ ctx \in {"undo", "recover"}
    /\ pc \in {"kernel", "soak", "running"} => selected /\ otaState \in {"pending", "valid"}
    /\ pc = "remove" /\ ctx = "confirm" => otaState = "valid"
    /\ pc \in {"check", "sd"} => ~journal

\* The installer before its journal exists: nothing active has moved.
StageInv ==
    /\ pc = "remove" /\ ctx \in {"clean", "abandon"} => ~journal /\ dest = before
    /\ pc = "remove" /\ ctx = "clean" => kind = "bundle" /\ cand = gen /\ gen # Absent
    /\ pc = "stage" =>
          /\ kind = "bundle" /\ cand = gen /\ gen # Absent
          /\ idx > 0
          /\ ~journal
          /\ dest = before
          /\ backup = Whole(Absent)
          /\ \A f \in Files : f < idx =>
                staged[f] = gen /\ (had[f] <=> before[f] # Absent)

\* The installer once its journal exists.
ActivateInv ==
    /\ pc = "activate" =>
          /\ kind = "bundle" /\ cand = gen /\ gen # Absent
          /\ idx > 0
          /\ journal
          /\ \A f \in Files : f < idx => dest[f] = gen
          /\ \A f \in Files : f >= idx =>
                /\ staged[f] = gen
                /\ \/ backup[f] = Absent /\ dest[f] = before[f]
                   \/ f = idx /\ backup[f] = before[f] /\ dest[f] = Absent
    /\ pc \in InstallSteps => cand # Absent
    /\ pc \in InstallSteps /\ kind = "bundle" => journal /\ cand = gen
    /\ pc \in InstallSteps /\ kind = "sd" => ~journal
    /\ pc \in InstallSteps \ {"activate"} /\ kind = "bundle" => dest = Whole(gen)
    /\ pc \in {"mark", "floor", "select"} => slot = cand /\ imageOk

\* What a journal entry must still offer for rollback to restore its file.
Restorable(f) ==
    /\ had[f] <=> before[f] # Absent
    /\ had[f] => \/ backup[f] = Absent /\ dest[f] = before[f]
                 \/ backup[f] = before[f]
    /\ ~had[f] => staged[f] = Absent \/ dest[f] = Absent

\* Until the image is confirmed, every entry of the journal is restorable, and
\* rollback restores them from the last to the first.
RollbackInv ==
    /\ journal /\ otaState # "valid" => \A f \in Files : Restorable(f)
    /\ pc = "rollback" =>
          idx <= NFiles /\ \A f \in Files : f > idx => dest[f] = before[f]
    /\ pc = "remove" /\ ctx \in {"undo", "recover"} => dest = before

\* A selected image with a journal has all its files active.
SelectedFilesInv == selected /\ journal => slot = gen /\ dest = Whole(gen)

TransactionInv ==
    /\ TypeOK
    /\ SelectedInv
    /\ RecoveryInv
    /\ StageInv
    /\ ActivateInv
    /\ RollbackInv
    /\ SelectedFilesInv
    /\ GenerationIsWhole

LEMMA AbsentIsVersion == Absent \in Versions
  BY BoundsAssumption DEF Absent, Versions

LEMMA TypeInit == Init => TypeOK
<1> SUFFICES ASSUME Init PROVE TypeOK
  OBVIOUS
<1>1. Absent \in Versions /\ 1 \in Versions /\ 0 \in Versions
  BY BoundsAssumption DEF Absent, Versions
<1>2. CardTypeOK
  BY <1>1 DEF Init, CardTypeOK, Whole
<1>3. FlashTypeOK
  BY <1>1 DEF Init, FlashTypeOK
<1>4. ProgramTypeOK
  BY <1>1, BoundsAssumption
     DEF Init, ProgramTypeOK, Locations, InstallSteps, Contexts
<1>5. HistoryTypeOK
  BY <1>1, <1>2, BoundsAssumption DEF Init, HistoryTypeOK, CardTypeOK
<1> QED
  BY <1>2, <1>3, <1>4, <1>5 DEF TypeOK

\* The card: only the installer, rollback and removals touch it.
LEMMA CardTypeStep == TypeOK /\ [Next]_vars => CardTypeOK'
<1> SUFFICES ASSUME TypeOK, [Next]_vars PROVE CardTypeOK'
  OBVIOUS
<1> USE AbsentIsVersion DEF TypeOK, CardTypeOK, ProgramTypeOK
<1>1. CASE RemoveDestination
  BY <1>1 DEF RemoveDestination
<1>2. CASE RestoreEntry
  BY <1>2 DEF RestoreEntry, Displaced
<1>3. CASE RemoveEntry
  BY <1>3 DEF RemoveEntry
<1>4. CASE StageFile
  BY <1>4 DEF StageFile
<1>5. CASE WriteJournal
  BY <1>5 DEF WriteJournal
<1>6. CASE BackupFile
  BY <1>6 DEF BackupFile
<1>7. CASE ActivateFile
  BY <1>7 DEF ActivateFile
<1>8. CASE MarkFilesActive
  BY <1>8 DEF MarkFilesActive
<1>9. CASE MarkFirmwareWritten
  BY <1>9 DEF MarkFirmwareWritten
<1>10. CASE OperationFails
  BY <1>10 DEF OperationFails
<1>11. CASE UNCHANGED sdVars
  BY <1>11 DEF sdVars
<1> QED
  BY <1>1, <1>2, <1>3, <1>4, <1>5, <1>6, <1>7, <1>8, <1>9, <1>10, <1>11
     DEF Next, Device, Recovery, Install, Kernel, Faults, vars,
         BootFromOtadata, RecoverInterruptedBundle, CheckOta1,
         ApplySdFirmware, StartPortal, RemoveTransaction, RemovalDone,
         BeginFirmware, EndFirmware, StoreFloor, SelectOta1, KernelInit,
         MarkValid, BeginInstall, Reboot, PowerCycle, ClearOtadata, SelectOta0,
         RecoverInterruptedBundleFails, NvsUnavailable, PrepareFails,
         CleanupFails, MarkValidFails, Crash, ImageFault

\* The flash: otadata, the image in ota_1 and the floor.
LEMMA FlashTypeStep == TypeOK /\ [Next]_vars => FlashTypeOK'
<1> SUFFICES ASSUME TypeOK, [Next]_vars PROVE FlashTypeOK'
  OBVIOUS
<1> USE AbsentIsVersion DEF TypeOK, FlashTypeOK, ProgramTypeOK, otaVars
<1>1. CASE BootFromOtadata
  BY <1>1 DEF BootFromOtadata
<1>2. CASE CheckOta1
  BY <1>2 DEF CheckOta1
<1>3. CASE BeginFirmware
  BY <1>3 DEF BeginFirmware
<1>4. CASE EndFirmware
  BY <1>4 DEF EndFirmware
<1>5. CASE StoreFloor
  BY <1>5 DEF StoreFloor
<1>6. CASE SelectOta1
  BY <1>6 DEF SelectOta1
<1>7. CASE KernelInit
  BY <1>7 DEF KernelInit, Absent
<1>8. CASE MarkValid
  BY <1>8 DEF MarkValid
<1>9. CASE ClearOtadata \/ SelectOta0
  BY <1>9 DEF ClearOtadata, SelectOta0
<1>10. CASE ImageFault
  BY <1>10 DEF ImageFault
<1>11. CASE OperationFails
  BY <1>11 DEF OperationFails
<1>12. CASE UNCHANGED <<otaVars, floor>>
  BY <1>12 DEF otaVars
<1> QED
  BY <1>1, <1>2, <1>3, <1>4, <1>5, <1>6, <1>7, <1>8, <1>9, <1>10, <1>11, <1>12
     DEF Next, Device, Recovery, Install, Kernel, Faults, vars,
         RecoverInterruptedBundle, ApplySdFirmware, StartPortal,
         RemoveDestination, RestoreEntry, RemoveTransaction, RemoveEntry,
         RemovalDone, StageFile, WriteJournal, BackupFile, ActivateFile,
         MarkFilesActive, MarkFirmwareWritten, BeginInstall, Reboot,
         PowerCycle, RecoverInterruptedBundleFails, NvsUnavailable,
         PrepareFails, CleanupFails, MarkValidFails, Crash

\* The running program.
LEMMA ProgramTypeStep == TypeOK /\ [Next]_vars => ProgramTypeOK'
<1> SUFFICES ASSUME TypeOK, [Next]_vars PROVE ProgramTypeOK'
  OBVIOUS
<1> USE AbsentIsVersion, BoundsAssumption DEF TypeOK, ProgramTypeOK, Locations,
    InstallSteps, Contexts
<1>1. CASE BootFromOtadata
  BY <1>1 DEF BootFromOtadata, Goto
<1>2. CASE RecoverInterruptedBundle
  BY <1>2 DEF RecoverInterruptedBundle, Goto, StartRollback, StartRemoval
<1>3. CASE CheckOta1
  BY <1>3 DEF CheckOta1, Goto, Restart
<1>4. CASE ApplySdFirmware
  BY <1>4 DEF ApplySdFirmware
<1>5. CASE StartPortal
  BY <1>5 DEF StartPortal, Goto
<1>6. CASE RestoreEntry
  BY <1>6 DEF RestoreEntry
<1>7. CASE RemoveTransaction
  BY <1>7 DEF RemoveTransaction, StartRemoval
<1>8. CASE RemovalDone
  BY <1>8 DEF RemovalDone, AfterRemoval
<1>9. CASE StageFile
  BY <1>9 DEF StageFile
<1>10. CASE WriteJournal
  BY <1>10 DEF WriteJournal
<1>11. CASE ActivateFile
  BY <1>11 DEF ActivateFile
<1>12. CASE MarkFilesActive
  BY <1>12 DEF MarkFilesActive, Goto
<1>13. CASE BeginFirmware
  BY <1>13 DEF BeginFirmware, Goto
<1>14. CASE EndFirmware
  BY <1>14 DEF EndFirmware, Goto
<1>15. CASE MarkFirmwareWritten
  BY <1>15 DEF MarkFirmwareWritten, Goto
<1>16. CASE StoreFloor
  BY <1>16 DEF StoreFloor, Goto
<1>17. CASE SelectOta1
  BY <1>17 DEF SelectOta1, Goto, Restart
<1>18. CASE KernelInit
  BY <1>18 DEF KernelInit, Goto
<1>19. CASE MarkValid
  BY <1>19 DEF MarkValid, StartRemoval
<1>20. CASE BeginInstall
  BY <1>20 DEF BeginInstall
<1>21. CASE Reboot
  BY <1>21 DEF Reboot, Restart
<1>22. CASE PowerCycle
  BY <1>22 DEF PowerCycle, Restart
<1>23. CASE RecoverInterruptedBundleFails
  BY <1>23 DEF RecoverInterruptedBundleFails, Goto
<1>24. CASE NvsUnavailable
  BY <1>24 DEF NvsUnavailable, Goto
<1>25. CASE PrepareFails
  BY <1>25 DEF PrepareFails, StartRemoval
<1>26. CASE OperationFails
  BY <1>26 DEF OperationFails, StartRollback, Goto
<1>27. CASE CleanupFails
  BY <1>27 DEF CleanupFails, Goto, AfterFailure
<1>28. CASE MarkValidFails
  BY <1>28 DEF MarkValidFails, Goto
<1>29. CASE Crash
  BY <1>29 DEF Crash, Restart
<1>30. CASE UNCHANGED runVars
  BY <1>30 DEF runVars
<1> QED
  BY <1>1, <1>2, <1>3, <1>4, <1>5, <1>6, <1>7, <1>8, <1>9, <1>10, <1>11,
     <1>12, <1>13, <1>14, <1>15, <1>16, <1>17, <1>18, <1>19, <1>20, <1>21,
     <1>22, <1>23, <1>24, <1>25, <1>26, <1>27, <1>28, <1>29, <1>30
     DEF Next, Device, Recovery, Install, Kernel, Faults, vars,
         RemoveDestination, RemoveEntry, BackupFile, ClearOtadata, SelectOta0, ImageFault

\* The history variables.
LEMMA HistoryTypeStep == TypeOK /\ [Next]_vars => HistoryTypeOK'
<1> SUFFICES ASSUME TypeOK, [Next]_vars PROVE HistoryTypeOK'
  OBVIOUS
<1> USE BoundsAssumption DEF TypeOK, HistoryTypeOK, CardTypeOK,
    FlashTypeOK, auxVars
<1>1. CASE BeginInstall
  BY <1>1 DEF BeginInstall
<1>2. CASE SelectOta1
  BY <1>2 DEF SelectOta1
<1>3. CASE RecoverInterruptedBundleFails
  BY <1>3 DEF RecoverInterruptedBundleFails, Fault
<1>4. CASE NvsUnavailable
  BY <1>4 DEF NvsUnavailable, Fault
<1>5. CASE PrepareFails
  BY <1>5 DEF PrepareFails, Fault
<1>6. CASE OperationFails
  BY <1>6 DEF OperationFails, Fault
<1>7. CASE CleanupFails
  BY <1>7 DEF CleanupFails, Fault
<1>8. CASE MarkValidFails
  BY <1>8 DEF MarkValidFails, Fault
<1>9. CASE Crash
  BY <1>9 DEF Crash, Fault
<1>10. CASE ImageFault
  BY <1>10 DEF ImageFault, Fault
<1>11. CASE UNCHANGED <<auxVars, faults>>
  BY <1>11 DEF auxVars
<1> QED
  BY <1>1, <1>2, <1>3, <1>4, <1>5, <1>6, <1>7, <1>8, <1>9, <1>10, <1>11
     DEF Next, Device, Recovery, Install, Kernel, Faults, vars,
         BootFromOtadata, RecoverInterruptedBundle, CheckOta1,
         ApplySdFirmware, StartPortal, RemoveDestination, RestoreEntry,
         RemoveTransaction, RemoveEntry, RemovalDone, StageFile, WriteJournal,
         BackupFile, ActivateFile, MarkFilesActive, BeginFirmware,
         EndFirmware, MarkFirmwareWritten, StoreFloor, KernelInit, MarkValid,
         Reboot, PowerCycle, ClearOtadata, SelectOta0

\* Every variable keeps its type: in particular the loop index stays within
\* the journal's entries and every location is one of the program's.
THEOREM TypeCorrect == Spec => []TypeOK
<1>1. TypeOK /\ [Next]_vars => TypeOK'
  BY CardTypeStep, FlashTypeStep, ProgramTypeStep, HistoryTypeStep
     DEF TypeOK
<1> QED
  BY TypeInit, <1>1, PTL DEF Spec

\* otadata selects ota_1 exactly in the states that boot it, with a good image.
LEMMA SelectedStep ==
    ASSUME ImageFaults = FALSE, TransactionInv, [Next]_vars
    PROVE  SelectedInv'
<1> USE DEF TransactionInv, TypeOK, FlashTypeOK, SelectedInv, RecoveryInv,
            sdVars, runVars, Goto, Restart
<1>1. CASE BootFromOtadata
  BY <1>1 DEF BootFromOtadata
<1>2. CASE CheckOta1
  BY <1>2 DEF CheckOta1
<1>3. CASE BeginFirmware
  BY <1>3 DEF BeginFirmware
<1>4. CASE EndFirmware
  BY <1>4 DEF EndFirmware
<1>5. CASE SelectOta1
  BY <1>5 DEF SelectOta1, ActivateInv, InstallSteps
<1>6. CASE MarkValid
  BY <1>6 DEF MarkValid
<1>7. CASE ClearOtadata \/ SelectOta0
  BY <1>7 DEF ClearOtadata, SelectOta0
<1>8. CASE ImageFault
  BY <1>8 DEF ImageFault
<1>9. CASE RecoverInterruptedBundle
  BY <1>9 DEF RecoverInterruptedBundle, RecoveryAction, otaVars
<1>10. CASE Crash
  BY <1>10 DEF Crash, otaVars
<1>11. CASE UNCHANGED vars
  BY <1>11 DEF vars, otaVars
<1>12. CASE UNCHANGED otaVars /\ (otaState = "valid" => selected)
  BY <1>12 DEF otaVars
<1>13. CASE /\ UNCHANGED otaVars
            /\ pc \notin {"reset", "resolve", "check"} \/ journal
  BY <1>12, <1>13
<1>14. Next => \/ BootFromOtadata \/ CheckOta1 \/ BeginFirmware \/ EndFirmware
              \/ SelectOta1 \/ MarkValid \/ ClearOtadata \/ SelectOta0
              \/ ImageFault \/ RecoverInterruptedBundle \/ Crash
              \/ /\ UNCHANGED otaVars
                 /\ pc \notin {"reset", "resolve", "check"} \/ journal
  <2>1. ApplySdFirmware \/ StartPortal \/ RemoveDestination \/ RestoreEntry
        \/ RemoveTransaction \/ RemoveEntry \/ RemovalDone \/ StageFile
        \/ WriteJournal \/ BackupFile \/ ActivateFile \/ MarkFilesActive
        \/ MarkFirmwareWritten \/ StoreFloor \/ KernelInit \/ BeginInstall
        \/ Reboot \/ PowerCycle \/ RecoverInterruptedBundleFails
        \/ NvsUnavailable \/ PrepareFails \/ OperationFails \/ CleanupFails
        \/ MarkValidFails
        => /\ UNCHANGED otaVars
           /\ pc \notin {"reset", "resolve", "check"} \/ journal
    BY DEF InstallSteps,
         ApplySdFirmware, StartPortal, RemoveDestination, RestoreEntry,
         RemoveTransaction, RemoveEntry, RemovalDone, StageFile, WriteJournal,
         BackupFile, ActivateFile, MarkFilesActive, MarkFirmwareWritten,
         StoreFloor, KernelInit, BeginInstall, Reboot, PowerCycle,
         RecoverInterruptedBundleFails, NvsUnavailable, PrepareFails,
         OperationFails, CleanupFails, MarkValidFails
  <2> QED
    BY <2>1 DEF Next, Device, Recovery, Install, Kernel, Faults
<1> QED
  BY <1>1, <1>2, <1>3, <1>4, <1>5, <1>6, <1>7, <1>8, <1>9, <1>10, <1>11,
     <1>13, <1>14

\* Recovery works on an unselected ota_1.
LEMMA RecoveryStep ==
    ASSUME ImageFaults = FALSE, TransactionInv, [Next]_vars
    PROVE  RecoveryInv'
<1> USE DEF TransactionInv, TypeOK, FlashTypeOK, SelectedInv, RecoveryInv,
    sdVars, otaVars, runVars, Restart, Goto, StartRollback, StartRemoval
<1>1. CASE BootFromOtadata
  BY <1>1
     DEF BootFromOtadata
<1>2. CASE RecoverInterruptedBundle
  BY <1>2
     DEF RecoverInterruptedBundle, RecoveryAction
<1>3. CASE CheckOta1
  BY <1>3
     DEF CheckOta1
<1>4. CASE ApplySdFirmware
  BY <1>4
     DEF ApplySdFirmware
<1>5. CASE StartPortal
  BY <1>5
     DEF StartPortal
<1>6. CASE RemoveDestination
  BY <1>6
     DEF RemoveDestination
<1>7. CASE RestoreEntry
  BY <1>7
     DEF RestoreEntry
<1>8. CASE RemoveTransaction
  BY <1>8
     DEF RemoveTransaction
<1>9. CASE RemoveEntry
  BY <1>9
     DEF RemoveEntry
<1>10. CASE RemovalDone
  BY <1>10
     DEF RemovalDone, AfterRemoval, DirectoryEmpty, Contexts, ProgramTypeOK
<1>11. CASE StageFile
  BY <1>11
     DEF StageFile
<1>12. CASE WriteJournal
  BY <1>12
     DEF WriteJournal
<1>13. CASE BackupFile
  BY <1>13
     DEF BackupFile
<1>14. CASE ActivateFile
  BY <1>14
     DEF ActivateFile
<1>15. CASE MarkFilesActive
  BY <1>15
     DEF MarkFilesActive
<1>16. CASE BeginFirmware
  BY <1>16
     DEF BeginFirmware
<1>17. CASE EndFirmware
  BY <1>17
     DEF EndFirmware
<1>18. CASE MarkFirmwareWritten
  BY <1>18
     DEF MarkFirmwareWritten
<1>19. CASE StoreFloor
  BY <1>19
     DEF StoreFloor
<1>20. CASE SelectOta1
  BY <1>20
     DEF SelectOta1, ActivateInv, InstallSteps, ProgramTypeOK
<1>21. CASE KernelInit
  BY <1>21
     DEF KernelInit
<1>22. CASE MarkValid
  BY <1>22
     DEF MarkValid
<1>23. CASE BeginInstall
  BY <1>23
     DEF BeginInstall
<1>24. CASE Reboot
  BY <1>24
     DEF Reboot
<1>25. CASE PowerCycle
  BY <1>25
     DEF PowerCycle
<1>26. CASE ClearOtadata \/ SelectOta0
  BY <1>26
     DEF ClearOtadata, SelectOta0
<1>27. CASE RecoverInterruptedBundleFails
  BY <1>27
     DEF RecoverInterruptedBundleFails
<1>28. CASE NvsUnavailable
  BY <1>28
     DEF NvsUnavailable
<1>29. CASE PrepareFails
  BY <1>29
     DEF PrepareFails
<1>30. CASE OperationFails
  BY <1>30
     DEF OperationFails, ActivateInv, InstallSteps, ProgramTypeOK
<1>31. CASE CleanupFails
  BY <1>31
     DEF CleanupFails, AfterFailure, ProgramTypeOK, Contexts
<1>32. CASE MarkValidFails
  BY <1>32
     DEF MarkValidFails
<1>33. CASE Crash
  BY <1>33
     DEF Crash
<1>34. CASE ImageFault
  BY <1>34
     DEF ImageFault
<1>35. CASE UNCHANGED vars
  BY <1>35
     DEF vars
<1> QED
  BY <1>1, <1>2, <1>3, <1>4, <1>5, <1>6, <1>7, <1>8, <1>9, <1>10, <1>11,
     <1>12, <1>13, <1>14, <1>15, <1>16, <1>17, <1>18, <1>19, <1>20, <1>21,
     <1>22, <1>23, <1>24, <1>25, <1>26, <1>27, <1>28, <1>29, <1>30, <1>31,
     <1>32, <1>33, <1>34, <1>35
     DEF Next, Device, Recovery, Install, Kernel, Faults, vars

\* Before the journal exists nothing active has moved.
LEMMA StageStep ==
    ASSUME ImageFaults = FALSE, TransactionInv, [Next]_vars
    PROVE  StageInv'
<1> USE DEF TransactionInv, RecoveryInv, StageInv, sdVars, runVars, auxVars, Goto,
    Restart, StartRollback, StartRemoval
<1>1. CASE RemoveTransaction
  BY <1>1
     DEF RemoveTransaction
<1>2. CASE RemoveEntry
  BY <1>2
     DEF RemoveEntry
<1>3. CASE RemovalDone
  BY <1>3
     DEF RemovalDone, AfterRemoval, DirectoryEmpty, TypeOK, ProgramTypeOK,
     Contexts, Files
<1>4. CASE StageFile
  <2>1. staged' = [staged EXCEPT ![idx] = gen] /\ idx \in Files
    BY <1>4 DEF StageFile, TypeOK, ProgramTypeOK, Files
  <2>2. had' = [had EXCEPT ![idx] = before[idx] # Absent]
    BY <1>4 DEF StageFile
  <2>3. ASSUME NEW f \in Files, f < idx + 1
        PROVE  staged'[f] = gen /\ (had'[f] <=> before[f] # Absent)
    <3>1. CASE f = idx
      BY <2>1, <2>2, <3>1 DEF TypeOK, CardTypeOK
    <3>2. CASE f # idx
      <4>1. f < idx
        BY <2>1, <2>3, <3>2 DEF Files
      <4>2. staged[f] = gen /\ (had[f] <=> before[f] # Absent)
        BY <1>4, <4>1 DEF StageFile
      <4> QED
        BY <2>1, <2>2, <3>2, <4>2 DEF TypeOK, CardTypeOK
    <3> QED
      BY <3>1, <3>2
  <2> QED
    BY <1>4, <2>1, <2>3 DEF StageFile, Files
<1>5. CASE WriteJournal
  BY <1>5
     DEF WriteJournal
<1>6. CASE PrepareFails
  BY <1>6
     DEF PrepareFails
<1>7. CASE BeginInstall
  BY <1>7, BoundsAssumption
     DEF BeginInstall, TypeOK, FlashTypeOK, Newer, Versions, Absent
<1>8. CASE MarkValid
  BY <1>8
     DEF MarkValid
<1>9. CASE RecoverInterruptedBundle
  BY <1>9
     DEF RecoverInterruptedBundle, RecoveryAction, SelectedInv
<1>10. CASE RemoveDestination
  BY <1>10
     DEF RemoveDestination
<1>11. CASE RestoreEntry
  BY <1>11
     DEF RestoreEntry
<1>12. CASE CleanupFails
  BY <1>12
     DEF CleanupFails, AfterFailure, TypeOK, ProgramTypeOK, Contexts
<1>13. CASE OperationFails
  BY <1>13
     DEF OperationFails
<1>14. CASE UNCHANGED vars
  BY <1>14 DEF vars
<1>15. CASE pc' \notin {"remove", "stage"}
  BY <1>15
<1> QED
  BY <1>1, <1>2, <1>3, <1>4, <1>5, <1>6, <1>7, <1>8, <1>9, <1>10, <1>11,
     <1>12, <1>13, <1>14, <1>15
     DEF Next, Device, Recovery, Install, Kernel, Faults, vars,
         BootFromOtadata, CheckOta1, ApplySdFirmware, StartPortal, BackupFile,
         ActivateFile, MarkFilesActive, BeginFirmware, EndFirmware,
         MarkFirmwareWritten, StoreFloor, SelectOta1, KernelInit, Reboot,
         PowerCycle, ClearOtadata, SelectOta0, RecoverInterruptedBundleFails,
         NvsUnavailable, MarkValidFails, Crash, ImageFault

\* The installer once its journal exists.
LEMMA ActivateStep ==
    ASSUME ImageFaults = FALSE, TransactionInv, [Next]_vars
    PROVE  ActivateInv'
<1> USE DEF TransactionInv, RecoveryInv, StageInv, ActivateInv, InstallSteps,
    sdVars, otaVars, runVars, auxVars, Goto, Restart, StartRollback,
    StartRemoval
<1>1. CASE WriteJournal
  <2>1. /\ kind = "bundle" /\ cand = gen /\ gen # Absent
        /\ dest = before
        /\ backup = Whole(Absent)
        /\ \A f \in Files : staged[f] = gen
    BY <1>1, BoundsAssumption DEF WriteJournal, Files, TypeOK, ProgramTypeOK
  <2>2. \A f \in Files : backup[f] = Absent /\ dest[f] = before[f] /\ ~(f < 1)
    BY <2>1 DEF Whole, Files
  <2> QED
    BY <1>1, <2>1, <2>2 DEF WriteJournal
<1>2. CASE BackupFile
  BY <1>2
     DEF BackupFile, Files, TypeOK, CardTypeOK, ProgramTypeOK
<1>3. CASE ActivateFile
  BY <1>3
     DEF ActivateFile, Files, TypeOK, CardTypeOK, ProgramTypeOK
<1>4. CASE MarkFilesActive
  <2>1. \A f \in Files : dest[f] = gen
    BY <1>4, BoundsAssumption DEF MarkFilesActive, Files
  <2>2. dest = Whole(gen)
    BY <2>1 DEF Whole, TypeOK, CardTypeOK
  <2> QED
    BY <1>4, <2>2 DEF MarkFilesActive
<1>5. CASE BeginFirmware
  BY <1>5
     DEF BeginFirmware
<1>6. CASE EndFirmware
  BY <1>6
     DEF EndFirmware
<1>7. CASE MarkFirmwareWritten
  BY <1>7
     DEF MarkFirmwareWritten
<1>8. CASE StoreFloor
  BY <1>8
     DEF StoreFloor
<1>9. CASE SelectOta1
  BY <1>9
     DEF SelectOta1
<1>10. CASE OperationFails
  BY <1>10
     DEF OperationFails
<1>11. CASE ApplySdFirmware
  BY <1>11, BoundsAssumption
     DEF ApplySdFirmware, TypeOK, FlashTypeOK, Newer, Versions, Absent
<1>12. CASE RemovalDone
  BY <1>12
     DEF RemovalDone, AfterRemoval, TypeOK, ProgramTypeOK, Contexts
<1>13. CASE CleanupFails
  BY <1>13
     DEF CleanupFails, AfterFailure, TypeOK, ProgramTypeOK, Contexts
<1>14. CASE RemoveEntry
  BY <1>14
     DEF RemoveEntry
<1>15. CASE StageFile
  BY <1>15
     DEF StageFile
<1>16. CASE RemoveDestination
  BY <1>16
     DEF RemoveDestination
<1>17. CASE RestoreEntry
  BY <1>17
     DEF RestoreEntry
<1>18. CASE UNCHANGED vars
  BY <1>18 DEF vars
<1>19. CASE pc' \notin InstallSteps
  BY <1>19
<1> QED
  BY <1>1, <1>2, <1>3, <1>4, <1>5, <1>6, <1>7, <1>8, <1>9, <1>10, <1>11,
     <1>12, <1>13, <1>14, <1>15, <1>16, <1>17, <1>18, <1>19
     DEF Next, Device, Recovery, Install, Kernel, Faults, vars,
         BootFromOtadata, RecoverInterruptedBundle, CheckOta1, StartPortal,
         RemoveTransaction, KernelInit, MarkValid, BeginInstall, Reboot,
         PowerCycle, ClearOtadata, SelectOta0, RecoverInterruptedBundleFails,
         NvsUnavailable, PrepareFails, MarkValidFails, Crash, ImageFault

\* Until the image is confirmed, every entry of the journal can be restored.
LEMMA RollbackStep ==
    ASSUME ImageFaults = FALSE, TransactionInv, [Next]_vars
    PROVE  RollbackInv'
<1> USE DEF TransactionInv, RollbackInv, Restorable, sdVars, otaVars, runVars,
    auxVars, Goto, Restart, StartRollback, StartRemoval
<1>1. CASE RemoveDestination
  BY <1>1
     DEF RemoveDestination, Displaced, RecoveryInv, TypeOK, CardTypeOK,
     ProgramTypeOK, Files
<1>2. CASE RestoreEntry
  <2>1. journal /\ otaState # "valid" /\ idx \in Files
    BY <1>2, BoundsAssumption
       DEF RestoreEntry, RecoveryInv, SelectedInv, TypeOK, ProgramTypeOK,
           FlashTypeOK, CardTypeOK, Files
  <2>2. ASSUME NEW f \in Files
        PROVE  /\ Restorable(f)'
               /\ f # idx => dest'[f] = dest[f]
               /\ f = idx => dest'[f] = before[f]
    <3>1. CASE f # idx
      BY <1>2, <2>1, <3>1 DEF RestoreEntry, TypeOK, CardTypeOK
    <3>2. CASE f = idx /\ had[f] /\ backup[f] # Absent
      BY <1>2, <2>1, <3>2 DEF RestoreEntry, Displaced, TypeOK, CardTypeOK
    <3>3. CASE f = idx /\ ~(had[f] /\ backup[f] # Absent)
      <4>1. UNCHANGED <<dest, backup, staged, had, before>>
        BY <1>2, <3>3 DEF RestoreEntry, Displaced
      <4>2. dest[f] = before[f] /\ Restorable(f)
        BY <1>2, <2>1, <3>3 DEF RestoreEntry, Displaced
      <4> QED
        BY <3>3, <4>1, <4>2
    <3> QED
      BY <3>1, <3>2, <3>3
  <2>3. ASSUME NEW f \in Files, f > idx - 1
        PROVE  f = idx \/ f > idx
    BY <2>1, <2>3 DEF Files
  <2>4. idx' <= NFiles
    BY <1>2, <2>1, BoundsAssumption DEF RestoreEntry, Files
  <2> QED
    BY <1>2, <2>1, <2>2, <2>3, <2>4 DEF RestoreEntry
<1>3. CASE RemoveTransaction
  <2>1. \A f \in Files : dest[f] = before[f]
    BY <1>3 DEF RemoveTransaction, Files
  <2>2. dest = before
    BY <2>1 DEF TypeOK, CardTypeOK, HistoryTypeOK
  <2> QED
    BY <1>3, <2>2 DEF RemoveTransaction
<1>4. CASE RemoveEntry
  BY <1>4
     DEF RemoveEntry, StageInv, RecoveryInv, TypeOK, CardTypeOK,
     HistoryTypeOK, ProgramTypeOK, Contexts
<1>5. CASE RemovalDone
  BY <1>5
     DEF RemovalDone, AfterRemoval, TypeOK, ProgramTypeOK, Contexts
<1>6. CASE StageFile
  BY <1>6
     DEF StageFile, StageInv
<1>7. CASE WriteJournal
  <2>1. ASSUME NEW f \in Files
        PROVE  Restorable(f)
    <3>1. f < idx
      BY <1>7, BoundsAssumption DEF WriteJournal, Files
    <3>2. /\ had[f] <=> before[f] # Absent
          /\ backup[f] = Absent /\ dest[f] = before[f]
      BY <1>7, <3>1 DEF WriteJournal, StageInv, Whole
    <3> QED
      BY <3>2
  <2> QED
    BY <1>7, <2>1 DEF WriteJournal
<1>8. CASE BackupFile
  BY <1>8
     DEF BackupFile, Files, TypeOK, CardTypeOK, ProgramTypeOK, ActivateInv
<1>9. CASE ActivateFile
  BY <1>9
     DEF ActivateFile, Files, TypeOK, CardTypeOK, ProgramTypeOK, ActivateInv
<1>10. CASE BeginInstall
  BY <1>10
     DEF BeginInstall
<1>11. CASE BootFromOtadata
  BY <1>11
     DEF BootFromOtadata, SelectedInv, FlashTypeOK, TypeOK
<1>12. CASE CheckOta1
  BY <1>12
     DEF CheckOta1, RecoveryInv, SelectedInv
<1>13. CASE SelectOta1
  BY <1>13
     DEF SelectOta1, RecoveryInv, SelectedInv
<1>14. CASE MarkValid
  BY <1>14
     DEF MarkValid, RecoveryInv
<1>15. CASE ClearOtadata \/ SelectOta0
  BY <1>15
     DEF ClearOtadata, SelectOta0
<1>16. CASE RecoverInterruptedBundle
  BY <1>16, BoundsAssumption
     DEF RecoverInterruptedBundle, Files, RecoveryAction, SelectedInv,
     RecoveryInv
<1>17. CASE PrepareFails
  BY <1>17
     DEF PrepareFails
<1>18. CASE OperationFails
  BY <1>18, BoundsAssumption
     DEF OperationFails, Files, ActivateInv, SelectedInv, RecoveryInv,
     InstallSteps, TypeOK, ProgramTypeOK
<1>19. CASE CleanupFails
  BY <1>19
     DEF CleanupFails, AfterFailure, TypeOK, ProgramTypeOK, Contexts
<1>20. CASE UNCHANGED vars
  BY <1>20 DEF vars
<1>21. CASE /\ UNCHANGED <<dest, staged, backup, had, journal, otaState, before>>
            /\ pc' \notin {"rollback", "remove"}
  BY <1>21
<1> QED
  BY <1>1, <1>2, <1>3, <1>4, <1>5, <1>6, <1>7, <1>8, <1>9, <1>10, <1>11,
     <1>12, <1>13, <1>14, <1>15, <1>16, <1>17, <1>18, <1>19, <1>20, <1>21
     DEF Next, Device, Recovery, Install, Kernel, Faults, vars,
         ApplySdFirmware, StartPortal, MarkFilesActive, BeginFirmware,
         EndFirmware, MarkFirmwareWritten, StoreFloor, KernelInit, Reboot,
         PowerCycle, RecoverInterruptedBundleFails, NvsUnavailable,
         MarkValidFails, Crash, ImageFault

\* A selected image with a journal has all its files active.
LEMMA SelectedFilesStep ==
    ASSUME ImageFaults = FALSE, TransactionInv, [Next]_vars
    PROVE  SelectedFilesInv'
<1> USE DEF TransactionInv, SelectedFilesInv, SelectedInv, RecoveryInv,
    sdVars, otaVars, runVars, auxVars, Goto, Restart, StartRollback,
    StartRemoval
<1>1. CASE BootFromOtadata
  BY <1>1
     DEF BootFromOtadata
<1>2. CASE CheckOta1
  BY <1>2
     DEF CheckOta1
<1>3. CASE BeginFirmware
  BY <1>3
     DEF BeginFirmware
<1>4. CASE EndFirmware
  BY <1>4
     DEF EndFirmware
<1>5. CASE SelectOta1
  BY <1>5
     DEF SelectOta1, ActivateInv, InstallSteps, TypeOK, ProgramTypeOK
<1>6. CASE MarkValid
  BY <1>6
     DEF MarkValid
<1>7. CASE ClearOtadata \/ SelectOta0
  BY <1>7
     DEF ClearOtadata, SelectOta0
<1>8. CASE ImageFault
  BY <1>8
     DEF ImageFault
<1>9. CASE WriteJournal
  BY <1>9
     DEF WriteJournal
<1>10. CASE BeginInstall
  BY <1>10
     DEF BeginInstall
<1>11. CASE RemoveEntry
  BY <1>11
     DEF RemoveEntry
<1>12. CASE RemoveDestination
  BY <1>12
     DEF RemoveDestination
<1>13. CASE RestoreEntry
  BY <1>13
     DEF RestoreEntry
<1>14. CASE BackupFile
  BY <1>14
     DEF BackupFile
<1>15. CASE ActivateFile
  BY <1>15
     DEF ActivateFile
<1>16. CASE UNCHANGED <<dest, journal, slot, selected, gen>>
  BY <1>16
<1> QED
  BY <1>1, <1>2, <1>3, <1>4, <1>5, <1>6, <1>7, <1>8, <1>9, <1>10, <1>11,
     <1>12, <1>13, <1>14, <1>15, <1>16
     DEF Next, Device, Recovery, Install, Kernel, Faults, vars,
         RecoverInterruptedBundle, ApplySdFirmware, StartPortal,
         RemoveTransaction, RemovalDone, StageFile, MarkFilesActive,
         MarkFirmwareWritten, StoreFloor, KernelInit, Reboot, PowerCycle,
         RecoverInterruptedBundleFails, NvsUnavailable, PrepareFails,
         OperationFails, CleanupFails, MarkValidFails, Crash

\* Without a journal the card holds one generation.
LEMMA GenerationStep ==
    ASSUME ImageFaults = FALSE, TransactionInv, [Next]_vars
    PROVE  GenerationIsWhole'
<1> USE DEF TransactionInv, GenerationIsWhole, sdVars, auxVars
<1>1. CASE WriteJournal
  BY <1>1
     DEF WriteJournal
<1>2. CASE BeginInstall
  BY <1>2
     DEF BeginInstall
<1>3. CASE RemoveEntry
  BY <1>3
     DEF RemoveEntry, RecoveryInv, StageInv, RollbackInv, SelectedFilesInv,
     TypeOK, ProgramTypeOK, Contexts, runVars, auxVars
<1>4. CASE RemoveDestination
  BY <1>4
     DEF RemoveDestination, RecoveryInv
<1>5. CASE RestoreEntry
  BY <1>5
     DEF RestoreEntry, RecoveryInv
<1>6. CASE BackupFile
  BY <1>6
     DEF BackupFile, ActivateInv
<1>7. CASE ActivateFile
  BY <1>7
     DEF ActivateFile, ActivateInv
<1>8. CASE UNCHANGED <<dest, journal, before, gen>>
  BY <1>8
<1> QED
  BY <1>1, <1>2, <1>3, <1>4, <1>5, <1>6, <1>7, <1>8
     DEF Next, Device, Recovery, Install, Kernel, Faults, vars,
         BootFromOtadata, RecoverInterruptedBundle, CheckOta1,
         ApplySdFirmware, StartPortal, RemoveTransaction, RemovalDone,
         StageFile, MarkFilesActive, BeginFirmware, EndFirmware,
         MarkFirmwareWritten, StoreFloor, SelectOta1, KernelInit, MarkValid,
         Reboot, PowerCycle, ClearOtadata, SelectOta0, RecoverInterruptedBundleFails,
         NvsUnavailable, PrepareFails, OperationFails, CleanupFails,
         MarkValidFails, Crash, ImageFault

LEMMA TransactionInit == Init => TransactionInv
<1> SUFFICES ASSUME Init PROVE TransactionInv
  OBVIOUS
<1>1. TypeOK
  BY TypeInit
<1> QED
  BY <1>1 DEF Init, TransactionInv, SelectedInv, RecoveryInv, StageInv,
       ActivateInv, InstallSteps, RollbackInv, SelectedFilesInv,
       GenerationIsWhole

LEMMA TransactionStep ==
    ASSUME ImageFaults = FALSE, TransactionInv, [Next]_vars
    PROVE  TransactionInv'
<1>1. TypeOK'
  BY CardTypeStep, FlashTypeStep, ProgramTypeStep, HistoryTypeStep
     DEF TransactionInv, TypeOK
<1> QED
  BY <1>1, SelectedStep, RecoveryStep, StageStep, ActivateStep, RollbackStep,
     SelectedFilesStep, GenerationStep
     DEF TransactionInv

\* As long as a confirmed image does not go bad, the card without a journal
\* always holds one whole generation, wherever power was lost
\* (bundle_transaction.rs).
THEOREM GenerationsAreWhole ==
    ASSUME ImageFaults = FALSE
    PROVE  Spec => []GenerationIsWhole
<1>1. TransactionInv /\ [Next]_vars => TransactionInv'
  BY TransactionStep
<1>2. TransactionInv => GenerationIsWhole
  BY DEF TransactionInv
<1> QED
  BY TransactionInit, <1>1, <1>2, PTL DEF Spec

\* Under the same assumption the kernel never runs over a bundle that is only
\* partly active (install selects ota_1 last).
THEOREM KernelFilesAreWhole ==
    ASSUME ImageFaults = FALSE
    PROVE  Spec => []KernelRunsOnWholeBundle
<1>1. TransactionInv /\ [Next]_vars => TransactionInv'
  BY TransactionStep
<1>2. TransactionInv => KernelRunsOnWholeBundle
  BY DEF TransactionInv, RecoveryInv, SelectedFilesInv, KernelRunsOnWholeBundle
<1> QED
  BY TransactionInit, <1>1, <1>2, PTL DEF Spec

\* The installer and the rollback move files only while ota_1 is not confirmed: it is
\* selected again before Recovery does anything else (check_ota1, recovery_action).
LEMMA MovesAreUnconfirmed ==
    TransactionInv /\ pc \in {"activate", "rollback"} => otaState # "valid"
BY DEF TransactionInv, SelectedInv, RecoveryInv

\* Under the same assumption a bundle whose firmware was confirmed is never taken
\* back, whatever cleanup fails and wherever power is lost (ota.rs: "Recovery can
\* also finalize this journal on a later boot if SD cleanup fails").
THEOREM ConfirmedStays ==
    ASSUME ImageFaults = FALSE
    PROVE  Spec => ConfirmedBundleStays
<1>1. TransactionInv /\ [Next]_vars => TransactionInv'
  BY TransactionStep
<1>2. [Next]_vars => dest' = dest \/ pc \in {"activate", "rollback"}
  BY DEF Next, Device, Recovery, Install, Kernel, Faults, vars, sdVars,
         BootFromOtadata, RecoverInterruptedBundle, CheckOta1, ApplySdFirmware,
         StartPortal, RemoveDestination, RestoreEntry, RemoveTransaction, RemoveEntry,
         RemovalDone, StageFile, WriteJournal, BackupFile, ActivateFile,
         MarkFilesActive, BeginFirmware, EndFirmware, MarkFirmwareWritten, StoreFloor,
         SelectOta1, KernelInit, MarkValid, BeginInstall, Reboot, PowerCycle,
         ClearOtadata, SelectOta0, RecoverInterruptedBundleFails, NvsUnavailable,
         PrepareFails, OperationFails, CleanupFails, MarkValidFails, Crash, ImageFault
<1>3. TransactionInv /\ [Next]_vars =>
        [otaState = "valid" /\ dest = Whole(slot) => dest' = dest]_vars
  BY <1>2, MovesAreUnconfirmed
<1> QED
  BY TransactionInit, <1>1, <1>3, PTL DEF Spec, ConfirmedBundleStays

-----------------------------------------------------------------------------
(* The transaction refines an atomic switch.                               *)

files == IF journal /\ ~Confirmed THEN before ELSE dest
firmware == IF Confirmed THEN slot ELSE Absent

LEMMA AtomicInit == Init => Atomic!Init
<1> SUFFICES ASSUME Init PROVE Atomic!Init
  OBVIOUS
<1>1. 1 \in Versions /\ Absent \in Versions
  BY BoundsAssumption DEF Versions, Absent
<1> QED
  BY <1>1 DEF Init, Atomic!Init, Confirmed, Files, Versions, Absent

LEMMA AtomicStep ==
    ASSUME ImageFaults = FALSE, TransactionInv, [Next]_vars
    PROVE  [Atomic!Next]_<<files, firmware>>
<1> USE DEF TransactionInv, files, firmware, Confirmed, sdVars, otaVars, auxVars
<1>1. CASE MarkValid
  <2>1. slot \in 1 .. MaxVersion
    BY <1>1, BoundsAssumption
       DEF MarkValid, RecoveryInv, SelectedInv, TypeOK, FlashTypeOK, Versions,
           Absent
  <2>2. CASE otaState = "pending" /\ journal
    <3>1. files = before /\ files' = Whole(slot) /\ firmware = Absent /\ firmware' = slot
      BY <1>1, <2>2 DEF MarkValid, RecoveryInv, SelectedFilesInv
    <3>2. Atomic!ConfirmBundle(slot)
      BY <3>1 DEF Atomic!ConfirmBundle, Whole, Files, Absent
    <3> QED
      BY <2>1, <3>2 DEF Atomic!Next
  <2>3. CASE otaState = "pending" /\ ~journal
    <3>1. Atomic!ConfirmFirmware(slot)
      BY <1>1, <2>3 DEF MarkValid, Atomic!ConfirmFirmware, Absent
    <3> QED
      BY <2>1, <3>1 DEF Atomic!Next
  <2>4. CASE otaState # "pending"
    BY <1>1, <2>4 DEF MarkValid
  <2> QED
    BY <2>2, <2>3, <2>4
<1>2. CASE ClearOtadata \/ SelectOta0
  <2>1. CASE ClearOtadata
    <3>1. Atomic!Deselect
      BY <2>1 DEF ClearOtadata, Atomic!Deselect, Absent
    <3> QED
      BY <3>1 DEF Atomic!Next
  <2>2. CASE SelectOta0
    BY <2>2 DEF SelectOta0
  <2> QED
    BY <1>2, <2>1, <2>2
<1>3. CASE RemoveEntry
  BY <1>3 DEF RemoveEntry, RecoveryInv, StageInv, RollbackInv, TypeOK,
       ProgramTypeOK, Contexts
<1>4. CASE WriteJournal
  BY <1>4 DEF WriteJournal, StageInv
<1>5. CASE BootFromOtadata
  BY <1>5 DEF BootFromOtadata
<1>6. CASE CheckOta1
  <2>1. CASE otaState = "valid"
    <3>1. Atomic!Deselect
      BY <1>6, <2>1
         DEF CheckOta1, RecoveryInv, SelectedInv, Restart, Atomic!Deselect,
             Absent
    <3> QED
      BY <3>1 DEF Atomic!Next
  <2>2. CASE otaState # "valid"
    BY <1>6, <2>2 DEF CheckOta1, RecoveryInv, SelectedInv
  <2> QED
    BY <2>1, <2>2
<1>7. CASE BeginFirmware
  BY <1>7 DEF BeginFirmware, RecoveryInv, SelectedInv
<1>8. CASE EndFirmware
  BY <1>8 DEF EndFirmware, RecoveryInv, SelectedInv
<1>9. CASE SelectOta1
  BY <1>9 DEF SelectOta1, RecoveryInv, SelectedInv
<1>10. CASE BackupFile
  BY <1>10 DEF BackupFile, ActivateInv, RecoveryInv, SelectedInv
<1>11. CASE ActivateFile
  BY <1>11 DEF ActivateFile, ActivateInv, RecoveryInv, SelectedInv
<1>12. CASE RemoveDestination
  BY <1>12 DEF RemoveDestination, RecoveryInv, SelectedInv
<1>13. CASE RestoreEntry
  BY <1>13 DEF RestoreEntry, RecoveryInv, SelectedInv
<1>14. CASE BeginInstall
  BY <1>14 DEF BeginInstall
<1>15. CASE ImageFault
  BY <1>15 DEF ImageFault
<1>16. CASE UNCHANGED <<dest, journal, before, slot, otaState>>
  BY <1>16
<1> QED
  BY <1>1, <1>2, <1>3, <1>4, <1>5, <1>6, <1>7, <1>8, <1>9, <1>10, <1>11,
     <1>12, <1>13, <1>14, <1>15, <1>16
     DEF Next, Device, Recovery, Install, Kernel, Faults, vars,
         RecoverInterruptedBundle, ApplySdFirmware, StartPortal,
         RemoveTransaction, RemovalDone, StageFile, MarkFilesActive,
         MarkFirmwareWritten, StoreFloor, KernelInit, Reboot, PowerCycle,
         RecoverInterruptedBundleFails, NvsUnavailable, PrepareFails,
         OperationFails, CleanupFails, MarkValidFails, Crash

\* Under the same assumption an installation is atomic: firmware and files
\* switch together when the image is confirmed, and nothing else the device
\* goes through changes what a reader may rely on.
THEOREM InstallIsAtomic ==
    ASSUME ImageFaults = FALSE
    PROVE  Spec => ImplementsAtomicGeneration
<1>1. TransactionInv /\ [Next]_vars => TransactionInv'
  BY TransactionStep
<1>2. TransactionInv /\ [Next]_vars => [Atomic!Next]_<<files, firmware>>
  BY AtomicStep
<1> QED
  BY TransactionInit, <1>1, <1>2, AtomicInit, PTL
     DEF Spec, ImplementsAtomicGeneration, Atomic!Spec, files, firmware

-----------------------------------------------------------------------------
(* The anti-rollback floor.                                                *)

\* Everything ever selected is at or below the floor, and an image about to be
\* selected is above everything selected before it.
FloorInv ==
    /\ TypeOK
    /\ maxSelected <= floor
    /\ pc \in {"mark", "floor", "select"} => slot = cand
    /\ pc = "select" => cand = floor /\ cand > maxSelected

LEMMA FloorInit == Init => FloorInv
  BY TypeInit DEF Init, FloorInv

LEMMA FloorStep ==
    ASSUME NvsErases = FALSE, FloorInv, [Next]_vars
    PROVE  FloorInv' /\ floor' >= floor
<1>1. TypeOK'
  BY CardTypeStep, FlashTypeStep, ProgramTypeStep, HistoryTypeStep
     DEF FloorInv, TypeOK
<1>2. /\ floor \in Nat /\ cand \in Nat /\ slot \in Nat /\ maxSelected \in Nat
      /\ floor' \in Nat
  BY <1>1, BoundsAssumption
     DEF FloorInv, TypeOK, FlashTypeOK, ProgramTypeOK, HistoryTypeOK, Versions
<1> USE DEF FloorInv, otaVars, runVars, auxVars, Goto, Restart, StartRollback,
            StartRemoval
<1>3. CASE StoreFloor
  BY <1>1, <1>2, <1>3 DEF StoreFloor, Newer
<1>4. CASE SelectOta1
  BY <1>1, <1>2, <1>4 DEF SelectOta1
<1>5. CASE OperationFails
  BY <1>1, <1>2, <1>5 DEF OperationFails, Newer, InstallSteps
<1>6. CASE KernelInit
  BY <1>1, <1>2, <1>6 DEF KernelInit
<1>7. CASE EndFirmware
  BY <1>1, <1>2, <1>7 DEF EndFirmware
<1>8. CASE MarkFirmwareWritten
  BY <1>1, <1>2, <1>8 DEF MarkFirmwareWritten
<1>9. CASE RemovalDone
  BY <1>1, <1>2, <1>9 DEF RemovalDone, AfterRemoval, TypeOK, ProgramTypeOK, Contexts
<1>10. CASE CleanupFails
  BY <1>1, <1>2, <1>10 DEF CleanupFails, AfterFailure, TypeOK, ProgramTypeOK, Contexts
<1>11. CASE UNCHANGED <<floor, maxSelected, cand, slot, pc>>
  BY <1>1, <1>2, <1>11
<1>12. CASE /\ UNCHANGED <<floor, maxSelected>>
            /\ pc' \notin {"mark", "floor", "select"}
  BY <1>1, <1>2, <1>12
<1> QED
  BY <1>3, <1>4, <1>5, <1>6, <1>7, <1>8, <1>9, <1>10, <1>11, <1>12
     DEF Next, Device, Recovery, Install, Kernel, Faults, vars,
         BootFromOtadata, RecoverInterruptedBundle, CheckOta1,
         ApplySdFirmware, StartPortal, RemoveDestination, RestoreEntry,
         RemoveTransaction, RemoveEntry, StageFile, WriteJournal, BackupFile,
         ActivateFile, MarkFilesActive, BeginFirmware, MarkValid,
         BeginInstall, Reboot, PowerCycle, ClearOtadata, SelectOta0,
         RecoverInterruptedBundleFails, NvsUnavailable, PrepareFails,
         MarkValidFails, Crash, ImageFault

\* As long as the kernel does not erase NVS, the floor only rises
\* (anti_rollback.rs).
THEOREM FloorNeverFalls ==
    ASSUME NvsErases = FALSE
    PROVE  Spec => FloorMonotone
<1>1. FloorInv /\ [Next]_vars => FloorInv' /\ floor' >= floor
  BY FloorStep
<1> QED
  BY FloorInit, <1>1, PTL DEF Spec, FloorMonotone

\* Under the same assumption no image is selected a second time, nor an older
\* one: neither a crash nor a failed activation reopens a version
\* (advance_before_activation).
THEOREM OldImagesStayOut ==
    ASSUME NvsErases = FALSE
    PROVE  Spec => NeverReselectsOldImage
<1>1. FloorInv /\ [Next]_vars => FloorInv'
  BY FloorStep
<1>2. FloorInv => (pc = "select" => slot > maxSelected)
  BY DEF FloorInv
<1>3. FloorInv /\ [Next]_vars =>
        [pc = "select" /\ selected' /\ ~selected => slot > maxSelected]_vars
  BY <1>2
<1> QED
  BY FloorInit, <1>1, <1>3, PTL DEF Spec, NeverReselectsOldImage

-----------------------------------------------------------------------------
(* The update from the card                                                *)

\* Between two starts the slots are in one of few relations: the slot that is written is
\* never the one that runs, nor the one the bootloader would go back to. The invariant names
\* them: which slots may be unsound, which image is on trial, what runs, what is written,
\* and what ran before.

CONSTANTS
    Drivers,    \* types of the drivers the HAL may have
    MaxRows,    \* MAX_DRIVER_ROWS
    Networks,   \* networks in reach, as the radio lists them
    MaxOffers,  \* WIFI_SCAN_MAX_RESULTS
    MaxDialogs, \* bound: dialogs open at once
    Typed,      \* passwords the user may type
    Configs,    \* what system.json may be at the start
    Updates,    \* what may be on the card as an update
    Fits        \* for each OTA slot, the images that have room in it

\* The screens, of which nothing is proved here.
VARIABLES root, listShown, subPage, covered, detail, current, timersOn, labels, rows,
          hal, gpsState, waiting, misused

VARIABLES
    docs,    \* system.json on the card and in flash
    cardIn,  \* the card is in
    offers,  \* rows of the scan list
    dialogs, \* networks named by the dialogs on the page
    dialogCtx, \* s_wifi_pwd_ctx
    phase,   \* what the task does
    target,  \* the network to join
    kept,    \* for each place the credentials last saved there
    spoiled  \* a password was gone from freed memory when it was read

VARIABLES
    card,    \* the files of the update
    slots,   \* what each app slot holds
    otadata, \* the slot selected last, and the state of each
    running, \* the slot that runs, "none" when the device is off
    trusted, \* the image that ran before the one that is not confirmed yet
    stage    \* ota_apply_from_sd: "idle", "checked", or the open file and the target

Set == INSTANCE Settings WITH
    ctx <- dialogCtx, before <- trusted

\* What otadata may say of a slot.
SlotStates == {"none", "new", "pending", "aborted", "valid"}

\* What the bootloader, the slots and the update may be.
UpdateTypes ==
    /\ otadata \in [last : Set!Ota, state : [Set!Ota -> SlotStates]]
    /\ running \in {"none", "factory"} \cup Set!Ota
    /\ slots = [s \in {"factory"} \cup Set!Ota |-> slots[s]] /\ slots["factory"] = "kernel"
    /\ card \in Updates \cup {Set!NoFile}
    /\ stage \in [is : {"idle", "checked", "open", "written"}, file : Updates \cup {Set!NoFile},
                  to : {"factory"} \cup Set!Ota]

\* The bootloader does not start the slot.
Spent(s) == otadata.state[s] \in {"none", "aborted"}
\* It holds an image that is whole and was signed.
Sound(s) == slots[s] \in Set!Genuine

\* An image that the bootloader may start is whole, but one that was confirmed once and is
\* being written over while another one, which was confirmed too, is selected.
SlotsInv ==
    \A s \in Set!Ota :
        \/ Spent(s) \/ Sound(s)
        \/ s # otadata.last /\ otadata.state[otadata.last] = "valid" /\ Sound(otadata.last)

\* Only the slot selected last is still to be confirmed, and if it runs nothing else does.
TrialInv ==
    \A s \in Set!Ota :
        /\ otadata.state[s] \in {"new", "pending"} => s = otadata.last
        /\ running # "none" => otadata.state[s] # "new"
        /\ running # "none" /\ otadata.state[s] = "pending" => running = s

\* What runs and is confirmed is what the bootloader would start again.
RunningInv ==
    /\ running \in Set!Ota => ~Spent(running)
    /\ running \in Set!Ota /\ otadata.state[running] = "valid" =>
           running = otadata.last \/ Spent(otadata.last)
    /\ running = "factory" => \A s \in Set!Ota : Spent(s)

\* The update is written beside what runs, from a file that is there.
WritingInv ==
    /\ stage.is # "idle" => running # "none"
    /\ stage.is \in {"open", "written"} =>
           /\ stage.to = Set!Target /\ ~Set!Unconfirmed /\ stage.file \in Updates
    /\ stage.is = "written" => stage.file.sig = "good" /\ slots[stage.to] = stage.file.image

\* While an image is still to be confirmed, the one before it is where the bootloader goes.
BeforeInv ==
    LET other == Set!OtherSlot(otadata.last)
    IN  otadata.state[otadata.last] \in {"new", "pending"} =>
            trusted = slots[IF otadata.state[other] = "valid" THEN other ELSE "factory"]

\* The inductive invariant of the update.
UpdateInv == UpdateTypes /\ SlotsInv /\ TrialInv /\ RunningInv /\ WritingInv /\ BeforeInv

\* What the bootloader makes of the states.
LEMMA StartsIs ==
    ASSUME UpdateTypes
    PROVE  LET good(s) == otadata.state[s] \in {"new", "valid"}
               last == otadata.last
           IN  /\ last \in Set!Ota /\ Set!OtherSlot(last) \in Set!Ota /\ Set!OtherSlot(last) # last
               /\ \A s \in Set!Ota : s = last \/ s = Set!OtherSlot(last)
               /\ good(last) => Set!Starts = last
               /\ ~good(last) /\ good(Set!OtherSlot(last)) => Set!Starts = Set!OtherSlot(last)
               /\ ~good(last) /\ ~good(Set!OtherSlot(last)) => Set!Starts = "factory"
  BY DEF UpdateTypes, SlotStates, Set!Starts, Set!Boots, Set!GivenUp, Set!OtherSlot, Set!Ota

\* The bootloader starts an image, which is tried once.
LEMMA StartUpKeeps ==
    ASSUME UpdateInv, Set!StartUp
    PROVE  UpdateInv'
<1>1. /\ running = "none" /\ running' = Set!Starts /\ UNCHANGED <<card, slots, trusted, stage>>
      /\ otadata' = [otadata EXCEPT !.state = Set!Tried(Set!GivenUp(otadata.state), Set!Starts)]
  BY DEF Set!StartUp
<1>2. /\ otadata'.last = otadata.last
      /\ \A s \in Set!Ota : otadata'.state[s] =
             IF otadata.state[s] = "pending" THEN "aborted"
             ELSE IF otadata.state[s] = "new" /\ s = Set!Starts THEN "pending" ELSE otadata.state[s]
      /\ otadata' \in [last : Set!Ota, state : [Set!Ota -> SlotStates]]
  BY <1>1 DEF UpdateInv, UpdateTypes, SlotStates, Set!Tried, Set!GivenUp
<1>3. UpdateTypes'
  BY <1>1, <1>2, StartsIs DEF UpdateInv, UpdateTypes
<1>4. SlotsInv'
  BY <1>1, <1>2 DEF UpdateInv, UpdateTypes, SlotsInv, Spent, Sound, SlotStates
<1>5. TrialInv'
  BY <1>1, <1>2, StartsIs DEF UpdateInv, TrialInv
<1>6. RunningInv'
  <2> DEFINE last == otadata.last  other == Set!OtherSlot(last)
  <2>1. \A s \in Set!Ota : /\ otadata.state[s] \in SlotStates
                          /\ otadata.state[s] \in {"new", "pending"} => s = last
    BY DEF UpdateInv, UpdateTypes, TrialInv
  <2>2. last \in Set!Ota /\ other \in Set!Ota /\ \A s \in Set!Ota : s = last \/ s = other
    BY StartsIs DEF UpdateInv
  <2>3. CASE otadata.state[last] \in {"new", "valid"}
    <3>1. running' = last
      BY <1>1, <2>3, StartsIs DEF UpdateInv
    <3> QED
      BY <1>2, <2>2, <2>3, <3>1 DEF RunningInv, Spent, Set!Ota
  <2>4. CASE otadata.state[last] \notin {"new", "valid"}
    <3>1. otadata'.state[last] \in {"none", "aborted"}
      BY <1>2, <2>1, <2>2, <2>4 DEF SlotStates
    <3>2. CASE otadata.state[other] \in {"new", "valid"}
      <4>1. running' = other
        BY <1>1, <2>4, <3>2, StartsIs DEF UpdateInv
      <4> QED
        BY <1>2, <2>2, <3>1, <3>2, <4>1 DEF RunningInv, Spent, Set!Ota
    <3>3. CASE otadata.state[other] \notin {"new", "valid"}
      <4>1. running' = "factory" /\ otadata'.state[other] \in {"none", "aborted"}
        BY <1>1, <1>2, <2>1, <2>2, <2>4, <3>3, StartsIs DEF UpdateInv, SlotStates
      <4> QED
        BY <2>2, <3>1, <4>1 DEF RunningInv, Spent, Set!Ota
    <3> QED
      BY <3>2, <3>3
  <2> QED
    BY <2>3, <2>4
<1>7. WritingInv'
  BY <1>1 DEF UpdateInv, UpdateTypes, WritingInv
<1>8. BeforeInv'
  BY <1>1, <1>2, StartsIs DEF UpdateInv, UpdateTypes, BeforeInv, TrialInv, Set!OtherSlot, SlotStates
<1> QED
  BY <1>3, <1>4, <1>5, <1>6, <1>7, <1>8 DEF UpdateInv

\* app_main confirms the image after five healthy seconds (ota_mark_valid).
LEMMA MarkValidKeeps ==
    ASSUME UpdateInv, Set!MarkValid
    PROVE  UpdateInv'
<1>1. /\ running \in Set!Ota /\ otadata.state[running] = "pending" /\ running = otadata.last
      /\ otadata' = [otadata EXCEPT !.state[running] = "valid"]
      /\ UNCHANGED <<card, slots, running, trusted, stage>>
  BY DEF Set!MarkValid, Set!Unconfirmed, UpdateInv, TrialInv
<1>2. /\ otadata'.last = otadata.last /\ otadata' \in [last : Set!Ota, state : [Set!Ota -> SlotStates]]
      /\ \A s \in Set!Ota : otadata'.state[s] = IF s = running THEN "valid" ELSE otadata.state[s]
  BY <1>1 DEF UpdateInv, UpdateTypes, SlotStates
<1>3. UpdateTypes'
  BY <1>1, <1>2 DEF UpdateInv, UpdateTypes
<1>4. SlotsInv'
  BY <1>1, <1>2 DEF UpdateInv, SlotsInv, Spent, Sound
<1>5. TrialInv' /\ RunningInv' /\ BeforeInv'
  BY <1>1, <1>2 DEF UpdateInv, TrialInv, RunningInv, BeforeInv, Spent
<1>6. WritingInv'
  BY <1>1, <1>2 DEF UpdateInv, WritingInv, Set!Unconfirmed, Set!Target
<1> QED
  BY <1>3, <1>4, <1>5, <1>6 DEF UpdateInv

\* ota_apply_from_sd opens the file and erases the slot beside the running one.
LEMMA BeginKeeps ==
    ASSUME UpdateInv, Set!Begin
    PROVE  UpdateInv'
<1>1. stage.is = "checked" /\ running # "none" /\ UNCHANGED <<card, otadata, running, trusted>>
  BY DEF Set!Begin, UpdateInv, WritingInv
<1>2. CASE stage' = Set!Idle /\ UNCHANGED slots
  BY <1>1, <1>2 DEF UpdateInv, UpdateTypes, SlotsInv, TrialInv, RunningInv, WritingInv, BeforeInv,
                    Spent, Sound, Set!Idle
<1>3. CASE /\ card.image # "none" /\ ~Set!Unconfirmed
           /\ stage' = [is |-> "open", file |-> card, to |-> Set!Target]
           /\ slots' = [slots EXCEPT ![Set!Target] = "torn"]
  <2>1. Set!Target \in Set!Ota /\ card \in Updates /\ Set!Target' = Set!Target
    BY <1>1, <1>3 DEF UpdateInv, UpdateTypes, Set!Target, Set!Ota, Set!NoFile
  <2>2. \A s \in {"factory"} \cup Set!Ota : slots'[s] = IF s = Set!Target THEN "torn" ELSE slots[s]
    BY <1>3 DEF UpdateInv, UpdateTypes
  <2>3. UpdateTypes'
    BY <1>1, <1>3, <2>1, <2>2 DEF UpdateInv, UpdateTypes, Set!Ota
  <2>4. /\ running \in Set!Ota => otadata.state[running] = "valid" /\ Set!Target = Set!OtherSlot(running)
        /\ otadata.state[otadata.last] \notin {"new", "pending"}
    BY <1>1, <1>3 DEF UpdateInv, UpdateTypes, RunningInv, TrialInv, Spent, SlotStates,
                      Set!Unconfirmed, Set!Target, Set!OtherSlot, Set!Ota
  <2>5. SlotsInv'
    BY <1>1, <2>1, <2>2, <2>4, StartsIs
       DEF UpdateInv, UpdateTypes, SlotsInv, RunningInv, Spent, Sound, Set!OtherSlot, Set!Ota
  <2>6. BeforeInv'
    BY <1>1, <2>4 DEF BeforeInv
  <2> QED
    BY <1>1, <1>3, <2>1, <2>3, <2>5, <2>6
       DEF UpdateInv, TrialInv, RunningInv, WritingInv, Spent, Set!Unconfirmed
<1> QED
  BY <1>2, <1>3 DEF Set!Begin

\* The bytes that are written are those that are verified (verify_exact_reader_with).
LEMMA StreamedKeeps ==
    ASSUME UpdateInv, NEW works \in BOOLEAN, Set!Streamed(works)
    PROVE  UpdateInv'
<1>1. stage.is = "open" /\ running # "none" /\ UNCHANGED <<card, otadata, running, trusted>>
  BY DEF Set!Streamed, UpdateInv, WritingInv
<1>2. CASE stage' = Set!Idle /\ UNCHANGED slots
  BY <1>1, <1>2 DEF UpdateInv, UpdateTypes, SlotsInv, TrialInv, RunningInv, WritingInv, BeforeInv,
                    Spent, Sound, Set!Idle
<1>3. CASE /\ stage.file.sig = "good" /\ stage' = [stage EXCEPT !.is = "written"]
           /\ slots' = [slots EXCEPT ![stage.to] = stage.file.image]
  <2>1. /\ stage.to = Set!Target /\ stage.to \in Set!Ota /\ ~Set!Unconfirmed /\ stage.file \in Updates
        /\ stage.file.image \in Set!Genuine
    BY <1>1, <1>3 DEF UpdateInv, UpdateTypes, WritingInv, Set!Target, Set!Ota, Set!Genuine
  <2>2. \A s \in {"factory"} \cup Set!Ota : slots'[s] = IF s = stage.to THEN stage.file.image ELSE slots[s]
    BY <1>3 DEF UpdateInv, UpdateTypes
  <2>3. UpdateTypes'
    BY <1>1, <1>3, <2>1, <2>2 DEF UpdateInv, UpdateTypes, Set!Ota
  <2>4. SlotsInv'
    BY <1>1, <2>1, <2>2 DEF UpdateInv, UpdateTypes, SlotsInv, Spent, Sound
  <2>5. otadata.state[otadata.last] \notin {"new", "pending"}
    BY <1>1, <2>1 DEF UpdateInv, UpdateTypes, TrialInv, Set!Unconfirmed
  <2>6. BeforeInv'
    BY <1>1, <2>5 DEF BeforeInv
  <2>7. WritingInv'
    BY <1>1, <1>3, <2>1, <2>2 DEF UpdateInv, UpdateTypes, WritingInv, Set!Unconfirmed, Set!Target
  <2> QED
    BY <1>1, <2>3, <2>4, <2>6, <2>7 DEF UpdateInv, TrialInv, RunningInv, Spent
<1> QED
  BY <1>2, <1>3 DEF Set!Streamed

\* The slot written is selected, and the device restarts (esp_ota_set_boot_partition).
LEMMA SelectedKeeps ==
    ASSUME UpdateInv, NEW works \in BOOLEAN, Set!Selected(works)
    PROVE  UpdateInv'
<1>1. stage.is = "written" /\ running # "none" /\ stage' = Set!Idle /\ UNCHANGED <<card, slots>>
  BY DEF Set!Selected, UpdateInv, WritingInv
<1>2. CASE UNCHANGED <<otadata, trusted, running>>
  BY <1>1, <1>2 DEF UpdateInv, UpdateTypes, SlotsInv, TrialInv, RunningInv, WritingInv, BeforeInv,
                    Spent, Sound, Set!Idle
<1>3. CASE /\ otadata' = [last |-> stage.to, state |-> [otadata.state EXCEPT ![stage.to] = "new"]]
           /\ trusted' = slots[running] /\ running' = "none"
  <2>1. /\ stage.to = Set!Target /\ stage.to \in Set!Ota /\ ~Set!Unconfirmed
        /\ slots[stage.to] \in Set!Genuine
    BY <1>1 DEF UpdateInv, UpdateTypes, WritingInv, Set!Target, Set!Ota, Set!Genuine
  <2>2. /\ otadata' \in [last : Set!Ota, state : [Set!Ota -> SlotStates]] /\ otadata'.last = stage.to
        /\ \A s \in Set!Ota : otadata'.state[s] = IF s = stage.to THEN "new" ELSE otadata.state[s]
    BY <1>3, <2>1 DEF UpdateInv, UpdateTypes, SlotStates
  <2>3. UpdateTypes'
    BY <1>1, <1>3, <2>2 DEF UpdateInv, UpdateTypes, Set!Idle
  <2>4. /\ running \in Set!Ota => /\ otadata.state[running] = "valid"
                                  /\ running = Set!OtherSlot(stage.to) /\ Sound(running)
        /\ running \notin Set!Ota => running = "factory" /\ \A s \in Set!Ota : Spent(s)
    <3>1. running \in Set!Ota => otadata.state[running] = "valid"
      BY <1>1, <2>1 DEF UpdateInv, UpdateTypes, TrialInv, RunningInv, Spent, SlotStates, Set!Unconfirmed
    <3>2. running \in Set!Ota => running = Set!OtherSlot(stage.to)
      BY <2>1 DEF Set!Target, Set!OtherSlot, Set!Ota
    <3>3. running \in Set!Ota => Sound(running)
      BY <3>1 DEF UpdateInv, SlotsInv, RunningInv, Spent
    <3> QED
      BY <1>1, <3>1, <3>2, <3>3 DEF UpdateInv, UpdateTypes, RunningInv
  <2>5. \A s \in Set!Ota : s = stage.to \/ s = Set!OtherSlot(stage.to)
    BY <2>1 DEF Set!Ota, Set!OtherSlot
  <2>6. SlotsInv'
    BY <1>1, <2>1, <2>2, <2>4, <2>5 DEF SlotsInv, Spent, Sound
  <2>7. TrialInv' /\ RunningInv'
    BY <1>3, <2>2, <2>4, <2>5 DEF TrialInv, RunningInv, Spent, Set!Ota
  <2>8. Set!OtherSlot(stage.to) \in Set!Ota /\ Set!OtherSlot(stage.to) # stage.to
    BY <2>1 DEF Set!OtherSlot, Set!Ota
  <2>9. BeforeInv'
    BY <1>1, <1>3, <2>2, <2>4, <2>8 DEF BeforeInv, Spent, Set!OtherSlot
  <2> QED
    BY <1>1, <2>3, <2>6, <2>7, <2>9 DEF UpdateInv, WritingInv, Set!Idle
<1> QED
  BY <1>2, <1>3 DEF Set!Selected

\* The power goes, the update is asked for, the card is changed, or none of it.
LEMMA OthersKeepTheUpdate ==
    ASSUME UpdateInv,
           \/ Set!ShutDown \/ Set!InstallClicked \/ UNCHANGED Set!updateVars
           \/ \E file \in Updates \cup {Set!NoFile} : Set!CardChanged(file)
    PROVE  UpdateInv'
<1>1. /\ UNCHANGED <<slots, otadata, trusted>> /\ running' \in {running, "none"}
      /\ card' \in Updates \cup {Set!NoFile}
  BY DEF Set!ShutDown, Set!InstallClicked, Set!updateVars, Set!CardChanged, UpdateInv, UpdateTypes
<1>2. /\ stage' = stage \/ stage'.is \in {"idle", "checked"}
      /\ stage'.is # "idle" => running' # "none" /\ running' = running
      /\ stage' \in [is : {"idle", "checked", "open", "written"}, file : Updates \cup {Set!NoFile},
                     to : {"factory"} \cup Set!Ota]
  BY DEF Set!ShutDown, Set!InstallClicked, Set!updateVars, Set!CardChanged, UpdateInv, UpdateTypes,
         WritingInv, Set!Idle
<1>3. UpdateTypes' /\ SlotsInv' /\ BeforeInv'
  BY <1>1, <1>2 DEF UpdateInv, UpdateTypes, SlotsInv, BeforeInv, Spent, Sound
<1>4. TrialInv' /\ RunningInv'
  BY <1>1 DEF UpdateInv, TrialInv, RunningInv, Spent, Set!Ota
<1>5. WritingInv'
  BY <1>1, <1>2 DEF UpdateInv, WritingInv, Set!Target, Set!Unconfirmed
<1> QED
  BY <1>3, <1>4, <1>5 DEF UpdateInv

\* Every step of the Settings app and of the bootloader keeps the invariant.
LEMMA UpdateInvInductive ==
    /\ Set!Init => UpdateInv
    /\ UpdateInv /\ [Set!Next]_(Set!vars) => UpdateInv'
<1>1. ASSUME Set!Init PROVE UpdateInv
  <2>1. Set!UpdateStart
    BY <1>1 DEF Set!Init
  <2>2. UpdateTypes
    BY <2>1 DEF Set!UpdateStart, UpdateTypes, SlotStates, Set!Ota, Set!Idle, Set!NoFile
  <2>3. SlotsInv /\ TrialInv /\ RunningInv /\ WritingInv /\ BeforeInv
    BY <2>1 DEF Set!UpdateStart, SlotsInv, TrialInv, RunningInv, WritingInv, BeforeInv, Spent, Sound,
                Set!Ota, Set!OtherSlot, Set!Idle, Set!Genuine
  <2> QED
    BY <2>2, <2>3 DEF UpdateInv
<1>2. ASSUME UpdateInv, [Set!Next]_(Set!vars) PROVE UpdateInv'
  <2>1. CASE Set!UpdateNext
    BY <1>2, <2>1, StartUpKeeps, MarkValidKeeps, BeginKeeps, StreamedKeeps, SelectedKeeps,
       OthersKeepTheUpdate DEF Set!UpdateNext
  <2>2. CASE UNCHANGED Set!updateVars
    BY <1>2, <2>2, OthersKeepTheUpdate
  <2> QED
    BY <1>2, <2>1, <2>2 DEF Set!Next, Set!vars
<1> QED
  BY <1>1, <1>2

\* Whatever is done to the card and whenever the power goes, the device starts an image that
\* is whole and was signed, and one that is not confirmed yet is given up for the one that
\* ran before (settings_ui.c, ota.rs, main.c): for any files on the card and any room in the
\* slots.
THEOREM UpdatesAreSafe == Set!Spec => []Set!UpdateIsSafe
<1>1. UpdateInv => Set!UpdateIsSafe
  <2> SUFFICES ASSUME UpdateInv PROVE Set!UpdateIsSafe
    OBVIOUS
  <2>1. slots[Set!Starts] \in Set!Genuine
    BY StartsIs DEF UpdateInv, UpdateTypes, SlotsInv, TrialInv, Spent, Sound, Set!Genuine
  <2>2. running # "none" => slots[running] \in Set!Genuine
    BY StartsIs DEF UpdateInv, UpdateTypes, SlotsInv, TrialInv, RunningInv, Spent, Sound, SlotStates, Set!Genuine
  <2>3. Set!Unconfirmed => slots[Set!Starts] = trusted
    BY StartsIs DEF UpdateInv, UpdateTypes, TrialInv, BeforeInv, Set!Unconfirmed
  <2> QED
    BY <2>1, <2>2, <2>3 DEF Set!UpdateIsSafe
<1> QED
  BY <1>1, UpdateInvInductive, PTL DEF Set!Spec

-----------------------------------------------------------------------------
(* The credentials for the Wi-Fi                                           *)

\* A file that is being written is torn; what it would be read as if it were whole is kept
\* track of, since the write may not have reached it (NotOpened). One context serves all
\* dialogs, so that only the dialog on top is the context's.

\* The texts that are around: what the code writes itself, what is typed, what the radio
\* lists and what the files of settings hold.
Texts ==
    {"", "none", "odd", "object", "yes", "junk"} \cup Typed \cup {Networks[i].ssid : i \in DOMAIN Networks}
    \cup UNION {{w.is, w.on, w.ssid, w.pw} : w \in {c.inner : c \in Configs} \cup {c.outer : c \in Configs}}

\* The object in system.json that parse_wifi_credentials reads.
WifiObject == [is : Texts, on : Texts, ssid : Texts, pw : Texts]
\* A file of settings, as far as it is read.
Document == [is : {"missing", "torn", "whole"}, nested : BOOLEAN, inner : WifiObject, outer : WifiObject]

\* A file of settings has these fields, and a network that the radio lists has a name.
CredentialsAssumption ==
    /\ Configs \subseteq Document
    /\ \A i \in DOMAIN Networks : Networks[i].ssid # ""

\* The texts that the code itself writes, what is typed and the names of networks are texts.
LEMMA TextsAre ==
    /\ {"", "none", "odd", "object", "yes", "junk"} \subseteq Texts
    /\ Typed \subseteq Texts
    /\ \A i \in DOMAIN Networks : Networks[i].ssid \in Texts
BY DEF Texts

\* The front of a sequence, and one element more.
LEMMA FrontAndAppend ==
    ASSUME NEW S, NEW s \in Seq(S), NEW x \in S
    PROVE  /\ s # <<>> => SubSeq(s, 1, Len(s) - 1) \in Seq(S)
           /\ Append(s, x) \in Seq(S) /\ Append(s, x)[Len(Append(s, x))] = x
OBVIOUS

\* What the files, the page and the task may be.
CredentialTypes ==
    /\ docs \in [Set!Places -> Document]
    /\ target \in [shown : Texts, ssid : Texts, meant : Texts, pw : Texts, freed : BOOLEAN,
                   place : {""} \cup Set!Places]
    /\ dialogs \in Seq(Texts) /\ dialogCtx \in [ssid : Texts, live : BOOLEAN]
    /\ kept \in [Set!Places -> [ssid : Texts, pw : Texts]]
    /\ spoiled \in BOOLEAN
    /\ offers \subseteq {Networks[i] : i \in DOMAIN Networks}

\* The context is that of the dialog on top, while it is live and the page was not left.
ContextInv ==
    dialogCtx.live => dialogCtx.ssid # "" /\ (dialogs # <<>> => dialogCtx.ssid = dialogs[Len(dialogs)])

\* What is joined from the page is what it shows; what is saved has a name.
TargetInv ==
    /\ phase \in {"joining", "saving"} /\ target.place = "" =>
           target.ssid = target.shown /\ target.ssid # ""
    /\ phase = "saving" => target.place = ""
    /\ phase = "writing" =>
           /\ target.ssid # "" /\ Set!Valid(target.pw) /\ target.place \in Set!Places
           /\ docs[target.place].is = "torn"
           /\ Set!Wifi(docs[target.place]).is = "object"

\* A file would be read as what was last saved in it, if it is whole or is being written;
\* one that is torn, and not being written, is not read again.
KeptInv ==
    \A p \in Set!Places :
        /\ docs[p].is = "whole" \/ (phase = "writing" /\ target.place = p)
        /\ kept[p] # Set!Nothing /\ ~spoiled
        => Set!Parsed([docs[p] EXCEPT !.is = "whole"]) = kept[p]

\* No other object of a file is changed.
OthersInv ==
    \A p \in Set!Places :
        \E c \in Configs : c.nested = docs[p].nested /\ Set!Other(c) = Set!Other(docs[p])

\* What is joined at the boot is what was last saved.
BootInv ==
    phase = "joining" /\ target.place # "" /\ ~spoiled =>
        kept[target.place] \in {Set!Nothing, [ssid |-> target.ssid, pw |-> target.pw]}

\* The inductive invariant of the credentials.
CredentialInv ==
    CredentialTypes /\ ContextInv /\ TargetInv /\ KeptInv /\ OthersInv /\ BootInv

\* Credentials.
Pair == [ssid : Texts, pw : Texts]

\* parse_wifi_credentials finds credentials in a whole file only.
LEMMA ParsedIs ==
    ASSUME NEW d \in Document
    PROVE  /\ Set!Parsed(d) \in Pair
           /\ Set!Parsed(d) # Set!Nothing => d.is = "whole"
<1>1. Set!Wifi(d) \in WifiObject
  BY DEF Document, Set!Wifi
<1>2. Set!Nothing \in Pair
  BY TextsAre DEF Set!Nothing, Pair
<1>3. [ssid |-> Set!Wifi(d).ssid, pw |-> Set!Wifi(d).pw] \in Pair
  BY <1>1 DEF WifiObject, Pair
<1> QED
  BY <1>2, <1>3 DEF Set!Parsed

\* A file is emptied, or found whole again: what it would be read as stays.
LEMMA StateOfFileSet ==
    ASSUME NEW d \in Document, NEW w \in {"torn", "whole"}
    PROVE  LET e == [d EXCEPT !.is = w]
           IN  /\ e \in Document /\ e.is = w /\ e.nested = d.nested
               /\ Set!Wifi(e) = Set!Wifi(d) /\ Set!Other(e) = Set!Other(d)
               /\ [e EXCEPT !.is = "whole"] = [d EXCEPT !.is = "whole"]
               /\ d.is = "whole" => [d EXCEPT !.is = "whole"] = d
<1> DEFINE e == [d EXCEPT !.is = w]
<1>1. e \in Document /\ e.is = w /\ e.nested = d.nested /\ e.inner = d.inner /\ e.outer = d.outer
  BY DEF Document
<1>2. Set!Wifi(e) = Set!Wifi(d) /\ Set!Other(e) = Set!Other(d)
  BY <1>1 DEF Set!Wifi, Set!Other
<1>3. [e EXCEPT !.is = "whole"] = [d EXCEPT !.is = "whole"]
  BY DEF Document
<1>4. d.is = "whole" => [d EXCEPT !.is = "whole"] = d
  BY DEF Document
<1> QED
  BY <1>1, <1>2, <1>3, <1>4

\* update_wifi_object writes the object that is read, and no other.
LEMMA UpdatedIs ==
    ASSUME NEW d \in Document, NEW ssid \in Texts, NEW pw \in Texts, ssid # "", Set!Valid(pw)
    PROVE  LET e == [Set!Updated(d, ssid, pw) EXCEPT !.is = "whole"]
           IN  /\ e \in Document /\ e.is = "whole" /\ e.nested = d.nested
               /\ Set!Other(e) = Set!Other(d)
               /\ Set!Parsed(e) = [ssid |-> ssid, pw |-> pw]
<1> DEFINE new == [is |-> "object", on |-> "yes", ssid |-> ssid, pw |-> pw]
           u == Set!Updated(d, ssid, pw)
           e == [u EXCEPT !.is = "whole"]
<1>1. new \in WifiObject /\ new.is = "object" /\ new.on = "yes" /\ new.ssid = ssid /\ new.pw = pw
  BY TextsAre DEF WifiObject
<1>2. /\ u \in Document /\ u.nested = d.nested
      /\ d.nested => u.inner = new /\ u.outer = d.outer
      /\ ~d.nested => u.outer = new /\ u.inner = d.inner
  <2>1. CASE d.nested
    <3>1. u = [d EXCEPT !.inner = new]
      BY <2>1 DEF Set!Updated
    <3> HIDE DEF new, u
    <3> QED
      BY <1>1, <2>1, <3>1 DEF Document
  <2>2. CASE ~d.nested
    <3>1. u = [d EXCEPT !.outer = new]
      BY <2>2 DEF Set!Updated
    <3> HIDE DEF new, u
    <3> QED
      BY <1>1, <2>2, <3>1 DEF Document
  <2> QED
    BY <2>1, <2>2
<1>3. Set!Wifi(u) = new /\ Set!Other(u) = Set!Other(d)
  BY <1>2 DEF Set!Wifi, Set!Other, Document
<1>4. /\ e \in Document /\ e.is = "whole" /\ e.nested = u.nested
      /\ Set!Wifi(e) = Set!Wifi(u) /\ Set!Other(e) = Set!Other(u)
  BY <1>2, StateOfFileSet
<1>5. Set!Parsed(e) = [ssid |-> ssid, pw |-> pw]
  BY <1>1, <1>3, <1>4 DEF Set!Parsed
<1> QED
  BY <1>2, <1>3, <1>4, <1>5

\* The files and what is known of them stay, and so does the task, or it goes back to the
\* page.
LEMMA FilesStay ==
    ASSUME CredentialInv, UNCHANGED <<docs, kept, spoiled>>, CredentialTypes', ContextInv',
           \/ UNCHANGED <<phase, target>>
           \/ phase' \in {"off", "page"}
    PROVE  CredentialInv'
<1>1. TargetInv' /\ KeptInv' /\ OthersInv' /\ BootInv'
  BY DEF CredentialInv, TargetInv, KeptInv, OthersInv, BootInv
<1> QED
  BY <1>1 DEF CredentialInv

\* No target, no context and no dialog.
LEMMA EmptyTargetIs ==
    /\ Set!NoTarget \in [shown : Texts, ssid : Texts, meant : Texts, pw : Texts, freed : BOOLEAN,
                         place : {""} \cup Set!Places]
    /\ Set!NoContext \in [ssid : Texts, live : BOOLEAN] /\ ~Set!NoContext.live
    /\ <<>> \in Seq(Texts)
<1>1. "" \in Texts
  BY TextsAre
<1>2. <<>> \in Seq(Texts)
  OBVIOUS
<1>3. Set!NoTarget \in [shown : Texts, ssid : Texts, meant : Texts, pw : Texts, freed : BOOLEAN,
                       place : {""} \cup Set!Places]
  BY <1>1 DEF Set!NoTarget
<1>4. Set!NoContext \in [ssid : Texts, live : BOOLEAN] /\ ~Set!NoContext.live
  BY <1>1 DEF Set!NoContext
<1> QED
  BY <1>2, <1>3, <1>4

\* What happens on the page without a network being joined, and when the power goes.
LEMMA PageKeeps ==
    ASSUME CredentialInv,
           \/ Set!PageLeft \/ Set!CancelClicked \/ Set!PowerLost \/ Set!CardMoved
           \/ \E works \in BOOLEAN : Set!Scan(works)
           \/ UNCHANGED Set!wifiVars
    PROVE  CredentialInv'
<1> USE DEF CredentialInv, CredentialTypes, ContextInv
<1>1. CASE Set!PageLeft
  <2>1. CredentialTypes' /\ ContextInv'
    BY <1>1, EmptyTargetIs DEF Set!PageLeft
  <2> QED
    BY <1>1, <2>1, FilesStay DEF Set!PageLeft
<1>2. CASE Set!CancelClicked
  <2>1. Set!Front(dialogs) \in Seq(Texts)
    BY <1>2, FrontAndAppend DEF Set!CancelClicked, Set!Front
  <2>2. dialogCtx' \in [ssid : Texts, live : BOOLEAN] /\ dialogCtx'.live = FALSE
    BY <1>2 DEF Set!CancelClicked
  <2>3. CredentialTypes' /\ ContextInv'
    BY <1>2, <2>1, <2>2 DEF Set!CancelClicked
  <2> QED
    BY <1>2, <2>3, FilesStay DEF Set!CancelClicked
<1>3. CASE Set!PowerLost
  <2>1. CredentialTypes' /\ ContextInv'
    BY <1>3, EmptyTargetIs DEF Set!PowerLost, Set!Off
  <2> QED
    BY <1>3, <2>1, FilesStay DEF Set!PowerLost, Set!Off
<1>4. CASE Set!CardMoved \/ UNCHANGED Set!wifiVars
  <2>1. UNCHANGED <<docs, offers, dialogs, dialogCtx, phase, target, kept, spoiled>>
    BY <1>4 DEF Set!CardMoved, Set!wifiVars
  <2>2. CredentialTypes' /\ ContextInv'
    BY <2>1
  <2> QED
    BY <2>1, <2>2, FilesStay
<1>5. ASSUME NEW works \in BOOLEAN, Set!Scan(works) PROVE CredentialInv'
  <2>1. offers' \subseteq {Networks[i] : i \in DOMAIN Networks}
    BY <1>5 DEF Set!Scan
  <2>2. CredentialTypes' /\ ContextInv'
    BY <1>5, <2>1 DEF Set!Scan
  <2> QED
    BY <1>5, <2>2, FilesStay DEF Set!Scan
<1> QED
  BY <1>1, <1>2, <1>3, <1>4, <1>5

\* A network is joined from the page.
LEMMA JoinKeeps ==
    ASSUME CredentialInv, UNCHANGED <<docs, kept, spoiled>>, CredentialTypes', ContextInv',
           phase' = "joining", target'.place = "", target'.ssid = target'.shown, target'.ssid # ""
    PROVE  CredentialInv'
BY DEF CredentialInv, TargetInv, KeptInv, OthersInv, BootInv

\* wifi_network_clicked_cb: an open network is joined, another one gets a dialog.
LEMMA NetworkKeeps ==
    ASSUME CredentialInv, CredentialsAssumption, NEW net, Set!NetworkClicked(net)
    PROVE  CredentialInv'
<1>1. net.ssid \in Texts \ {""} /\ UNCHANGED <<docs, cardIn, offers, kept, spoiled>>
  BY TextsAre DEF Set!NetworkClicked, CredentialInv, CredentialTypes, CredentialsAssumption
<1>2. CASE net.open
  <2>1. /\ phase' = "joining" /\ UNCHANGED <<dialogs, dialogCtx>>
        /\ target' = [Set!NoTarget EXCEPT !.shown = net.ssid, !.ssid = net.ssid]
    BY <1>2 DEF Set!NetworkClicked
  <2>2. /\ target' \in [shown : Texts, ssid : Texts, meant : Texts, pw : Texts, freed : BOOLEAN,
                        place : {""} \cup Set!Places]
        /\ target'.ssid = net.ssid /\ target'.shown = net.ssid /\ target'.place = ""
    <3>1. target' = [shown |-> net.ssid, ssid |-> net.ssid, meant |-> "", pw |-> "", freed |-> FALSE,
                     place |-> ""]
      BY <2>1 DEF Set!NoTarget
    <3> QED
      BY <1>1, <3>1, TextsAre
  <2>3. CredentialTypes' /\ ContextInv'
    BY <1>1, <2>1, <2>2 DEF CredentialInv, CredentialTypes, ContextInv
  <2> QED
    BY <1>1, <2>1, <2>2, <2>3, JoinKeeps
<1>3. CASE ~net.open
  <2>1. /\ dialogs' = Append(dialogs, net.ssid) /\ UNCHANGED <<phase, target>>
        /\ dialogCtx' = [ssid |-> net.ssid, live |-> TRUE]
    BY <1>3 DEF Set!NetworkClicked, Set!ShowDialog
  <2>2. dialogs' \in Seq(Texts) /\ dialogs'[Len(dialogs')] = net.ssid
    <3>1. dialogs \in Seq(Texts) /\ net.ssid \in Texts
      BY <1>1 DEF CredentialInv, CredentialTypes
    <3> QED
      BY <2>1, <3>1, FrontAndAppend
  <2>3. dialogCtx' \in [ssid : Texts, live : BOOLEAN] /\ dialogCtx'.ssid = net.ssid
    BY <1>1, <2>1
  <2>4. CredentialTypes' /\ ContextInv'
    BY <1>1, <2>1, <2>2, <2>3 DEF CredentialInv, CredentialTypes, ContextInv
  <2> QED
    BY <1>1, <2>1, <2>4, FilesStay
<1> QED
  BY <1>2, <1>3

\* wifi_pwd_connect_cb, from the dialog of the context or from one below another.
LEMMA ConnectKeeps ==
    ASSUME CredentialInv, CredentialsAssumption, NEW text \in Typed,
           NEW used \in Typed \cup {"", "junk"}, Set!ConnectClicked(text, used)
    PROVE  CredentialInv'
<1>1. text \in Texts /\ used \in Texts /\ UNCHANGED <<docs, cardIn, kept, spoiled>>
  BY TextsAre DEF Set!ConnectClicked
<1>2. CASE dialogCtx.live
  <2>1. /\ target' = [shown |-> Set!Last(dialogs), ssid |-> dialogCtx.ssid, freed |-> TRUE,
                      meant |-> text, pw |-> used, place |-> ""]
        /\ phase' = "joining" /\ dialogs' = Set!Front(dialogs)
        /\ dialogCtx' = [dialogCtx EXCEPT !.live = FALSE] /\ UNCHANGED offers /\ dialogs # <<>>
    BY <1>2 DEF Set!ConnectClicked
  <2>2. Set!Last(dialogs) = dialogCtx.ssid /\ dialogCtx.ssid \in Texts /\ dialogCtx.ssid # ""
    BY <1>2, <2>1 DEF CredentialInv, CredentialTypes, ContextInv, Set!Last
  <2>3. /\ target' \in [shown : Texts, ssid : Texts, meant : Texts, pw : Texts, freed : BOOLEAN,
                        place : {""} \cup Set!Places]
        /\ target'.ssid = dialogCtx.ssid /\ target'.shown = dialogCtx.ssid /\ target'.place = ""
    BY <1>1, <2>1, <2>2
  <2>4. dialogs' \in Seq(Texts)
    BY <2>1, TextsAre, FrontAndAppend DEF CredentialInv, CredentialTypes, Set!Front
  <2>5. dialogCtx' \in [ssid : Texts, live : BOOLEAN] /\ dialogCtx'.live = FALSE
    BY <2>1 DEF CredentialInv, CredentialTypes
  <2>6. CredentialTypes' /\ ContextInv'
    BY <1>1, <2>1, <2>3, <2>4, <2>5 DEF CredentialInv, CredentialTypes, ContextInv
  <2> QED
    BY <1>1, <2>1, <2>2, <2>3, <2>6, JoinKeeps
<1>3. CASE ~dialogCtx.live
  <2>1. Set!Off
    BY <1>3 DEF Set!ConnectClicked
  <2>2. CredentialTypes' /\ ContextInv'
    BY <1>1, <2>1, EmptyTargetIs DEF Set!Off, CredentialInv, CredentialTypes, ContextInv
  <2> QED
    BY <1>1, <2>1, <2>2, FilesStay DEF Set!Off
<1> QED
  BY <1>2, <1>3

\* wifi_manager_connect returns, and the credentials are to be saved or not.
LEMMA JoinEndKeeps ==
    ASSUME CredentialInv, CredentialsAssumption, NEW joined \in BOOLEAN,
           NEW used \in Typed \cup {"", "junk"}, Set!JoinEnds(joined, used)
    PROVE  CredentialInv'
<1>1. used \in Texts /\ UNCHANGED <<docs, cardIn, offers, dialogs, dialogCtx, kept, spoiled>>
      /\ phase = "joining"
  BY TextsAre DEF Set!JoinEnds
<1>2. CASE joined /\ target.place = ""
  <2>1. phase' = "saving" /\ target' = [target EXCEPT !.pw = used]
    BY <1>2 DEF Set!JoinEnds
  <2>2. /\ target' \in [shown : Texts, ssid : Texts, meant : Texts, pw : Texts, freed : BOOLEAN,
                        place : {""} \cup Set!Places]
        /\ target'.ssid = target.ssid /\ target'.shown = target.shown /\ target'.place = ""
    BY <1>1, <1>2, <2>1 DEF CredentialInv, CredentialTypes
  <2>3. CredentialTypes' /\ ContextInv'
    BY <1>1, <2>1, <2>2 DEF CredentialInv, CredentialTypes, ContextInv
  <2>4. TargetInv'
    BY <1>1, <1>2, <2>1, <2>2 DEF CredentialInv, TargetInv
  <2>5. KeptInv' /\ OthersInv' /\ BootInv'
    BY <1>1, <2>1 DEF CredentialInv, KeptInv, OthersInv, BootInv
  <2> QED
    BY <2>3, <2>4, <2>5 DEF CredentialInv
<1>3. CASE ~(joined /\ target.place = "")
  <2>1. phase' = "page" /\ target' = Set!NoTarget
    BY <1>3 DEF Set!JoinEnds
  <2>2. CredentialTypes' /\ ContextInv'
    BY <1>1, <2>1, EmptyTargetIs DEF CredentialInv, CredentialTypes, ContextInv
  <2> QED
    BY <1>1, <2>1, <2>2, FilesStay
<1> QED
  BY <1>2, <1>3

\* wifi_manager_auto_connect joins what the file says.
LEMMA BootKeeps ==
    ASSUME CredentialInv, NEW started \in BOOLEAN, Set!Boot(started)
    PROVE  CredentialInv'
<1> DEFINE found == Set!Parsed(docs[Set!Path])
<1>1. UNCHANGED <<docs, cardIn, offers, dialogs, dialogCtx, kept, spoiled>> /\ Set!Path \in Set!Places
      /\ docs[Set!Path] \in Document
  BY DEF Set!Boot, Set!Path, Set!Places, CredentialInv, CredentialTypes
<1>2. CASE started /\ found # Set!Nothing
  <2>1. /\ phase' = "joining"
        /\ target' = [shown |-> found.ssid, ssid |-> found.ssid, meant |-> found.pw,
                      pw |-> found.pw, freed |-> FALSE, place |-> Set!Path]
    BY <1>2 DEF Set!Boot
  <2>2. found \in Pair /\ docs[Set!Path].is = "whole"
    BY <1>1, <1>2, ParsedIs
  <2>3. /\ target' \in [shown : Texts, ssid : Texts, meant : Texts, pw : Texts, freed : BOOLEAN,
                        place : {""} \cup Set!Places]
        /\ target'.ssid = found.ssid /\ target'.pw = found.pw /\ target'.place = Set!Path
        /\ found = [ssid |-> found.ssid, pw |-> found.pw]
    <3> HIDE DEF found
    <3> QED
      BY <1>1, <2>1, <2>2 DEF Pair
  <2>4. CredentialTypes' /\ ContextInv'
    BY <1>1, <2>1, <2>3 DEF CredentialInv, CredentialTypes, ContextInv
  <2>5. Set!Path # ""
    BY <1>1 DEF Set!Places
  <2>6. [docs[Set!Path] EXCEPT !.is = "whole"] = docs[Set!Path]
    BY <1>1, <2>2, StateOfFileSet
  <2>7. kept[Set!Path] # Set!Nothing /\ ~spoiled => found = kept[Set!Path]
    BY <1>1, <2>2, <2>6 DEF CredentialInv, KeptInv
  <2>8. TargetInv' /\ BootInv'
    <3> HIDE DEF found
    <3> QED
      BY <1>1, <2>1, <2>3, <2>5, <2>7 DEF TargetInv, BootInv
  <2>9. KeptInv' /\ OthersInv'
    BY <1>1, <2>1 DEF CredentialInv, KeptInv, OthersInv
  <2> QED
    BY <2>4, <2>8, <2>9 DEF CredentialInv
<1>3. CASE ~(started /\ found # Set!Nothing)
  <2>1. phase' = "page" /\ UNCHANGED target
    BY <1>3 DEF Set!Boot
  <2>2. CredentialTypes' /\ ContextInv'
    BY <1>1, <2>1 DEF CredentialInv, CredentialTypes, ContextInv
  <2> QED
    BY <1>1, <2>1, <2>2, FilesStay
<1> QED
  BY <1>2, <1>3

\* wifi_manager_save_credentials, up to the write that empties the file.
LEMMA SaveKeeps ==
    ASSUME CredentialInv, Set!Save
    PROVE  CredentialInv'
<1>1. UNCHANGED <<cardIn, offers, dialogs, dialogCtx, kept, spoiled>> /\ Set!Path \in Set!Places
      /\ docs[Set!Path] \in Document /\ phase = "saving"
  BY DEF Set!Save, Set!Path, Set!Places, CredentialInv, CredentialTypes
<1>2. CASE phase' = "page"
  <2>1. target' = Set!NoTarget /\ UNCHANGED docs
    BY <1>2 DEF Set!Save
  <2>2. CredentialTypes' /\ ContextInv'
    BY <1>1, <2>1, EmptyTargetIs DEF CredentialInv, CredentialTypes, ContextInv
  <2> QED
    BY <1>1, <1>2, <2>1, <2>2, FilesStay
<1>3. CASE phase' # "page"
  <2> DEFINE e == [docs[Set!Path] EXCEPT !.is = "torn"]
  <2>1. /\ Set!Valid(target.pw) /\ docs[Set!Path].is = "whole"
        /\ Set!Wifi(docs[Set!Path]).is = "object" /\ phase' = "writing"
        /\ target' = [target EXCEPT !.place = Set!Path]
        /\ docs' = [docs EXCEPT ![Set!Path].is = "torn"]
    BY <1>3 DEF Set!Save
  <2>2. docs' = [docs EXCEPT ![Set!Path] = e]
    BY <2>1
  <2>3. /\ e \in Document /\ e.is = "torn" /\ e.nested = docs[Set!Path].nested
        /\ Set!Wifi(e) = Set!Wifi(docs[Set!Path]) /\ Set!Other(e) = Set!Other(docs[Set!Path])
        /\ [e EXCEPT !.is = "whole"] = [docs[Set!Path] EXCEPT !.is = "whole"]
    BY <1>1, StateOfFileSet
  <2> HIDE DEF e
  <2>4. /\ docs' \in [Set!Places -> Document]
        /\ \A p \in Set!Places : docs'[p] = IF p = Set!Path THEN e ELSE docs[p]
    BY <2>2, <2>3 DEF CredentialInv, CredentialTypes
  <2>5. /\ target' \in [shown : Texts, ssid : Texts, meant : Texts, pw : Texts, freed : BOOLEAN,
                        place : {""} \cup Set!Places]
        /\ target'.ssid = target.ssid /\ target'.pw = target.pw /\ target'.place = Set!Path
    BY <1>1, <2>1 DEF CredentialInv, CredentialTypes
  <2>6. CredentialTypes' /\ ContextInv'
    BY <1>1, <2>1, <2>4, <2>5 DEF CredentialInv, CredentialTypes, ContextInv
  <2>7. BootInv'
    BY <2>1 DEF BootInv
  <2>8. TargetInv'
    <3>1. target'.ssid # ""
      <4>1. target.place = "" => target.ssid # ""
        BY <1>1 DEF CredentialInv, TargetInv
      <4>2. target.place = ""
        BY <1>1 DEF CredentialInv, TargetInv
      <4> QED
        BY <2>5, <4>1, <4>2
    <3>2. docs'[Set!Path] = e
      BY <1>1, <2>4
    <3>3. target'.place = Set!Path /\ target'.pw = target.pw /\ docs'[target'.place] = e
      BY <2>5, <3>2
    <3>4. docs'[target'.place].is = "torn" /\ Set!Wifi(docs'[target'.place]).is = "object"
      BY <2>1, <2>3, <3>3
    <3>5. target'.place \in Set!Places /\ Set!Valid(target'.pw)
      BY <1>1, <2>1, <3>3
    <3>6. phase' = "writing"
      BY <2>1
    <3> QED
      BY <3>1, <3>4, <3>5, <3>6 DEF TargetInv
  <2>9. KeptInv'
    <3> SUFFICES ASSUME NEW p \in Set!Places,
                        docs'[p].is = "whole" \/ (phase' = "writing" /\ target'.place = p),
                        kept'[p] # Set!Nothing, ~spoiled'
                 PROVE  Set!Parsed([docs'[p] EXCEPT !.is = "whole"]) = kept'[p]
      BY DEF KeptInv
    <3>1. CASE p = Set!Path
      <4>1. kept[p] # Set!Nothing /\ ~spoiled /\ docs[p].is = "whole" /\ kept'[p] = kept[p]
        BY <1>1, <2>1, <3>1
      <4>2. Set!Parsed([docs[p] EXCEPT !.is = "whole"]) = kept[p]
        BY <4>1 DEF CredentialInv, KeptInv
      <4>3. docs'[p] = e /\ [e EXCEPT !.is = "whole"] = [docs[p] EXCEPT !.is = "whole"]
        BY <1>1, <2>3, <2>4, <3>1
      <4> QED
        BY <4>1, <4>2, <4>3
    <3>2. CASE p # Set!Path
      <4>1. docs'[p] = docs[p] /\ docs[p].is = "whole" /\ kept'[p] = kept[p]
        BY <1>1, <2>4, <2>5, <3>2
      <4> QED
        BY <1>1, <4>1 DEF CredentialInv, KeptInv
    <3> QED
      BY <3>1, <3>2
  <2>10. OthersInv'
    <3> SUFFICES ASSUME NEW p \in Set!Places
                 PROVE  \E c \in Configs : /\ c.nested = docs'[p].nested
                                          /\ Set!Other(c) = Set!Other(docs'[p])
      BY DEF OthersInv
    <3>1. docs'[p].nested = docs[p].nested /\ Set!Other(docs'[p]) = Set!Other(docs[p])
      BY <2>3, <2>4
    <3> QED
      BY <3>1 DEF CredentialInv, OthersInv
  <2> QED
    BY <2>6, <2>7, <2>8, <2>9, <2>10 DEF CredentialInv
<1> QED
  BY <1>2, <1>3

\* The file could not be opened for writing.
LEMMA NotOpenedKeeps ==
    ASSUME CredentialInv, Set!NotOpened
    PROVE  CredentialInv'
<1> DEFINE place == target.place
           e == [docs[place] EXCEPT !.is = "whole"]
<1>1. /\ UNCHANGED <<cardIn, offers, dialogs, dialogCtx, kept, spoiled>> /\ phase = "writing"
      /\ place \in Set!Places /\ docs[place] \in Document
      /\ docs' = [docs EXCEPT ![place] = e] /\ phase' = "page" /\ target' = Set!NoTarget
  BY DEF Set!NotOpened, CredentialInv, CredentialTypes, TargetInv
<1>2. /\ e \in Document /\ e.is = "whole" /\ e.nested = docs[place].nested
      /\ Set!Other(e) = Set!Other(docs[place])
      /\ [e EXCEPT !.is = "whole"] = [docs[place] EXCEPT !.is = "whole"]
  BY <1>1, StateOfFileSet
<1>3. \A p \in Set!Places :
         kept[p] # Set!Nothing /\ ~spoiled /\ (docs[p].is = "whole" \/ p = place) =>
             Set!Parsed([docs[p] EXCEPT !.is = "whole"]) = kept[p]
  BY <1>1 DEF CredentialInv, KeptInv
<1> HIDE DEF e
<1>4. /\ docs' \in [Set!Places -> Document]
      /\ \A p \in Set!Places : docs'[p] = IF p = place THEN e ELSE docs[p]
  BY <1>1, <1>2 DEF CredentialInv, CredentialTypes
<1>5. CredentialTypes' /\ ContextInv'
  BY <1>1, <1>4, EmptyTargetIs DEF CredentialInv, CredentialTypes, ContextInv
<1>6. TargetInv' /\ BootInv'
  BY <1>1 DEF TargetInv, BootInv
<1>7. KeptInv' /\ OthersInv'
  BY <1>1, <1>2, <1>3, <1>4 DEF CredentialInv, KeptInv, OthersInv
<1> QED
  BY <1>5, <1>6, <1>7 DEF CredentialInv

\* The write ends, or fails half-way.
LEMMA WrittenKeeps ==
    ASSUME CredentialInv, NEW works \in BOOLEAN, Set!Written(works)
    PROVE  CredentialInv'
<1>1. /\ UNCHANGED <<cardIn, offers, dialogs, dialogCtx>> /\ phase = "writing"
      /\ phase' = "page" /\ target' = Set!NoTarget
  BY DEF Set!Written
<1>2. CASE ~works
  <2>1. UNCHANGED <<docs, kept, spoiled>>
    BY <1>2 DEF Set!Written, CredentialInv, CredentialTypes
  <2>2. CredentialTypes' /\ ContextInv'
    BY <1>1, <2>1, EmptyTargetIs DEF CredentialInv, CredentialTypes, ContextInv
  <2> QED
    BY <1>1, <2>1, <2>2, FilesStay
<1>3. CASE works
  <2> DEFINE place == target.place
             e == [Set!Updated(docs[place], target.ssid, target.pw) EXCEPT !.is = "whole"]
             new == [ssid |-> target.ssid, pw |-> target.meant]
  <2>1. /\ docs' = [docs EXCEPT ![place] = e] /\ kept' = [kept EXCEPT ![place] = new]
        /\ spoiled' = (spoiled \/ target.pw # target.meant)
    BY <1>3 DEF Set!Written
  <2>2. /\ place \in Set!Places /\ docs[place] \in Document /\ target.ssid \in Texts
        /\ target.pw \in Texts /\ target.meant \in Texts /\ target.ssid # ""
        /\ Set!Valid(target.pw) /\ spoiled \in BOOLEAN
    BY <1>1 DEF CredentialInv, CredentialTypes, TargetInv
  <2>3. /\ e \in Document /\ e.is = "whole" /\ e.nested = docs[place].nested
        /\ Set!Other(e) = Set!Other(docs[place])
        /\ Set!Parsed(e) = [ssid |-> target.ssid, pw |-> target.pw]
    BY <2>2, UpdatedIs
  <2>4. [e EXCEPT !.is = "whole"] = e
    BY <2>3, StateOfFileSet
  <2>5. new \in Pair /\ (~spoiled' => Set!Parsed(e) = new)
    BY <2>1, <2>2, <2>3 DEF Pair
  <2> HIDE DEF e, new
  <2>6. /\ docs' \in [Set!Places -> Document] /\ kept' \in [Set!Places -> Pair]
        /\ \A p \in Set!Places : /\ docs'[p] = IF p = place THEN e ELSE docs[p]
                                 /\ kept'[p] = IF p = place THEN new ELSE kept[p]
    BY <2>1, <2>2, <2>3, <2>5 DEF CredentialInv, CredentialTypes, Pair
  <2>7. CredentialTypes' /\ ContextInv'
    BY <1>1, <2>1, <2>2, <2>6, EmptyTargetIs DEF CredentialInv, CredentialTypes, ContextInv, Pair
  <2>8. TargetInv' /\ BootInv'
    BY <1>1 DEF TargetInv, BootInv
  <2>9. KeptInv'
    <3> SUFFICES ASSUME NEW p \in Set!Places, docs'[p].is = "whole", kept'[p] # Set!Nothing,
                        ~spoiled'
                 PROVE  Set!Parsed([docs'[p] EXCEPT !.is = "whole"]) = kept'[p]
      BY <1>1 DEF KeptInv
    <3>1. CASE p = place
      BY <2>4, <2>5, <2>6, <3>1
    <3>2. CASE p # place
      BY <2>1, <2>2, <2>6, <3>2 DEF CredentialInv, KeptInv
    <3> QED
      BY <3>1, <3>2
  <2>10. OthersInv'
    <3> SUFFICES ASSUME NEW p \in Set!Places
                 PROVE  \E c \in Configs : /\ c.nested = docs'[p].nested
                                          /\ Set!Other(c) = Set!Other(docs'[p])
      BY DEF OthersInv
    <3>1. docs'[p].nested = docs[p].nested /\ Set!Other(docs'[p]) = Set!Other(docs[p])
      BY <2>3, <2>6
    <3> QED
      BY <3>1 DEF CredentialInv, OthersInv
  <2> QED
    BY <2>7, <2>8, <2>9, <2>10 DEF CredentialInv
<1> QED
  BY <1>2, <1>3

\* Every step of the Settings app keeps the invariant.
LEMMA CredentialInvInductive ==
    ASSUME CredentialsAssumption
    PROVE  /\ Set!Init => CredentialInv
           /\ CredentialInv /\ [Set!Next]_(Set!vars) => CredentialInv'
<1>1. ASSUME Set!Init PROVE CredentialInv
  <2>1. /\ docs \in [Set!Places -> Configs] /\ cardIn \in BOOLEAN /\ offers = {} /\ dialogs = <<>>
        /\ dialogCtx = Set!NoContext /\ phase = "off" /\ target = Set!NoTarget
        /\ kept = [p \in Set!Places |-> Set!Nothing] /\ spoiled = FALSE
    BY <1>1 DEF Set!Init, Set!WifiStart
  <2>2. docs \in [Set!Places -> Document]
    BY <2>1 DEF CredentialsAssumption
  <2>3. kept \in [Set!Places -> Pair]
    BY <2>1, TextsAre DEF Set!Nothing, Pair
  <2>4. CredentialTypes
    BY <2>1, <2>2, <2>3, EmptyTargetIs DEF CredentialTypes, Pair
  <2>5. ContextInv /\ TargetInv /\ KeptInv /\ BootInv
    BY <2>1, EmptyTargetIs DEF ContextInv, TargetInv, KeptInv, BootInv
  <2>6. OthersInv
    BY <2>1 DEF OthersInv
  <2> QED
    BY <2>4, <2>5, <2>6 DEF CredentialInv
<1>2. ASSUME CredentialInv, [Set!Next]_(Set!vars) PROVE CredentialInv'
  <2>1. CASE Set!WifiNext
    BY <1>2, <2>1, PageKeeps, NetworkKeeps, ConnectKeeps, JoinEndKeeps, BootKeeps, SaveKeeps,
       NotOpenedKeeps, WrittenKeeps DEF Set!WifiNext
  <2>2. CASE UNCHANGED Set!wifiVars
    BY <1>2, <2>2, PageKeeps
  <2> QED
    BY <1>2, <2>1, <2>2 DEF Set!Next, Set!vars
<1> QED
  BY <1>1, <1>2

\* What was last saved in a whole file is what the user joined with and what the next boot
\* joins, in the object that is read, and no other one is changed; what is joined from a
\* dialog is the network the dialog names; but for a password that was gone from the freed
\* text area before it was saved (settings_ui.c, wifi_manager.rs): for any networks,
\* passwords and files of settings.
THEOREM CredentialsAreKept ==
    ASSUME CredentialsAssumption PROVE Set!Spec => []Set!CredentialsSurvive
<1>1. CredentialInv => Set!CredentialsSurvive
  <2> SUFFICES ASSUME CredentialInv PROVE Set!CredentialsSurvive
    OBVIOUS
  <2>1. ASSUME NEW p \in Set!Places, docs[p].is = "whole", kept[p] # Set!Nothing
        PROVE  spoiled \/ Set!Parsed(docs[p]) = kept[p]
    <3>1. docs[p] \in Document
      BY DEF CredentialInv, CredentialTypes
    <3>2. [docs[p] EXCEPT !.is = "whole"] = docs[p]
      BY <2>1, <3>1, StateOfFileSet
    <3> QED
      BY <2>1, <3>2 DEF CredentialInv, KeptInv
  <2>2. \A p \in Set!Places :
            \E c \in Configs : c.nested = docs[p].nested /\ Set!Other(c) = Set!Other(docs[p])
    BY DEF CredentialInv, OthersInv
  <2>3. phase = "joining" /\ target.place = "" => target.ssid = target.shown
    BY DEF CredentialInv, TargetInv
  <2>4. phase = "joining" /\ target.place # "" /\ ~spoiled =>
            kept[target.place] \in {Set!Nothing, [ssid |-> target.ssid, pw |-> target.pw]}
    BY DEF CredentialInv, BootInv
  <2> QED
    BY <2>1, <2>2, <2>3, <2>4 DEF Set!CredentialsSurvive
<1> QED
  BY <1>1, CredentialInvInductive, PTL DEF Set!Spec
=============================================================================
