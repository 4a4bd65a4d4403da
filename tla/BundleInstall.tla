---------------------------- MODULE BundleInstall ----------------------------
(***************************************************************************)
(* Installation of a board bundle by the Recovery OS, from the request of  *)
(* the web portal to the confirmation by the kernel it installs:           *)
(*                                                                         *)
(*   - recovery/src/bundle_transaction.rs: the journalled transaction on   *)
(*     the SD card (install, rollback, finalize, recovery_action);         *)
(*   - recovery/src/recovery_ota.rs, anti_rollback.rs, main.rs: the        *)
(*     firmware write, the security-version floor kept in NVS, the boot    *)
(*     decision of Recovery;                                               *)
(*   - components/kernel_rs/src/ota.rs, kernel_boot.rs, main/main.c: what  *)
(*     the installed kernel does before and after it confirms itself;      *)
(*   - the ESP-IDF bootloader and otadata, as the code uses them           *)
(*     (external).                                                         *)
(*                                                                         *)
(* Every step is one file-system or flash operation, so that a power loss  *)
(* (Crash) or an I/O error (the ...Fails actions) may fall between any two *)
(* of them.  fs::remove_dir_all in particular removes one entry at a time. *)
(*                                                                         *)
(* A version is a firmware security_version.  A file of the SD card is     *)
(* represented by the version of the bundle that wrote it, Absent when it  *)
(* does not exist.                                                         *)
(***************************************************************************)
EXTENDS Naturals

CONSTANTS
    NFiles,       \* files of a bundle, in journal order
    MaxVersion,   \* bound: highest security version the catalog offers
    MaxFaults,    \* bound: power losses, I/O errors and image faults
    ImageFaults,  \* may the image of a confirmed ota_1 go bad in flash?
    NvsErases     \* may the kernel find NVS full or of a newer format?

ASSUME BoundsAssumption ==
    NFiles \in Nat \ {0} /\ MaxVersion \in Nat \ {0} /\ MaxFaults \in Nat

ASSUME EnvironmentAssumption == ImageFaults \in BOOLEAN /\ NvsErases \in BOOLEAN

Files == 1 .. NFiles
Absent == 0
Versions == 0 .. MaxVersion

FilesActive == "files-active"
FirmwareWritten == "firmware-written"

\* Every file of the generation that bundle g installs.
Whole(g) == [f \in Files |-> g]

VARIABLES
    \* -- the SD card ------------------------------------------------------
    dest,      \* Files -> version: the active file
    staged,    \* Files -> version: stage/<file>
    backup,    \* Files -> version: backup/<file>
    had,       \* Files -> had_original, as the journal records it
    journal,   \* does the journal file exist?
    marks,     \* phase markers that exist
    \* -- the flash --------------------------------------------------------
    slot,      \* version of the image in ota_1, Absent when erased
    imageOk,   \* does that image pass the bootloader's check?
    otaState,  \* otadata: state of ota_1
    selected,  \* otadata: is ota_1 the boot partition?
    floor,     \* NVS: thistle_sec/fw_sec_ver
    \* -- the running program ----------------------------------------------
    pc,        \* where it is
    idx,       \* index of the loop over the journal's entries
    cand,      \* security version being installed
    kind,      \* what is being installed: a bundle or the SD image
    ctx,       \* on whose behalf rollback or remove_dir_all runs
    \* -- history, never read by the program -------------------------------
    before,    \* the active files when the last transaction began
    gen,       \* version of the last transaction
    maxSelected, \* highest version ever selected for boot
    faults     \* faults so far

sdVars == <<dest, staged, backup, had, journal, marks>>
otaVars == <<slot, imageOk, otaState, selected>>
runVars == <<pc, idx, cand, kind, ctx>>
auxVars == <<before, gen, maxSelected>>
vars == <<sdVars, otaVars, floor, runVars, auxVars, faults>>

InstallSteps == {"activate", "firmware", "flashing", "mark", "floor", "select"}
Locations == InstallSteps \cup
    {"reset", "resolve", "rollback", "remove", "check", "sd", "web", "stage",
     "stopped", "kernel", "soak", "running"}

\* The places where a recursive removal of the transaction directory is
\* called, and where each continues when it succeeds and when it fails.
Contexts == {"clean", "abandon", "undo", "recover", "finalize", "confirm"}

AfterRemoval ==
    [clean |-> "stage", abandon |-> "web", undo |-> "web",
     recover |-> "check", finalize |-> "check", confirm |-> "running"]

AfterFailure ==
    [clean |-> "web", abandon |-> "web", undo |-> "web",
     recover |-> "stopped", finalize |-> "stopped", confirm |-> "running"]

\* Type invariant: every variable keeps to the values the code can write; an
\* otadata state outside them would be one check_ota1 does not know.
CardTypeOK ==
    /\ dest \in [Files -> Versions]
    /\ staged \in [Files -> Versions]
    /\ backup \in [Files -> Versions]
    /\ had \in [Files -> BOOLEAN]
    /\ journal \in BOOLEAN
    /\ marks \in SUBSET {FilesActive, FirmwareWritten}

FlashTypeOK ==
    /\ slot \in Versions
    /\ imageOk \in BOOLEAN
    /\ otaState \in {"none", "new", "pending", "valid", "aborted"}
    /\ selected \in BOOLEAN
    /\ floor \in Versions

ProgramTypeOK ==
    /\ pc \in Locations
    /\ idx \in 0 .. NFiles + 1
    /\ cand \in Versions
    /\ kind \in {"bundle", "sd"}
    /\ ctx \in Contexts

HistoryTypeOK ==
    /\ before \in [Files -> Versions]
    /\ gen \in Versions
    /\ maxSelected \in Versions
    /\ faults \in 0 .. MaxFaults

TypeOK == CardTypeOK /\ FlashTypeOK /\ ProgramTypeOK /\ HistoryTypeOK

\* A provisioned device without a main firmware: any of the bundle's files may
\* already be on the card (written by an earlier bundle, version 1 say).
Init ==
    /\ dest \in [Files -> {Absent, 1}]
    /\ staged = Whole(Absent)
    /\ backup = Whole(Absent)
    /\ had = [f \in Files |-> FALSE]
    /\ journal = FALSE
    /\ marks = {}
    /\ slot = Absent
    /\ imageOk = FALSE
    /\ otaState = "none"
    /\ selected = FALSE
    /\ floor = 0
    /\ pc = "reset"
    /\ idx = 0
    /\ cand = Absent
    /\ kind = "bundle"
    /\ ctx = "clean"
    /\ before = dest
    /\ gen = Absent
    /\ maxSelected = 0
    /\ faults = 0

Goto(l) == pc' = l /\ UNCHANGED <<idx, cand, kind, ctx>>

\* esp_restart, or power coming back: nothing volatile survives.
Restart ==
    /\ pc' = "reset"
    /\ idx' = 0
    /\ cand' = Absent
    /\ kind' = "bundle"
    /\ ctx' = "clean"

Fault == faults < MaxFaults /\ faults' = faults + 1

-----------------------------------------------------------------------------
(* The bootloader, with CONFIG_BOOTLOADER_APP_ROLLBACK_ENABLE.             *)

\* A selected image is tried once unconfirmed: NEW becomes PENDING_VERIFY, and
\* PENDING_VERIFY found at the next boot becomes ABORTED, which deselects it.
BootFromOtadata ==
    /\ pc = "reset"
    /\ IF selected /\ otaState \in {"new", "valid"}
       THEN /\ otaState' = (IF otaState = "new" THEN "pending" ELSE "valid")
            /\ Goto(IF imageOk THEN "kernel" ELSE "resolve")
            /\ UNCHANGED selected
       ELSE /\ otaState' = (IF selected THEN "aborted" ELSE otaState)
            /\ selected' = FALSE
            /\ Goto("resolve")
    /\ UNCHANGED <<sdVars, slot, imageOk, floor, auxVars, faults>>

-----------------------------------------------------------------------------
(* Recovery: what it resolves before it decides what to boot.              *)

\* read_journal: the phase is the furthest marker that exists.
Phase ==
    IF FirmwareWritten \in marks THEN "FirmwareWritten"
    ELSE IF FilesActive \in marks THEN "FilesActive"
    ELSE "Prepared"

\* (mutant: a transaction still in its Prepared phase is overlooked)
RecoveryActionMutant ==
    IF ~journal \/ Phase = "Prepared" THEN "None" ELSE "Rollback"

RecoveryAction ==
    IF ~journal THEN "None"
    ELSE IF Phase = "FirmwareWritten" /\ selected /\ otaState = "valid"
         THEN "Finalize" ELSE "Rollback"

\* Start undoing the journal's entries, last one first.
StartRollback(c) ==
    /\ pc' = "rollback"
    /\ idx' = NFiles
    /\ ctx' = c
    /\ UNCHANGED <<cand, kind>>

StartRemoval(c) ==
    /\ pc' = "remove"
    /\ ctx' = c
    /\ UNCHANGED <<idx, cand, kind>>

RecoverInterruptedBundle ==
    /\ pc = "resolve"
    /\ \/ RecoveryAction = "None" /\ Goto("check")
       \/ RecoveryAction = "Rollback" /\ StartRollback("recover")
       \/ RecoveryAction = "Finalize" /\ StartRemoval("finalize")
    /\ UNCHANGED <<sdVars, otaVars, floor, auxVars, faults>>

\* recover_interrupted_bundle()? cannot read the card: main returns the error.
RecoverInterruptedBundleFails ==
    /\ pc = "resolve"
    /\ journal
    /\ Fault
    /\ Goto("stopped")
    /\ UNCHANGED <<sdVars, otaVars, floor, auxVars>>

\* (mutant: a confirmed ota_1 that is not selected is not booted)
CheckOta1Mutant ==
    /\ pc = "check"
    /\ Goto("sd")
    /\ UNCHANGED <<sdVars, otaVars, floor, auxVars, faults>>

\* check_ota1: Valid and PendingVerify boot ota_1; everything else stays here.
\* boot_ota1 selects the partition again, which ESP-IDF refuses for an image
\* that does not validate: main then returns the error.
CheckOta1 ==
    /\ pc = "check"
    /\ \/ /\ otaState \in {"valid", "pending"}
          /\ imageOk
          /\ otaState' = "new"
          /\ selected' = TRUE
          /\ Restart
       \/ /\ otaState \in {"valid", "pending"}
          /\ ~imageOk
          /\ Goto("stopped")
          /\ UNCHANGED <<otaState, selected>>
       \/ /\ otaState \notin {"valid", "pending"}
          /\ Goto("sd")
          /\ UNCHANGED <<otaState, selected>>
    /\ UNCHANGED <<sdVars, slot, imageOk, floor, auxVars, faults>>

\* (mutant: a replay of the current version passes)
NewerMutant(c) == c > 0 /\ c >= floor

Newer(c) == c > floor

\* apply_sd_firmware: a signed image of version c is in /sdcard/update.
ApplySdFirmware ==
    /\ pc = "sd"
    /\ \E c \in Versions :
          /\ Newer(c)
          /\ cand' = c
    /\ kind' = "sd"
    /\ pc' = "firmware"
    /\ UNCHANGED <<idx, ctx, sdVars, otaVars, floor, auxVars, faults>>

\* No image on the card, or one that is refused: the web portal starts.
StartPortal ==
    /\ pc = "sd"
    /\ Goto("web")
    /\ UNCHANGED <<sdVars, otaVars, floor, auxVars, faults>>

\* EspDefaultNvsPartition::take_with(false)? or init_anti_rollback()? fails.
NvsUnavailable ==
    /\ pc = "sd"
    /\ Fault
    /\ Goto("stopped")
    /\ UNCHANGED <<sdVars, otaVars, floor, auxVars>>

-----------------------------------------------------------------------------
(* bundle_transaction::install, called by the web portal's request.        *)

\* recovery_download_board_bundle_for accepts only a version above the floor,
\* and install only without a journal; a directory left without one (a crash
\* while staging) is removed first.
BeginInstall ==
    /\ pc = "web"
    /\ ~journal
    /\ \E c \in Versions :
          /\ Newer(c)
          /\ cand' = c
          /\ gen' = c
    /\ kind' = "bundle"
    /\ before' = dest
    /\ pc' = "remove"
    /\ ctx' = "clean"
    /\ UNCHANGED <<idx, sdVars, otaVars, floor, maxSelected, faults>>

StageFile ==
    /\ pc = "stage"
    /\ idx <= NFiles
    /\ staged' = [staged EXCEPT ![idx] = cand]
    /\ had' = [had EXCEPT ![idx] = dest[idx] # Absent]
    /\ idx' = idx + 1
    /\ UNCHANGED <<dest, backup, journal, marks, pc, cand, kind, ctx,
                   otaVars, floor, auxVars, faults>>

\* journal.tmp is written and synced, then renamed: the journal appears whole.
WriteJournal ==
    /\ pc = "stage"
    /\ idx = NFiles + 1
    /\ journal' = TRUE
    /\ pc' = "activate"
    /\ idx' = 1
    /\ UNCHANGED <<dest, staged, backup, had, marks, cand, kind, ctx,
                   otaVars, floor, auxVars, faults>>

\* prepare_result is an error: the directory is removed, the error returned.
PrepareFails ==
    /\ pc = "stage"
    /\ Fault
    /\ StartRemoval("abandon")
    /\ UNCHANGED <<sdVars, otaVars, floor, auxVars>>

BackupFile ==
    /\ pc = "activate"
    /\ idx <= NFiles
    /\ had[idx]
    /\ dest[idx] # Absent
    /\ backup' = [backup EXCEPT ![idx] = dest[idx]]
    /\ dest' = [dest EXCEPT ![idx] = Absent]
    /\ UNCHANGED <<staged, had, journal, marks,
                   runVars, otaVars, floor, auxVars, faults>>

\* After the backup of the entry, if it had an original.
ActivateFile ==
    /\ pc = "activate"
    /\ idx <= NFiles
    /\ had[idx] => backup[idx] # Absent
    /\ dest' = [dest EXCEPT ![idx] = staged[idx]]
    /\ staged' = [staged EXCEPT ![idx] = Absent]
    /\ idx' = idx + 1
    /\ UNCHANGED <<backup, had, journal, marks, pc, cand, kind, ctx,
                   otaVars, floor, auxVars, faults>>

\* (mutant: the loop may stop one entry early)
MarkFilesActiveMutant ==
    /\ pc = "activate"
    /\ idx >= NFiles
    /\ marks' = marks \cup {FilesActive}
    /\ Goto("firmware")
    /\ UNCHANGED <<dest, staged, backup, had, journal,
                   otaVars, floor, auxVars, faults>>

MarkFilesActive ==
    /\ pc = "activate"
    /\ idx = NFiles + 1
    /\ marks' = marks \cup {FilesActive}
    /\ Goto("firmware")
    /\ UNCHANGED <<dest, staged, backup, had, journal,
                   otaVars, floor, auxVars, faults>>

\* esp_ota_begin erases ota_1 ...
BeginFirmware ==
    /\ pc = "firmware"
    /\ slot' = Absent
    /\ imageOk' = FALSE
    /\ Goto("flashing")
    /\ UNCHANGED <<otaState, selected, sdVars, floor, auxVars, faults>>

\* ... and the image counts once its digest is checked and esp_ota_end succeeds.
EndFirmware ==
    /\ pc = "flashing"
    /\ slot' = cand
    /\ imageOk' = TRUE
    /\ Goto(IF kind = "bundle" THEN "mark" ELSE "floor")
    /\ UNCHANGED <<otaState, selected, sdVars, floor, auxVars, faults>>

MarkFirmwareWritten ==
    /\ pc = "mark"
    /\ marks' = marks \cup {FirmwareWritten}
    /\ Goto("floor")
    /\ UNCHANGED <<dest, staged, backup, had, journal,
                   otaVars, floor, auxVars, faults>>

\* advance_before_activation: the floor is stored and read back first.
StoreFloor ==
    /\ pc = "floor"
    /\ Newer(cand)
    /\ floor' = cand
    /\ Goto("select")
    /\ UNCHANGED <<sdVars, otaVars, auxVars, faults>>

\* (mutant: the partition is selected without rollback protection)
SelectOta1Mutant ==
    /\ pc = "select"
    /\ imageOk
    /\ selected' = TRUE
    /\ otaState' = "undefined"
    /\ maxSelected' = (IF slot > maxSelected THEN slot ELSE maxSelected)
    /\ Restart
    /\ UNCHANGED <<slot, imageOk, sdVars, floor, before, gen, faults>>

\* select_ota1_for_boot.  After a bundle Recovery serves the portal until it is
\* told to reboot; after the SD image it restarts by itself.
SelectOta1 ==
    /\ pc = "select"
    /\ imageOk
    /\ selected' = TRUE
    /\ otaState' = "new"
    /\ maxSelected' = (IF slot > maxSelected THEN slot ELSE maxSelected)
    /\ IF kind = "bundle" THEN Goto("web") ELSE Restart
    /\ UNCHANGED <<slot, imageOk, sdVars, floor, before, gen, faults>>

\* operation_result is an error: a bundle is rolled back at once, an SD image
\* leaves an unselected partition and Recovery goes on to its portal.
OperationFails ==
    /\ pc \in InstallSteps
    /\ Fault
    /\ IF kind = "bundle" THEN StartRollback("undo") ELSE Goto("web")
    /\ \/ UNCHANGED <<marks, floor>>
       \/ \* write_synced created the marker but could not sync it
          /\ \/ /\ pc = "activate" /\ idx = NFiles + 1
                /\ marks' = marks \cup {FilesActive}
             \/ pc = "mark" /\ marks' = marks \cup {FirmwareWritten}
          /\ UNCHANGED floor
       \/ \* the floor was stored but not read back
          /\ pc = "floor" /\ Newer(cand)
          /\ floor' = cand
          /\ UNCHANGED marks
    /\ UNCHANGED <<dest, staged, backup, had, journal, otaVars, auxVars>>

-----------------------------------------------------------------------------
(* bundle_transaction::rollback and the removal of the directory.          *)

\* (mutant: an entry without an original is not undone)
DisplacedMutant(f) == had[f] /\ backup[f] # Absent

\* Must the entry's destination give way: to its backup, or, when it had no
\* original, because its staged file has been moved there?
Displaced(f) == IF had[f] THEN backup[f] # Absent ELSE staged[f] = Absent

RemoveDestination ==
    /\ pc = "rollback"
    /\ idx > 0
    /\ Displaced(idx)
    /\ dest[idx] # Absent
    /\ dest' = [dest EXCEPT ![idx] = Absent]
    /\ UNCHANGED <<staged, backup, had, journal, marks,
                   runVars, otaVars, floor, auxVars, faults>>

\* The backup is renamed back, or nothing is left to do for this entry.
RestoreEntry ==
    /\ pc = "rollback"
    /\ idx > 0
    /\ Displaced(idx) => dest[idx] = Absent
    /\ IF had[idx] /\ Displaced(idx)
       THEN /\ dest' = [dest EXCEPT ![idx] = backup[idx]]
            /\ backup' = [backup EXCEPT ![idx] = Absent]
       ELSE UNCHANGED <<dest, backup>>
    /\ idx' = idx - 1
    /\ UNCHANGED <<staged, had, journal, marks, pc, cand, kind, ctx,
                   otaVars, floor, auxVars, faults>>

RemoveTransaction ==
    /\ pc = "rollback"
    /\ idx = 0
    /\ StartRemoval(ctx)
    /\ UNCHANGED <<sdVars, otaVars, floor, auxVars, faults>>

\* One entry of the transaction directory is deleted, in directory order.
RemoveEntry ==
    /\ pc = "remove"
    /\ \/ /\ \E f \in Files : staged[f] # Absent
                           /\ staged' = [staged EXCEPT ![f] = Absent]
          /\ UNCHANGED <<backup, journal, marks>>
       \/ /\ \E f \in Files : backup[f] # Absent
                           /\ backup' = [backup EXCEPT ![f] = Absent]
          /\ UNCHANGED <<staged, journal, marks>>
       \/ /\ \E m \in marks : marks' = marks \ {m}
          /\ UNCHANGED <<staged, backup, journal>>
       \/ /\ journal
          /\ journal' = FALSE
          /\ UNCHANGED <<staged, backup, marks>>
    /\ UNCHANGED <<dest, had, runVars, otaVars, floor, auxVars, faults>>

DirectoryEmpty ==
    staged = Whole(Absent) /\ backup = Whole(Absent) /\ marks = {} /\ ~journal

RemovalDone ==
    /\ pc = "remove"
    /\ DirectoryEmpty
    /\ pc' = AfterRemoval[ctx]
    /\ idx' = 1
    /\ UNCHANGED <<cand, kind, ctx, sdVars, otaVars, floor, auxVars, faults>>

\* An I/O error in the middle of a rollback or of a removal: the install or the
\* boot of Recovery ends with the error, the kernel logs it and goes on.
CleanupFails ==
    /\ pc \in {"rollback", "remove"}
    /\ Fault
    /\ Goto(AfterFailure[ctx])
    /\ UNCHANGED <<sdVars, otaVars, floor, auxVars>>

-----------------------------------------------------------------------------
(* The kernel installed in ota_1.                                          *)

\* nvs_flash_init_safe erases the whole NVS partition when it is full or of a
\* newer format, the floor with it.
KernelInit ==
    /\ pc = "kernel"
    /\ floor' \in (IF NvsErases THEN {floor, 0} ELSE {floor})
    /\ Goto("soak")
    /\ UNCHANGED <<sdVars, otaVars, auxVars, faults>>

\* ota_mark_valid after the soak: once, and only for a pending image.
MarkValid ==
    /\ pc = "soak"
    /\ otaState' = (IF otaState = "pending" THEN "valid" ELSE otaState)
    /\ StartRemoval("confirm")
    /\ UNCHANGED <<slot, imageOk, selected, sdVars, floor, auxVars, faults>>

\* The confirmation fails: app_main returns, other tasks live on.
MarkValidFails ==
    /\ pc = "soak"
    /\ otaState = "pending"
    /\ Fault
    /\ Goto("running")
    /\ UNCHANGED <<sdVars, otaVars, floor, auxVars>>

-----------------------------------------------------------------------------
(* The environment.                                                        *)

\* A power loss, a watchdog reset, an unhealthy kernel, /api/reboot during an
\* install: the device restarts between two file-system operations.
Crash ==
    /\ pc # "reset"
    /\ Fault
    /\ Restart
    /\ UNCHANGED <<sdVars, otaVars, floor, auxVars>>

\* The user reboots an idle device.
Reboot ==
    /\ pc \in {"web", "running"}
    /\ Restart
    /\ UNCHANGED <<sdVars, otaVars, floor, auxVars, faults>>

\* The user power-cycles a Recovery that has returned from main.
PowerCycle ==
    /\ pc = "stopped"
    /\ Restart
    /\ UNCHANGED <<sdVars, otaVars, floor, auxVars, faults>>

\* A confirmed image stops passing the bootloader's check.
ImageFault ==
    /\ ImageFaults
    /\ pc = "reset"
    /\ otaState = "valid"
    /\ imageOk
    /\ Fault
    /\ imageOk' = FALSE
    /\ UNCHANGED <<slot, otaState, selected, sdVars, floor, runVars, auxVars>>

\* A service operator brings the device back to Recovery, when no transaction is
\* open: by clearing otadata, which forgets the state of ota_1 ...
ClearOtadata ==
    /\ pc = "reset"
    /\ ~journal
    /\ selected
    /\ selected' = FALSE
    /\ otaState' = "none"
    /\ UNCHANGED <<slot, imageOk, sdVars, floor, runVars, auxVars, faults>>

\* ... or by selecting ota_0, which keeps it.
SelectOta0 ==
    /\ pc = "reset"
    /\ ~journal
    /\ selected
    /\ otaState = "valid"
    /\ selected' = FALSE
    /\ UNCHANGED <<slot, imageOk, otaState, sdVars, floor, runVars, auxVars,
                   faults>>

-----------------------------------------------------------------------------
Recovery ==
    \/ RecoverInterruptedBundle \/ CheckOta1 \/ ApplySdFirmware \/ StartPortal
    \/ RemoveDestination \/ RestoreEntry \/ RemoveTransaction
    \/ RemoveEntry \/ RemovalDone

Install ==
    \/ StageFile \/ WriteJournal \/ BackupFile \/ ActivateFile
    \/ MarkFilesActive \/ BeginFirmware \/ EndFirmware \/ MarkFirmwareWritten
    \/ StoreFloor \/ SelectOta1

Kernel == KernelInit \/ MarkValid

\* What the device does of its own accord.
Device == BootFromOtadata \/ Recovery \/ Install \/ Kernel

Faults ==
    \/ RecoverInterruptedBundleFails \/ NvsUnavailable \/ PrepareFails
    \/ OperationFails \/ CleanupFails \/ MarkValidFails \/ Crash \/ ImageFault

Next ==
    \/ Device \/ BeginInstall \/ Faults
    \/ Reboot \/ PowerCycle \/ ClearOtadata \/ SelectOta0

\* The device keeps running, and a stopped one is power-cycled eventually.
Fairness == WF_vars(Device) /\ WF_vars(PowerCycle)

Spec == Init /\ [][Next]_vars /\ Fairness

-----------------------------------------------------------------------------
(* Properties.                                                             *)

\* Whenever no journal exists, the card holds one generation: every file is as
\* it was before the last transaction, or every file is that transaction's
\* (install, rollback and finalize of bundle_transaction.rs).
GenerationIsWhole == ~journal => dest = before \/ dest = Whole(gen)

\* The kernel never runs over a half-activated bundle: while the journal is
\* still there, all files are of the generation of the image that runs
\* (install selects ota_1 last; recover_interrupted_bundle runs first).
KernelRunsOnWholeBundle ==
    /\ pc \in {"kernel", "soak", "running"} \/ (pc = "remove" /\ ctx = "confirm")
    /\ journal
    => dest = Whole(slot)

\* No image is selected whose version is not above every version selected
\* before, across crashes, rollbacks and failed activations (anti_rollback.rs).
NeverReselectsOldImage ==
    [][pc = "select" /\ selected' /\ ~selected => slot > maxSelected]_vars

\* The security-version floor only rises (anti_rollback.rs: "Monotonic firmware
\* security-version policy"; main.rs: NVS must not be erased).
FloorMonotone == [][floor' >= floor]_vars

\* A bundle whose firmware was confirmed is never taken back: its files change
\* only when the next install begins to move them (ota.rs: "Recovery can also
\* finalize this journal on a later boot if SD cleanup fails").
ConfirmedBundleStays ==
    [][otaState = "valid" /\ dest = Whole(slot) => dest' = dest]_vars

\* Once faults have stopped, a boot that finds a journal ends up without it
\* (recover_interrupted_bundle, ota_finalize_bundle_transaction).
JournalIsResolved ==
    (pc = "reset" /\ journal /\ faults = MaxFaults) ~> ~journal

-----------------------------------------------------------------------------
(* Refinement: an install is one atomic step, the confirmation of the      *)
(* image, which switches the firmware and all the files together.          *)

Confirmed == otaState = "valid"

Atomic == INSTANCE AtomicGeneration WITH
    files <- IF journal /\ ~Confirmed THEN before ELSE dest,
    firmware <- IF Confirmed THEN slot ELSE Absent

ImplementsAtomicGeneration == Atomic!Spec
=============================================================================
