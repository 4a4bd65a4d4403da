------------------------ MODULE PackageInstallProofs ------------------------
(***************************************************************************)
(* Proofs about PackageInstall for any number of releases, files in a      *)
(* package, faults and restarts, on both file systems:                     *)
(*                                                                         *)
(*   TypeCorrect          the type invariant;                              *)
(*   ArtifactsStaySound   payload and signature of an artifact;            *)
(*   ReleasesAdvance      the active release of an app;                    *)
(* and, with state of their own, about the other places where the device   *)
(* fetches files:                                                          *)
(*   DownloadsAreWhole    the stream of the app store client;              *)
(*   ShopInstallsWhatItShows                                               *)
(*                        the screens of the app store;                    *)
(*   PortalTellsTheTruth  what the recovery portal shows and installs.     *)
(***************************************************************************)
EXTENDS PackageInstall, Integers, Sequences, FiniteSetTheorems, TLAPS

-----------------------------------------------------------------------------
(* The invariants                                                          *)

\* An installation of an app has a number left for its staging directory.
RoomInv ==
    /\ pc \in Unpacking => entry.kind = "app"
    /\ pc \in Downloading \cup {"archive", "manifest", "check", "stage"}
          /\ entry.kind = "app" => stageSeq < MaxStages

TypeInv == TypeOK /\ RoomInv

\* Nothing has been touched yet, or nothing will be.
QuietInv ==
    /\ pc \in {"idle", "back up payload"} \cup Downloading \cup Unpacking => backup = NoFiles
    /\ pc \in {"back up payload"} \cup Downloading \cup Unpacking => file = before

\* The payload is aside from the first rename to the last.
PayloadInv ==
    pc \in {"back up signature", "commit signature", "commit payload", "remove signature"} =>
        file["payload"] = None /\ backup["payload"] = before["payload"]

\* The steps on the signature, which are taken if there is a new one.
SignatureInv ==
    /\ pc \in {"back up signature", "commit signature", "remove signature"} => entry.signed
    /\ pc = "back up signature" =>
          file["signature"] = before["signature"] /\ backup["signature"] = None
    /\ pc = "commit signature" =>
          file["signature"] = None /\ backup["signature"] = before["signature"]
    /\ pc = "commit payload" \/ pc = "remove signature" =>
          IF entry.signed
          THEN file["signature"] = entry.version /\ backup["signature"] = before["signature"]
          ELSE file["signature"] = before["signature"] /\ backup["signature"] = None
    /\ pc = "tidy" => file["payload"] = live

\* A part that the replacement found is in its place or aside, not both.
InPlaceOrAside(p) ==
    \/ file[p] = None /\ backup[p] = before[p]
    \/ file[p] = before[p] /\ backup[p] = None

\* The undo goes from the signature to the payload.
UndoInv ==
    /\ pc \in {"restore signature", "restore payload"} => InPlaceOrAside("payload")
    /\ pc = "restore signature" => file["payload"] = None \/ backup["signature"] = None
    /\ pc = "restore signature" /\ excuse # "undo" => InPlaceOrAside("signature")
    /\ pc = "restore payload" => backup["signature"] = None
    /\ pc = "restore payload" /\ excuse # "undo" => file["signature"] = before["signature"]

\* What the undo goes back to is a pair, if it was one.
BeforeInv ==
    pc \in Downloading \cup Replacing \cup Undoing
        /\ before["payload"] # None /\ before["signature"] # None
        /\ before["payload"] # before["signature"] => excuse # "none"

ReplaceInv ==
    /\ QuietInv /\ PayloadInv /\ SignatureInv /\ UndoInv /\ BeforeInv
    /\ ArtifactsAreSound

\* A release is published as a whole, and is newer than the active one.
ReleaseInv ==
    /\ active # None => generation[active] = Entries
    /\ pc \in {"stage", "extract", "recheck", "publish"} =>
          generation[entry.version] = 0 /\ entry.version > active
    /\ pc \in {"recheck", "publish"} => extracted = Entries
    /\ pc = "point" => generation[entry.version] = Entries /\ entry.version > active

-----------------------------------------------------------------------------
(* Types                                                                   *)

LEMMA TypeInit == Init => TypeInv
BY BoundsAssumption
   DEF Init, TypeInv, TypeOK, RoomInv, NoFiles, Parts, Versions, Releases, None, CatalogEntries,
       Downloading, Unpacking

\* A catalog entry names a release, and a release is a positive number.
LEMMA EntryIsOfRelease ==
    ASSUME TypeOK
    PROVE  /\ entry.version \in Releases /\ entry.signed \in BOOLEAN
           /\ entry.kind \in {"app", "driver"}
           /\ None \notin Releases /\ Versions = Releases \cup {None}
           /\ \A r \in Releases : r \in Nat /\ r > None
BY BoundsAssumption DEF TypeOK, CatalogEntries, Releases, Versions, None

\* What is known of backups that are left behind.
LEMMA DebrisIsOfReleases ==
    ASSUME TypeOK
    PROVE  {<<p, backup[p]>> : p \in {q \in Parts : backup[q] # None}} \subseteq Parts \X Releases
BY EntryIsOfRelease DEF TypeOK

LEMMA FaultIsCounted ==
    ASSUME TypeOK, Fault
    PROVE  faults' \in 0 .. MaxFaults
BY BoundsAssumption DEF TypeOK, Fault

\* Every action of PackageInstall keeps the types and leaves room for a stage.
LEMMA TypeStep == TypeInv /\ [Next]_vars => TypeInv'
<1> SUFFICES ASSUME TypeInv, [Next]_vars PROVE TypeInv'
  OBVIOUS
<1>0. TypeOK
  BY DEF TypeInv
<1> USE <1>0
<1>1. CASE InstallEntry
  <2>1. /\ entry' \in CatalogEntries /\ entry'.kind = "driver"
        /\ UNCHANGED <<fs, file, backup, debris, generation, stages, active, extracted, stageSeq,
                       live, excuse, faults>>
        /\ before' = file
    BY <1>1 DEF InstallEntry, Begin, card, tap
  <2>2. pc' \in {"idle", "fetch"} /\ result' \in {"none", "refused"}
    BY <1>1 DEF InstallEntry
  <2>3. TypeOK'
    BY <2>1, <2>2 DEF TypeOK, Downloading
  <2>4. RoomInv'
    BY <1>1, <2>1, <2>2 DEF InstallEntry, RoomInv, Unpacking, Downloading
  <2> QED
    BY <2>3, <2>4 DEF TypeInv
<1>2. CASE InstallTapEntry
  <2>1. /\ entry' \in CatalogEntries /\ entry'.kind = "app"
        /\ UNCHANGED <<fs, file, backup, debris, generation, stages, active, extracted, stageSeq,
                       live, excuse, faults>>
        /\ before' = file
    BY <1>2 DEF InstallTapEntry, Begin, card, tap
  <2>2. pc' \in {"idle", "fetch"} /\ result' \in {"none", "refused"}
    BY <1>2 DEF InstallTapEntry
  <2>3. TypeOK'
    BY <2>1, <2>2 DEF TypeOK, Downloading
  <2>4. RoomInv'
    BY <1>2, <2>1, <2>2 DEF InstallTapEntry, RoomInv, Unpacking, Downloading
  <2> QED
    BY <2>3, <2>4 DEF TypeInv
<1>3. CASE Download
  <2>1. pc' \in {"idle", "fetch signature", "back up payload", "verify"} /\ result' \in {result, "refused"} /\ entry' = entry
    BY <1>3 DEF Download, Goto, Return
  <2>2. UNCHANGED <<fs, card, tap, history, faults>>
    BY <1>3 DEF Download
  <2>3. TypeOK'
    BY <2>1, <2>2 DEF TypeOK, card, tap, history, Downloading, Replacing, Unpacking
  <2>4. stageSeq' = stageSeq
    BY <2>2 DEF tap
  <2>5. RoomInv'
    BY <1>3, <2>1, <2>4 DEF Download, Goto, Return, TypeInv, RoomInv, Downloading, Unpacking
  <2> QED
    BY <2>3, <2>5 DEF TypeInv
<1>4. CASE VerifyDownload
  <2>1. pc' \in {"idle", "archive", "back up payload"} /\ result' \in {result, "refused"} /\ entry' = entry
    BY <1>4 DEF VerifyDownload, Goto, Return
  <2>2. UNCHANGED <<fs, card, tap, history, faults>>
    BY <1>4 DEF VerifyDownload
  <2>3. TypeOK'
    BY <2>1, <2>2 DEF TypeOK, card, tap, history, Downloading, Replacing, Unpacking
  <2>4. stageSeq' = stageSeq
    BY <2>2 DEF tap
  <2>5. RoomInv'
    BY <1>4, <2>1, <2>4 DEF VerifyDownload, Goto, Return, TypeInv, RoomInv, Downloading, Unpacking
  <2> QED
    BY <2>3, <2>5 DEF TypeInv
<1>5. CASE BackUp
  <2> DEFINE p == PartOf(pc)
  <2>1. p \in Parts
    BY DEF PartOf, Parts
  <2>2. file' \in [Parts -> Versions] /\ backup' \in [Parts -> Versions]
    BY <1>5, <2>1, EntryIsOfRelease DEF BackUp, TypeInv, TypeOK
  <2>3. pc' \in Replacing /\ pc' \notin Downloading \cup Unpacking
    BY <1>5 DEF BackUp, AfterBackup, Goto, Replacing, Downloading, Unpacking
  <2>4. QED
    BY <1>5, <2>2, <2>3 DEF BackUp, Goto, TypeInv, TypeOK, RoomInv, tap, history, Unpacking
<1>6. CASE CommitSignature
  <2>1. file' \in [Parts -> Versions]
    BY <1>6, EntryIsOfRelease DEF CommitSignature, TypeOK
  <2>2. pc' = "commit payload" /\ UNCHANGED <<entry, result>>
    BY <1>6 DEF CommitSignature, Goto
  <2>3. UNCHANGED <<fs, backup, debris, tap, history, faults>>
    BY <1>6 DEF CommitSignature
  <2>4. TypeOK'
    BY <2>1, <2>2, <2>3 DEF TypeOK, tap, history, Replacing
  <2> QED
    BY <2>2, <2>4 DEF TypeInv, RoomInv, Downloading, Unpacking
<1>7. CASE CommitPayload
  <2>1. file' \in [Parts -> Versions] /\ live' \in Versions
    BY <1>7, EntryIsOfRelease DEF CommitPayload, TypeOK
  <2>2. pc' = "tidy" /\ UNCHANGED <<entry, result>>
    BY <1>7 DEF CommitPayload, Goto
  <2>3. excuse' \in {"none", "unsigned"} /\ UNCHANGED <<fs, backup, debris, tap, before, faults>>
    BY <1>7 DEF CommitPayload
  <2>4. TypeOK'
    BY <2>1, <2>2, <2>3 DEF TypeOK, tap
  <2> QED
    BY <2>2, <2>4 DEF TypeInv, RoomInv, Downloading, Unpacking
<1>8. CASE RemoveBackups
  <2>1. faults' \in 0 .. MaxFaults
    BY <1>8, FaultIsCounted DEF RemoveBackups, TypeOK
  <2>2. debris' \subseteq Parts \X Releases
    BY <1>8, DebrisIsOfReleases DEF RemoveBackups, TypeOK
  <2>3. backup' \in [Parts -> Versions]
    BY <1>8 DEF RemoveBackups, NoFiles, Versions
  <2>4. QED
    BY <1>8, <2>1, <2>2, <2>3
    DEF RemoveBackups, Return, TypeInv, TypeOK, RoomInv, tap, history, Downloading, Unpacking
<1>9. CASE ReplaceFails
  <2>1. pc' \in Undoing /\ pc' \notin Downloading \cup Unpacking
    BY <1>9 DEF ReplaceFails, Goto, Undoing, Downloading, Unpacking
  <2>2. faults' \in 0 .. MaxFaults
    BY <1>9, FaultIsCounted DEF ReplaceFails, TypeInv
  <2>3. QED
    BY <1>9, <2>1, <2>2
    DEF ReplaceFails, Goto, TypeInv, TypeOK, RoomInv, card, tap, history, Unpacking
<1>10. CASE RemoveSignature
  <2>1. pc' \in Undoing /\ pc' \notin Downloading \cup Unpacking
    BY <1>10 DEF RemoveSignature, Goto, Undoing, Downloading, Unpacking
  <2>2. faults' \in 0 .. MaxFaults /\ excuse' \in {"none", "unsigned", "undo"}
    BY <1>10, FaultIsCounted DEF RemoveSignature, TypeInv, TypeOK
  <2>3. file' \in [Parts -> Versions]
    BY <1>10, EntryIsOfRelease DEF RemoveSignature, TypeInv, TypeOK
  <2>4. QED
    BY <1>10, <2>1, <2>2, <2>3
    DEF RemoveSignature, Goto, TypeInv, TypeOK, RoomInv, tap, Unpacking
<1>11. CASE Restore
  <2> DEFINE p == PartOf(pc)
  <2>1. p \in Parts
    BY DEF PartOf, Parts
  <2>2. file' \in [Parts -> Versions] /\ backup' \in [Parts -> Versions]
    BY <1>11, <2>1, EntryIsOfRelease DEF Restore, TypeInv, TypeOK, card
  <2>3. debris' \subseteq Parts \X Releases
    <3>1. backup[p] # None => <<p, backup[p]>> \in Parts \X Releases
      BY <2>1, EntryIsOfRelease DEF TypeOK
    <3>2. \A e \in debris' : e \in debris \/ (e = <<p, backup[p]>> /\ backup[p] # None)
      BY <1>11 DEF Restore, Restores, card
    <3>3. QED
      BY <3>1, <3>2 DEF TypeOK
  <2>4. pc' \in {"restore payload", "idle"} /\ result' \in {result, "io"}
    BY <1>11 DEF Restore, Goto, Return
  <2>5. faults' \in 0 .. MaxFaults /\ excuse' \in {"none", "unsigned", "undo"}
    BY <1>11, FaultIsCounted DEF Restore, TypeInv, TypeOK
  <2>6. entry' = entry
    BY <1>11 DEF Restore, Goto, Return
  <2>7. UNCHANGED <<fs, tap, before, live>>
    BY <1>11 DEF Restore
  <2>8. TypeOK'
    BY <2>2, <2>3, <2>4, <2>5, <2>6, <2>7 DEF TypeInv, TypeOK, tap, Undoing
  <2>9. QED
    BY <2>4, <2>8 DEF TypeInv, RoomInv, Downloading, Unpacking
<1>12. CASE ReadArchive
  <2>1. pc' \in {"idle", "manifest"} /\ result' \in {result, "refused"} /\ entry' = entry
    BY <1>12 DEF ReadArchive, Goto, Return
  <2>2. UNCHANGED <<fs, card, tap, history, faults>>
    BY <1>12 DEF ReadArchive
  <2>3. TypeOK'
    BY <2>1, <2>2 DEF TypeOK, card, tap, history, Downloading, Replacing, Unpacking
  <2>4. stageSeq' = stageSeq
    BY <2>2 DEF tap
  <2>5. RoomInv'
    BY <1>12, <2>1, <2>4 DEF ReadArchive, Goto, Return, TypeInv, RoomInv, Downloading, Unpacking
  <2> QED
    BY <2>3, <2>5 DEF TypeInv
<1>13. CASE ValidateManifest
  <2>1. pc' \in {"idle", "check"} /\ result' \in {result, "refused"} /\ entry' = entry
    BY <1>13 DEF ValidateManifest, Goto, Return
  <2>2. UNCHANGED <<fs, card, tap, history, faults>>
    BY <1>13 DEF ValidateManifest
  <2>3. TypeOK'
    BY <2>1, <2>2 DEF TypeOK, card, tap, history, Downloading, Replacing, Unpacking
  <2>4. stageSeq' = stageSeq
    BY <2>2 DEF tap
  <2>5. RoomInv'
    BY <1>13, <2>1, <2>4 DEF ValidateManifest, Goto, Return, TypeInv, RoomInv, Downloading, Unpacking
  <2> QED
    BY <2>3, <2>5 DEF TypeInv
<1>14. CASE CheckRelease
  <2>1. pc' \in {"idle", "stage"} /\ result' \in {result, "exists", "refused"} /\ entry' = entry
    BY <1>14 DEF CheckRelease, Goto, Return
  <2>2. UNCHANGED <<fs, card, tap, history, faults>>
    BY <1>14 DEF CheckRelease
  <2>3. TypeOK'
    BY <2>1, <2>2 DEF TypeOK, card, tap, history, Downloading, Replacing, Unpacking
  <2>4. stageSeq' = stageSeq
    BY <2>2 DEF tap
  <2>5. RoomInv'
    BY <1>14, <2>1, <2>4 DEF CheckRelease, Goto, Return, TypeInv, RoomInv, Downloading, Unpacking
  <2> QED
    BY <2>3, <2>5 DEF TypeInv
<1>15. CASE MakeStage
  <2>1. stageSeq < MaxStages
    BY <1>15 DEF MakeStage, TypeInv, RoomInv, Unpacking
  <2>2. <<entry.version, stageSeq>> \in Releases \X (0 .. MaxStages) /\ stageSeq' \in 0 .. MaxStages
    BY <1>15, <2>1, BoundsAssumption, EntryIsOfRelease DEF MakeStage, TypeInv, TypeOK
  <2>3. stages' \subseteq Releases \X (0 .. MaxStages) /\ extracted' \in 0 .. Entries
    BY <1>15, <2>2, BoundsAssumption DEF MakeStage, TypeInv, TypeOK
  <2>4. pc' \in {"extract", "idle"} /\ result' \in {result, "io"} /\ entry' = entry
    BY <1>15 DEF MakeStage, Goto, Return
  <2>5. UNCHANGED <<fs, card, generation, active, history, faults>>
    BY <1>15 DEF MakeStage
  <2>6. entry.kind = "app"
    BY <1>15 DEF MakeStage, TypeInv, RoomInv, Unpacking
  <2>7. TypeOK'
    BY <2>2, <2>3, <2>4, <2>5 DEF TypeInv, TypeOK, card, history, Unpacking
  <2>8. QED
    BY <2>4, <2>6, <2>7 DEF TypeInv, RoomInv, Downloading
<1>16. CASE Extract
  <2>1. extracted' \in 0 .. Entries
    BY <1>16, BoundsAssumption DEF Extract, TypeInv, TypeOK
  <2>2. pc' \in {"extract", "recheck", "discard"} /\ result' \in {result, "refused"} /\ entry' = entry
    BY <1>16 DEF Extract, Goto, Abandon
  <2>3. UNCHANGED <<fs, card, generation, stages, active, stageSeq, history, faults>>
    BY <1>16 DEF Extract
  <2>4. entry.kind = "app"
    BY <1>16 DEF Extract, TypeInv, RoomInv, Unpacking
  <2>5. TypeOK'
    BY <2>1, <2>2, <2>3 DEF TypeInv, TypeOK, card, history, Unpacking
  <2>6. QED
    BY <2>2, <2>4, <2>5 DEF TypeInv, RoomInv, Downloading
<1>17. CASE Recheck
  BY <1>17, BoundsAssumption
  DEF Recheck, Goto, Abandon, TypeInv, TypeOK, RoomInv, Parts, NoFiles, Versions, Releases, None,
      CatalogEntries, Downloading, Replacing, Undoing, Unpacking, card, tap, history
<1>18. CASE Publish
  BY <1>18, BoundsAssumption
  DEF Publish, Stage, Goto, TypeInv, TypeOK, RoomInv, Parts, NoFiles, Versions, Releases, None,
      CatalogEntries, Downloading, Replacing, Undoing, Unpacking, card, tap, history
<1>19. CASE Point
  BY <1>19, BoundsAssumption
  DEF Point, Return, Abandon, TypeInv, TypeOK, RoomInv, Parts, NoFiles, Versions, Releases, None,
      CatalogEntries, Downloading, Replacing, Undoing, Unpacking, card, tap, history
<1>20. CASE UnpackFails
  <2>1. faults' \in 0 .. MaxFaults
    BY <1>20, FaultIsCounted DEF UnpackFails, TypeInv
  <2>2. pc' \in {"idle", "discard"} /\ result' = "io" /\ entry' = entry
    BY <1>20 DEF UnpackFails, Return, Abandon
  <2>3. UNCHANGED <<fs, card, tap, history>>
    BY <1>20 DEF UnpackFails
  <2>4. entry.kind = "app"
    BY <1>20 DEF UnpackFails, TypeInv, RoomInv
  <2>5. TypeOK'
    BY <2>1, <2>2, <2>3 DEF TypeInv, TypeOK, card, tap, history, Unpacking
  <2>6. QED
    BY <2>2, <2>4, <2>5 DEF TypeInv, RoomInv, Downloading
<1>21. CASE Discard
  BY <1>21, BoundsAssumption
  DEF Discard, Stage, Fault, TypeInv, TypeOK, RoomInv, Parts, NoFiles, Versions, Releases, None,
      CatalogEntries, Downloading, Replacing, Undoing, Unpacking, card, tap, history
<1>22. CASE Crash
  <2>1. faults' \in 0 .. MaxFaults
    BY <1>22, FaultIsCounted DEF Crash, TypeInv
  <2>2. debris' \subseteq Parts \X Releases
    BY <1>22, DebrisIsOfReleases DEF Crash, TypeInv, TypeOK
  <2>3. stageSeq' \in 0 .. MaxStages /\ extracted' \in 0 .. Entries
    BY <1>22, BoundsAssumption DEF Crash
  <2>4. backup' \in [Parts -> Versions]
    BY <1>22 DEF Crash, NoFiles, Versions
  <2>5. QED
    BY <1>22, <2>1, <2>2, <2>3, <2>4
    DEF Crash, TypeInv, TypeOK, RoomInv, history, Downloading, Unpacking
<1>23. CASE Restart
  BY <1>23, BoundsAssumption
  DEF Restart, TypeInv, TypeOK, RoomInv, Parts, NoFiles, Versions, Releases, None,
      CatalogEntries, Downloading, Replacing, Undoing, Unpacking, card, tap, history
<1>24. CASE UNCHANGED vars
  BY <1>24 DEF TypeInv, TypeOK, RoomInv, vars, card, tap, history
<1>25. QED
  BY <1>1, <1>2, <1>3, <1>4, <1>5, <1>6, <1>7, <1>8, <1>9, <1>10, <1>11, <1>12, <1>13, <1>14, <1>15, <1>16, <1>17, <1>18, <1>19, <1>20, <1>21, <1>22, <1>23, <1>24 DEF Next, Replace, Unpack

\* PackageInstall never leaves the states it is written for: numbers of stages stay below
\* their bound, and a backup is of a version there was (TypeOK).
THEOREM TypeCorrect == Spec => []TypeOK
<1>1. Spec => []TypeInv
  BY TypeInit, TypeStep, PTL DEF Spec
<1>2. TypeInv => TypeOK
  BY DEF TypeInv
<1>3. QED
  BY <1>1, <1>2, PTL

-----------------------------------------------------------------------------
(* The active release                                                      *)

LEMMA ReleaseInit == Init => ReleaseInv
BY DEF Init, ReleaseInv

\* CheckRelease lets a release pass that is not on the card and not older than the active
\* one; the active one is on the card, so the release is newer.  Until Point nothing but
\* Publish changes what that rests on.
LEMMA ReleaseStep == TypeInv /\ ReleaseInv /\ [Next]_vars => ReleaseInv'
<1> SUFFICES ASSUME TypeInv, ReleaseInv, [Next]_vars PROVE ReleaseInv'
  OBVIOUS
<1>0. TypeOK
  BY DEF TypeInv
<1> DEFINE Before == {"stage", "extract", "recheck", "publish", "point"}
<1>1. ASSUME pc' \notin Before, UNCHANGED <<generation, active>> PROVE ReleaseInv'
  BY <1>1 DEF ReleaseInv
<1>2. CASE InstallEntry \/ InstallTapEntry
  BY <1>1, <1>2 DEF InstallEntry, InstallTapEntry, Begin, tap
<1>3. CASE Download \/ VerifyDownload
  BY <1>1, <1>3 DEF Download, VerifyDownload, Goto, Return, tap
<1>4. CASE Replace
  <2>1. pc' \notin Before
    BY <1>4 DEF Replace, BackUp, AfterBackup, CommitSignature, CommitPayload, RemoveBackups,
                ReplaceFails, RemoveSignature, Restore, Goto, Return
  <2>2. UNCHANGED <<generation, active>>
    BY <1>4 DEF Replace, BackUp, CommitSignature, CommitPayload, RemoveBackups, ReplaceFails,
                RemoveSignature, Restore, tap
  <2>3. QED
    BY <1>1, <2>1, <2>2
<1>5. CASE ReadArchive \/ ValidateManifest
  BY <1>1, <1>5 DEF ReadArchive, ValidateManifest, Goto, Return, tap
<1>6. CASE CheckRelease
  <2>1. CASE pc' = "stage"
    <3>1. generation[entry.version] = 0 /\ entry.version >= active
      BY <1>6, <2>1 DEF CheckRelease, Goto, Return
    <3>2. entry.version # active
      BY <3>1, <1>0, BoundsAssumption, EntryIsOfRelease DEF ReleaseInv
    <3>3. entry.version > active
      BY <3>1, <3>2, <1>0, EntryIsOfRelease DEF TypeOK, Releases, Versions, None
    <3>4. UNCHANGED <<entry, generation, active>>
      BY <1>6 DEF CheckRelease, Goto, Return, tap
    <3>5. QED
      BY <2>1, <3>1, <3>3, <3>4 DEF ReleaseInv
  <2>2. CASE pc' # "stage"
    BY <1>1, <1>6, <2>2 DEF CheckRelease, Goto, Return, tap
  <2>3. QED
    BY <2>1, <2>2
<1>7. CASE MakeStage
  BY <1>7 DEF MakeStage, Goto, Return, ReleaseInv
<1>8. CASE Extract
  BY <1>8 DEF Extract, Goto, Abandon, ReleaseInv
<1>9. CASE Recheck
  BY <1>9 DEF Recheck, Goto, Abandon, ReleaseInv, tap
<1>10. CASE Publish
  <2>1. entry.version \in Releases /\ entry.version > active
    BY <1>0, <1>10, EntryIsOfRelease DEF Publish, ReleaseInv
  <2>2. extracted = Entries /\ generation' = [generation EXCEPT ![entry.version] = Entries]
    BY <1>10 DEF Publish, ReleaseInv
  <2>3. generation'[entry.version] = Entries
    BY <2>1, <2>2, <1>0 DEF TypeOK
  <2>4. active # None => generation'[active] = Entries
    BY <2>1, <2>2, <1>0, EntryIsOfRelease DEF TypeOK, ReleaseInv
  <2>5. UNCHANGED <<active, entry>> /\ pc' = "point"
    BY <1>10 DEF Publish, Goto
  <2>6. QED
    BY <2>1, <2>3, <2>4, <2>5 DEF ReleaseInv
<1>11. CASE Point
  BY <1>11 DEF Point, Return, Abandon, ReleaseInv
<1>12. CASE UnpackFails
  BY <1>1, <1>12 DEF UnpackFails, Return, Abandon, tap
<1>13. CASE Discard
  BY <1>1, <1>13 DEF Discard
<1>14. CASE Crash
  BY <1>1, <1>14 DEF Crash
<1>15. CASE Restart
  BY <1>1, <1>15 DEF Restart
<1>16. CASE UNCHANGED vars
  BY <1>16 DEF ReleaseInv, vars, tap
<1>17. QED
  BY <1>2, <1>3, <1>4, <1>5, <1>6, <1>7, <1>8, <1>9, <1>10, <1>11, <1>12, <1>13, <1>14,
     <1>15, <1>16
  DEF Next, Unpack

LEMMA PointAdvances ==
    TypeInv /\ ReleaseInv /\ [Next]_vars =>
        (active' # active => active' > active /\ generation'[active'] = Entries)
<1> SUFFICES ASSUME TypeInv, ReleaseInv, [Next]_vars, active' # active
             PROVE  active' > active /\ generation'[active'] = Entries
  OBVIOUS
<1>1. Point
  BY DEF Next, Replace, Unpack, InstallEntry, InstallTapEntry, Begin, Download, VerifyDownload,
         BackUp, CommitSignature, CommitPayload, RemoveBackups, ReplaceFails, RemoveSignature,
         Restore, ReadArchive, ValidateManifest, CheckRelease, MakeStage, Extract, Recheck,
         Publish, UnpackFails, Discard, Crash, Restart, vars, tap
<1>2. active' = entry.version /\ generation' = generation
  BY <1>1 DEF Point
<1>3. QED
  BY <1>1, <1>2 DEF Point, ReleaseInv

\* The active release only advances, to one that is on the card as a whole, for any number of
\* releases and restarts (install_tap_with).
THEOREM ReleasesAdvance == Spec => ActiveAdvances
<1>1. Spec => []TypeInv
  BY TypeInit, TypeStep, PTL DEF Spec
<1>2. Spec => []ReleaseInv
  BY <1>1, ReleaseInit, ReleaseStep, PTL DEF Spec
<1>3. TypeInv /\ ReleaseInv /\ [Next]_vars =>
        [active' # active => active' > active /\ generation'[active'] = Entries]_vars
  BY PointAdvances
<1>4. QED
  BY <1>1, <1>2, <1>3, PTL DEF Spec, ActiveAdvances

-----------------------------------------------------------------------------
(* Payload and signature                                                   *)

LEMMA ReplaceInit == Init => ReplaceInv
BY DEF Init, ReplaceInv, QuietInv, PayloadInv, SignatureInv, UndoInv, InPlaceOrAside, BeforeInv,
       ArtifactsAreSound, PairMatches, FailedInstallRestores, ArtifactSurvives,
       Parts, NoFiles, None, Downloading, Replacing, Undoing, Unpacking, card, tap, history

\* ReplaceInv is about these variables only.
LEMMA ReplaceStutter == ReplaceInv /\ UNCHANGED <<file, backup, debris, before, live, excuse, pc, entry, result>>
                        => ReplaceInv'
<1> SUFFICES ASSUME ReplaceInv, UNCHANGED <<file, backup, debris, before, live, excuse, pc, entry, result>>
             PROVE  ReplaceInv'
  OBVIOUS
<1> USE DEF ReplaceInv
<1>1. QuietInv'
  BY DEF QuietInv
<1>2. PayloadInv'
  BY DEF PayloadInv
<1>3. SignatureInv'
  BY DEF SignatureInv
<1>4. UndoInv'
  BY DEF UndoInv, InPlaceOrAside
<1>5. BeforeInv'
  BY DEF BeforeInv
<1>6. ArtifactsAreSound'
  BY DEF ArtifactsAreSound, PairMatches, FailedInstallRestores, ArtifactSurvives
<1> QED
  BY <1>1, <1>2, <1>3, <1>4, <1>5, <1>6

\* A step of a download or of unpacking touches neither the artifact nor what is known of it.
LEMMA NothingTouched ==
    ASSUME ReplaceInv, pc \in Downloading \cup Unpacking,
           UNCHANGED <<file, backup, debris, before, live, excuse>>,
           pc' \in {"idle", "back up payload"} \cup Downloading \cup Unpacking
    PROVE  ReplaceInv'
<1>1. file' = before' /\ backup' = NoFiles /\ file = before
  BY DEF ReplaceInv, QuietInv
<1>2. QuietInv'
  BY <1>1 DEF QuietInv
<1>3. PayloadInv' /\ UndoInv'
  BY DEF PayloadInv, UndoInv, Downloading, Unpacking
<1>4. SignatureInv'
  <2>1. pc' # "back up signature" /\ pc' # "commit signature" /\ pc' # "remove signature"
        /\ pc' # "commit payload" /\ pc' # "tidy"
    BY DEF Downloading, Unpacking
  <2> QED
    BY <2>1 DEF SignatureInv
<1>5. PairMatches
  BY DEF ReplaceInv, ArtifactsAreSound
<1>6. PairMatches' /\ BeforeInv'
  BY <1>1, <1>5 DEF PairMatches, BeforeInv
<1>7. FailedInstallRestores'
  BY <1>1 DEF FailedInstallRestores
<1>8. ArtifactSurvives'
  BY DEF ReplaceInv, ArtifactsAreSound, ArtifactSurvives
<1> QED
  BY <1>2, <1>3, <1>4, <1>6, <1>7, <1>8 DEF ReplaceInv, ArtifactsAreSound

\* A part is renamed back, or is left where it is and the undo has failed; the artifact is in
\* one of the two places, or under the name of a backup, whatever happens (the renames
\* that undo a replacement may fail, and their results are dropped).
LEMMA RestoreStep == TypeInv /\ ReplaceInv /\ Restore => ReplaceInv'
<1> SUFFICES ASSUME TypeInv, ReplaceInv, Restore PROVE ReplaceInv'
  OBVIOUS
<1>0. file \in [Parts -> Versions] /\ backup \in [Parts -> Versions] /\ before \in [Parts -> Versions]
  BY DEF TypeInv, TypeOK
<1>1. UNCHANGED <<before, live, entry>>
  BY DEF Restore, Goto, Return
<1>2. ASSUME NEW q \in Parts, q # PartOf(pc)
      PROVE  file'[q] = file[q] /\ backup'[q] = backup[q]
  BY <1>0, <1>2 DEF Restore, card
<1> DEFINE p == PartOf(pc)
<1>3. p \in Parts
  BY DEF PartOf, Parts
<1>4. /\ backup'[p] = None
      /\ \/ file'[p] = backup[p] /\ backup[p] # None /\ debris' = debris /\ excuse' = excuse
         \/ /\ file'[p] = file[p] /\ backup[p] # None /\ excuse' = "undo"
            /\ debris' = debris \cup {<<p, backup[p]>>}
         \/ file'[p] = file[p] /\ backup[p] = None /\ debris' = debris /\ excuse' = excuse
  BY <1>0, <1>3 DEF Restore, Restores, card
<1>5. excuse' \in {excuse, "undo"}
  BY <1>4
<1>6. ArtifactSurvives'
  <2>1. CASE p = "payload"
    <3>1. InPlaceOrAside("payload")
      BY <2>1 DEF PartOf, Restore, ReplaceInv, UndoInv
    <3>2. backup["payload"] # None => file["payload"] = None
      BY <3>1, EntryIsOfRelease DEF InPlaceOrAside
    <3>3. live # None => \/ live = file["payload"] /\ backup["payload"] = None
                        \/ live = backup["payload"]
                        \/ <<"payload", live>> \in debris
      BY <3>2 DEF ReplaceInv, ArtifactsAreSound, ArtifactSurvives
    <3>4. QED
      BY <1>1, <1>4, <2>1, <3>3 DEF ArtifactSurvives
  <2>2. CASE p # "payload"
    <3>1. file'["payload"] = file["payload"] /\ backup'["payload"] = backup["payload"]
      BY <1>2, <2>2 DEF Parts
    <3>2. \A e \in debris : e \in debris'
      BY <1>4
    <3>3. QED
      BY <1>1, <3>1, <3>2 DEF ReplaceInv, ArtifactsAreSound, ArtifactSurvives
  <2>3. QED
    BY <2>1, <2>2
<1>7. CASE pc = "restore signature"
  <2>1. p = "signature" /\ pc' = "restore payload" /\ result' = result
    BY <1>7 DEF PartOf, Restore, Goto
  <2>2. file'["payload"] = file["payload"] /\ backup'["payload"] = backup["payload"]
    BY <1>2, <2>1 DEF Parts
  <2>3. UndoInv'
    BY <1>1, <1>4, <1>7, <2>1, <2>2 DEF ReplaceInv, UndoInv, InPlaceOrAside
  <2>4. PairMatches'
    BY <1>4, <1>5, <1>7, <2>1, <2>2 DEF ReplaceInv, UndoInv, ArtifactsAreSound, PairMatches, None
  <2>5. BeforeInv'
    BY <1>1, <1>5, <1>7, <2>1 DEF ReplaceInv, BeforeInv, Undoing
  <2>6. QED
    BY <1>6, <2>1, <2>3, <2>4, <2>5
    DEF ReplaceInv, QuietInv, PayloadInv, SignatureInv, ArtifactsAreSound, FailedInstallRestores,
        Downloading, Unpacking
<1>8. CASE pc = "restore payload"
  <2>1. p = "payload" /\ pc' = "idle" /\ result' = "io"
    BY <1>8 DEF PartOf, Restore, Return
  <2>2. file'["signature"] = file["signature"] /\ backup'["signature"] = backup["signature"]
    BY <1>2, <2>1 DEF Parts
  <2>3. backup'["signature"] = None /\ backup'["payload"] = None
    BY <1>4, <1>8, <2>1, <2>2 DEF ReplaceInv, UndoInv
  <2>4. backup' = NoFiles
    <3>1. backup' \in [Parts -> Versions]
      BY TypeStep, <1>0, EntryIsOfRelease DEF Next, Replace, TypeInv, TypeOK
    <3>2. QED
      BY <2>3, <3>1 DEF Parts, NoFiles
  <2>5. excuse' # "undo" => file'["payload"] = before["payload"] /\ file'["signature"] = before["signature"]
    BY <1>4, <1>8, <2>1, <2>2 DEF ReplaceInv, UndoInv, InPlaceOrAside
  <2>6. excuse' # "undo" => file' = before
    <3>1. file' \in [Parts -> Versions]
      BY TypeStep DEF Next, Replace, TypeInv, TypeOK
    <3>2. QED
      BY <1>0, <2>5, <3>1 DEF Parts
  <2>7. PairMatches'
    BY <1>5, <1>8, <2>5, <1>4, <2>1, <2>2 DEF ReplaceInv, BeforeInv, ArtifactsAreSound, PairMatches, Undoing
  <2>8. QED
    BY <1>1, <1>6, <2>1, <2>4, <2>6, <2>7
    DEF ReplaceInv, QuietInv, PayloadInv, SignatureInv, UndoInv, BeforeInv, ArtifactsAreSound,
        FailedInstallRestores, Downloading, Replacing, Undoing, Unpacking
<1>9. QED
  BY <1>7, <1>8 DEF Restore

LEMMA ReplaceStep == TypeInv /\ ReplaceInv /\ [Next]_vars => ReplaceInv'
<1> SUFFICES ASSUME TypeInv, ReplaceInv, [Next]_vars PROVE ReplaceInv'
  OBVIOUS
<1>0. file \in [Parts -> Versions] /\ backup \in [Parts -> Versions] /\ before \in [Parts -> Versions]
  BY DEF TypeInv, TypeOK
<1>e. entry.version # None
  BY EntryIsOfRelease DEF TypeInv
<1>1. CASE InstallEntry
  <2>1. QuietInv'
    BY <1>0, <1>1
    DEF InstallEntry, Begin, card, ReplaceInv, QuietInv, NoFiles, Parts, Downloading, Replacing, Undoing, Unpacking, None
  <2>2. PayloadInv'
    BY <1>0, <1>1
    DEF InstallEntry, Begin, card, ReplaceInv, PayloadInv, QuietInv, NoFiles, Parts, None, Downloading, Unpacking
  <2>3. SignatureInv'
    BY <1>0, <1>1
    DEF InstallEntry, Begin, card, ReplaceInv, SignatureInv, QuietInv, NoFiles, Parts, None, Downloading, Unpacking
  <2>4. UndoInv'
    BY <1>0, <1>1
    DEF InstallEntry, Begin, card, ReplaceInv, UndoInv, InPlaceOrAside, QuietInv, PayloadInv, SignatureInv, NoFiles, Parts, None, Replacing
  <2>5. BeforeInv'
    BY <1>0, <1>1
    DEF InstallEntry, Begin, card, ReplaceInv, BeforeInv, Downloading, Replacing, Undoing, PairMatches, ArtifactsAreSound
  <2>6. PairMatches'
    BY <1>0, <1>1
    DEF InstallEntry, Begin, card, ReplaceInv, PairMatches, ArtifactsAreSound, Parts, None
  <2>7. FailedInstallRestores'
    BY <1>0, <1>1
    DEF InstallEntry, Begin, card, ReplaceInv, FailedInstallRestores, ArtifactsAreSound
  <2>8. ArtifactSurvives'
    BY <1>0, <1>1
    DEF InstallEntry, Begin, card, ReplaceInv, ArtifactSurvives, ArtifactsAreSound, QuietInv, PayloadInv, SignatureInv, NoFiles, Parts, None
  <2> QED
    BY <2>1, <2>2, <2>3, <2>4, <2>5, <2>6, <2>7, <2>8 DEF ReplaceInv, ArtifactsAreSound
<1>2. CASE InstallTapEntry
  <2>1. QuietInv'
    BY <1>0, <1>2
    DEF InstallTapEntry, Begin, card, ReplaceInv, QuietInv, NoFiles, Parts, Downloading, Replacing, Undoing, Unpacking, None
  <2>2. PayloadInv'
    BY <1>0, <1>2
    DEF InstallTapEntry, Begin, card, ReplaceInv, PayloadInv, QuietInv, NoFiles, Parts, None, Downloading, Unpacking
  <2>3. SignatureInv'
    BY <1>0, <1>2
    DEF InstallTapEntry, Begin, card, ReplaceInv, SignatureInv, QuietInv, NoFiles, Parts, None, Downloading, Unpacking
  <2>4. UndoInv'
    BY <1>0, <1>2
    DEF InstallTapEntry, Begin, card, ReplaceInv, UndoInv, InPlaceOrAside, QuietInv, PayloadInv, SignatureInv, NoFiles, Parts, None, Replacing
  <2>5. BeforeInv'
    BY <1>0, <1>2
    DEF InstallTapEntry, Begin, card, ReplaceInv, BeforeInv, Downloading, Replacing, Undoing, PairMatches, ArtifactsAreSound
  <2>6. PairMatches'
    BY <1>0, <1>2
    DEF InstallTapEntry, Begin, card, ReplaceInv, PairMatches, ArtifactsAreSound, Parts, None
  <2>7. FailedInstallRestores'
    BY <1>0, <1>2
    DEF InstallTapEntry, Begin, card, ReplaceInv, FailedInstallRestores, ArtifactsAreSound
  <2>8. ArtifactSurvives'
    BY <1>0, <1>2
    DEF InstallTapEntry, Begin, card, ReplaceInv, ArtifactSurvives, ArtifactsAreSound
  <2> QED
    BY <2>1, <2>2, <2>3, <2>4, <2>5, <2>6, <2>7, <2>8 DEF ReplaceInv, ArtifactsAreSound
<1>3. CASE Download
  <2>1. pc \in Downloading \cup Unpacking /\ pc' \in {"idle", "back up payload"} \cup Downloading \cup Unpacking
    BY <1>3 DEF Download, Goto, Return, Downloading, Unpacking
  <2>2. UNCHANGED <<file, backup, debris, before, live, excuse>>
    BY <1>3 DEF Download, Goto, Return, card, history
  <2> QED
    BY <2>1, <2>2, NothingTouched
<1>4. CASE VerifyDownload
  <2>1. pc \in Downloading \cup Unpacking /\ pc' \in {"idle", "back up payload"} \cup Downloading \cup Unpacking
    BY <1>4 DEF VerifyDownload, Goto, Return, Downloading, Unpacking
  <2>2. UNCHANGED <<file, backup, debris, before, live, excuse>>
    BY <1>4 DEF VerifyDownload, Goto, Return, card, history
  <2> QED
    BY <2>1, <2>2, NothingTouched
<1>5. CASE BackUp
  <2>1. QuietInv'
    BY <1>0, <1>5
    DEF BackUp, PartOf, MovesAside, AfterBackup, Goto, history, ReplaceInv, QuietInv, NoFiles, Parts, Downloading, Replacing, Undoing, Unpacking, None
  <2>2. PayloadInv'
    BY <1>0, <1>5
    DEF BackUp, PartOf, MovesAside, AfterBackup, Goto, history, ReplaceInv, PayloadInv, QuietInv, NoFiles, Parts, None, Downloading, Unpacking
  <2>3. SignatureInv'
    BY <1>0, <1>5
    DEF BackUp, PartOf, MovesAside, AfterBackup, Goto, history, ReplaceInv, SignatureInv, QuietInv, NoFiles, Parts, None, Downloading, Unpacking
  <2>4. UndoInv'
    BY <1>0, <1>5
    DEF BackUp, PartOf, MovesAside, AfterBackup, Goto, history, ReplaceInv, UndoInv, InPlaceOrAside, QuietInv, PayloadInv, SignatureInv, NoFiles, Parts, None, Replacing
  <2>5. BeforeInv'
    BY <1>0, <1>5
    DEF BackUp, PartOf, MovesAside, AfterBackup, Goto, history, ReplaceInv, BeforeInv, Downloading, Replacing, Undoing, PairMatches, ArtifactsAreSound
  <2>6. PairMatches'
    BY <1>0, <1>5
    DEF BackUp, PartOf, MovesAside, AfterBackup, Goto, history, ReplaceInv, PairMatches, ArtifactsAreSound, Parts, None
  <2>7. FailedInstallRestores'
    BY <1>0, <1>5
    DEF BackUp, PartOf, MovesAside, AfterBackup, Goto, history, ReplaceInv, FailedInstallRestores, ArtifactsAreSound
  <2>8. ArtifactSurvives'
    <3>1. live # None => live \in {file["payload"], backup["payload"]} \/ <<"payload", live>> \in debris
      BY DEF ReplaceInv, ArtifactsAreSound, ArtifactSurvives
    <3>2. UNCHANGED <<debris, live>>
      BY <1>5 DEF BackUp, history
    <3>3. CASE pc = "back up payload"
      <4>1. backup["payload"] = None
        BY <3>3 DEF ReplaceInv, QuietInv, NoFiles, Parts
      <4>2. backup'["payload"] = file["payload"] \/ file' = file
        BY <1>0, <1>5, <3>3 DEF BackUp, PartOf, Parts
      <4> QED
        BY <3>1, <3>2, <4>1, <4>2 DEF ArtifactSurvives
    <3>4. CASE pc = "back up signature"
      <4>1. file'["payload"] = file["payload"] /\ backup'["payload"] = backup["payload"]
        BY <1>0, <1>5, <3>4 DEF BackUp, PartOf, Parts
      <4> QED
        BY <3>1, <3>2, <4>1 DEF ArtifactSurvives
    <3> QED
      BY <1>5, <3>3, <3>4 DEF BackUp
  <2> QED
    BY <2>1, <2>2, <2>3, <2>4, <2>5, <2>6, <2>7, <2>8 DEF ReplaceInv, ArtifactsAreSound
<1>6. CASE CommitSignature
  <2>1. QuietInv'
    BY <1>0, <1>6, <1>e
    DEF CommitSignature, Goto, history, ReplaceInv, QuietInv, NoFiles, Parts, Downloading, Replacing, Undoing, Unpacking, None
  <2>2. PayloadInv'
    BY <1>0, <1>6, <1>e
    DEF CommitSignature, Goto, history, ReplaceInv, PayloadInv, QuietInv, NoFiles, Parts, None, Downloading, Unpacking
  <2>3. SignatureInv'
    BY <1>0, <1>6, <1>e
    DEF CommitSignature, Goto, history, ReplaceInv, SignatureInv, QuietInv, NoFiles, Parts, None, Downloading, Unpacking
  <2>4. UndoInv'
    BY <1>0, <1>6, <1>e
    DEF CommitSignature, Goto, history, ReplaceInv, UndoInv, InPlaceOrAside, QuietInv, PayloadInv, SignatureInv, NoFiles, Parts, None, Replacing
  <2>5. BeforeInv'
    BY <1>0, <1>6, <1>e
    DEF CommitSignature, Goto, history, ReplaceInv, BeforeInv, Downloading, Replacing, Undoing, PairMatches, ArtifactsAreSound
  <2>6. PairMatches'
    BY <1>0, <1>6, <1>e
    DEF CommitSignature, Goto, history, ReplaceInv, PairMatches, ArtifactsAreSound, Parts, None, PayloadInv, SignatureInv
  <2>7. FailedInstallRestores'
    BY <1>0, <1>6, <1>e
    DEF CommitSignature, Goto, history, ReplaceInv, FailedInstallRestores, ArtifactsAreSound
  <2>8. ArtifactSurvives'
    BY <1>0, <1>6, <1>e
    DEF CommitSignature, Goto, history, ReplaceInv, ArtifactSurvives, ArtifactsAreSound, QuietInv, PayloadInv, SignatureInv, NoFiles, Parts, None
  <2> QED
    BY <2>1, <2>2, <2>3, <2>4, <2>5, <2>6, <2>7, <2>8 DEF ReplaceInv, ArtifactsAreSound
<1>7. CASE CommitPayload
  <2>1. QuietInv'
    BY <1>0, <1>7, <1>e
    DEF CommitPayload, Goto, ReplaceInv, QuietInv, NoFiles, Parts, Downloading, Replacing, Undoing, Unpacking, None
  <2>2. PayloadInv'
    BY <1>0, <1>7, <1>e
    DEF CommitPayload, Goto, ReplaceInv, PayloadInv, QuietInv, NoFiles, Parts, None, Downloading, Unpacking
  <2>3. SignatureInv'
    BY <1>0, <1>7, <1>e
    DEF CommitPayload, Goto, ReplaceInv, SignatureInv, QuietInv, NoFiles, Parts, None, Downloading, Unpacking
  <2>4. UndoInv'
    BY <1>0, <1>7, <1>e
    DEF CommitPayload, Goto, ReplaceInv, UndoInv, InPlaceOrAside, QuietInv, PayloadInv, SignatureInv, NoFiles, Parts, None, Replacing
  <2>5. BeforeInv'
    BY <1>0, <1>7, <1>e
    DEF CommitPayload, Goto, ReplaceInv, BeforeInv, Downloading, Replacing, Undoing, PairMatches, ArtifactsAreSound
  <2>6. PairMatches'
    BY <1>0, <1>7, <1>e
    DEF CommitPayload, Goto, ReplaceInv, PairMatches, ArtifactsAreSound, Parts, None, PayloadInv, SignatureInv
  <2>7. FailedInstallRestores'
    BY <1>0, <1>7, <1>e
    DEF CommitPayload, Goto, ReplaceInv, FailedInstallRestores, ArtifactsAreSound
  <2>8. ArtifactSurvives'
    BY <1>0, <1>7, <1>e
    DEF CommitPayload, Goto, ReplaceInv, ArtifactSurvives, ArtifactsAreSound, QuietInv, PayloadInv, SignatureInv, NoFiles, Parts, None
  <2> QED
    BY <2>1, <2>2, <2>3, <2>4, <2>5, <2>6, <2>7, <2>8 DEF ReplaceInv, ArtifactsAreSound
<1>8. CASE RemoveBackups
  <2>1. QuietInv'
    BY <1>0, <1>8
    DEF RemoveBackups, Return, history, ReplaceInv, QuietInv, NoFiles, Parts, Downloading, Replacing, Undoing, Unpacking, None
  <2>2. PayloadInv'
    BY <1>0, <1>8
    DEF RemoveBackups, Return, history, ReplaceInv, PayloadInv, QuietInv, NoFiles, Parts, None, Downloading, Unpacking
  <2>3. SignatureInv'
    BY <1>0, <1>8
    DEF RemoveBackups, Return, history, ReplaceInv, SignatureInv, QuietInv, NoFiles, Parts, None, Downloading, Unpacking
  <2>4. UndoInv'
    BY <1>0, <1>8
    DEF RemoveBackups, Return, history, ReplaceInv, UndoInv, InPlaceOrAside, QuietInv, PayloadInv, SignatureInv, NoFiles, Parts, None, Replacing
  <2>5. BeforeInv'
    BY <1>0, <1>8
    DEF RemoveBackups, Return, history, ReplaceInv, BeforeInv, Downloading, Replacing, Undoing, PairMatches, ArtifactsAreSound
  <2>6. PairMatches'
    BY <1>0, <1>8
    DEF RemoveBackups, Return, history, ReplaceInv, PairMatches, ArtifactsAreSound, Parts, None
  <2>7. FailedInstallRestores'
    BY <1>0, <1>8
    DEF RemoveBackups, Return, history, ReplaceInv, FailedInstallRestores, ArtifactsAreSound
  <2>8. ArtifactSurvives'
    <3>1. file["payload"] = live
      BY <1>8 DEF RemoveBackups, ReplaceInv, SignatureInv
    <3>2. file' = file /\ live' = live
      BY <1>8 DEF RemoveBackups, history
    <3> QED
      BY <3>1, <3>2 DEF ArtifactSurvives
  <2> QED
    BY <2>1, <2>2, <2>3, <2>4, <2>5, <2>6, <2>7, <2>8 DEF ReplaceInv, ArtifactsAreSound
<1>9. CASE ReplaceFails
  <2>1. QuietInv'
    BY <1>0, <1>9
    DEF ReplaceFails, Goto, card, history, ReplaceInv, QuietInv, NoFiles, Parts, Downloading, Replacing, Undoing, Unpacking, None
  <2>2. PayloadInv'
    BY <1>0, <1>9
    DEF ReplaceFails, Goto, card, history, ReplaceInv, PayloadInv, QuietInv, NoFiles, Parts, None, Downloading, Unpacking
  <2>3. SignatureInv'
    BY <1>0, <1>9
    DEF ReplaceFails, Goto, card, history, ReplaceInv, SignatureInv, QuietInv, NoFiles, Parts, None, Downloading, Unpacking
  <2>4. UndoInv'
    BY <1>0, <1>9
    DEF ReplaceFails, Goto, card, history, ReplaceInv, UndoInv, InPlaceOrAside, QuietInv, PayloadInv, SignatureInv, NoFiles, Parts, None, Replacing
  <2>5. BeforeInv'
    BY <1>0, <1>9
    DEF ReplaceFails, Goto, card, history, ReplaceInv, BeforeInv, Downloading, Replacing, Undoing, PairMatches, ArtifactsAreSound
  <2>6. PairMatches'
    BY <1>0, <1>9
    DEF ReplaceFails, Goto, card, history, ReplaceInv, PairMatches, ArtifactsAreSound, Parts, None
  <2>7. FailedInstallRestores'
    BY <1>0, <1>9
    DEF ReplaceFails, Goto, card, history, ReplaceInv, FailedInstallRestores, ArtifactsAreSound
  <2>8. ArtifactSurvives'
    BY <1>0, <1>9
    DEF ReplaceFails, Goto, card, history, ReplaceInv, ArtifactSurvives, ArtifactsAreSound
  <2> QED
    BY <2>1, <2>2, <2>3, <2>4, <2>5, <2>6, <2>7, <2>8 DEF ReplaceInv, ArtifactsAreSound
<1>10. CASE RemoveSignature
  <2>1. QuietInv'
    BY <1>0, <1>10
    DEF RemoveSignature, Goto, ReplaceInv, QuietInv, NoFiles, Parts, Downloading, Replacing, Undoing, Unpacking, None
  <2>2. PayloadInv'
    BY <1>0, <1>10
    DEF RemoveSignature, Goto, ReplaceInv, PayloadInv, QuietInv, NoFiles, Parts, None, Downloading, Unpacking
  <2>3. SignatureInv'
    BY <1>0, <1>10
    DEF RemoveSignature, Goto, ReplaceInv, SignatureInv, QuietInv, NoFiles, Parts, None, Downloading, Unpacking
  <2>4. UndoInv'
    BY <1>0, <1>10
    DEF RemoveSignature, Goto, ReplaceInv, UndoInv, InPlaceOrAside, QuietInv, PayloadInv, SignatureInv, NoFiles, Parts, None, Replacing
  <2>5. BeforeInv'
    BY <1>0, <1>10
    DEF RemoveSignature, Goto, ReplaceInv, BeforeInv, Downloading, Replacing, Undoing, PairMatches, ArtifactsAreSound
  <2>6. PairMatches'
    BY <1>0, <1>10
    DEF RemoveSignature, Goto, ReplaceInv, PairMatches, ArtifactsAreSound, Parts, None
  <2>7. FailedInstallRestores'
    BY <1>0, <1>10
    DEF RemoveSignature, Goto, ReplaceInv, FailedInstallRestores, ArtifactsAreSound
  <2>8. ArtifactSurvives'
    BY <1>0, <1>10
    DEF RemoveSignature, Goto, ReplaceInv, ArtifactSurvives, ArtifactsAreSound, QuietInv, PayloadInv, SignatureInv, NoFiles, Parts, None
  <2> QED
    BY <2>1, <2>2, <2>3, <2>4, <2>5, <2>6, <2>7, <2>8 DEF ReplaceInv, ArtifactsAreSound
<1>11. CASE Restore
  BY <1>11, RestoreStep
<1>12. CASE ReadArchive
  <2>1. pc \in Downloading \cup Unpacking /\ pc' \in {"idle", "back up payload"} \cup Downloading \cup Unpacking
    BY <1>12 DEF ReadArchive, Goto, Return, Downloading, Unpacking
  <2>2. UNCHANGED <<file, backup, debris, before, live, excuse>>
    BY <1>12 DEF ReadArchive, Goto, Return, card, history
  <2> QED
    BY <2>1, <2>2, NothingTouched
<1>13. CASE ValidateManifest
  <2>1. pc \in Downloading \cup Unpacking /\ pc' \in {"idle", "back up payload"} \cup Downloading \cup Unpacking
    BY <1>13 DEF ValidateManifest, Goto, Return, Downloading, Unpacking
  <2>2. UNCHANGED <<file, backup, debris, before, live, excuse>>
    BY <1>13 DEF ValidateManifest, Goto, Return, card, history
  <2> QED
    BY <2>1, <2>2, NothingTouched
<1>14. CASE CheckRelease
  <2>1. pc \in Downloading \cup Unpacking /\ pc' \in {"idle", "back up payload"} \cup Downloading \cup Unpacking
    BY <1>14 DEF CheckRelease, Goto, Return, Downloading, Unpacking
  <2>2. UNCHANGED <<file, backup, debris, before, live, excuse>>
    BY <1>14 DEF CheckRelease, Goto, Return, card, history
  <2> QED
    BY <2>1, <2>2, NothingTouched
<1>15. CASE MakeStage
  <2>1. pc \in Downloading \cup Unpacking /\ pc' \in {"idle", "back up payload"} \cup Downloading \cup Unpacking
    BY <1>15 DEF MakeStage, Goto, Return, Downloading, Unpacking
  <2>2. UNCHANGED <<file, backup, debris, before, live, excuse>>
    BY <1>15 DEF MakeStage, Goto, Return, card, history
  <2> QED
    BY <2>1, <2>2, NothingTouched
<1>16. CASE Extract
  <2>1. pc \in Downloading \cup Unpacking /\ pc' \in {"idle", "back up payload"} \cup Downloading \cup Unpacking
    BY <1>16 DEF Extract, Goto, Abandon, Downloading, Unpacking
  <2>2. UNCHANGED <<file, backup, debris, before, live, excuse>>
    BY <1>16 DEF Extract, Goto, Abandon, card, history
  <2> QED
    BY <2>1, <2>2, NothingTouched
<1>17. CASE Recheck
  <2>1. pc \in Downloading \cup Unpacking /\ pc' \in {"idle", "back up payload"} \cup Downloading \cup Unpacking
    BY <1>17 DEF Recheck, Goto, Abandon, Downloading, Unpacking
  <2>2. UNCHANGED <<file, backup, debris, before, live, excuse>>
    BY <1>17 DEF Recheck, Goto, Abandon, card, history
  <2> QED
    BY <2>1, <2>2, NothingTouched
<1>18. CASE Publish
  <2>1. pc \in Downloading \cup Unpacking /\ pc' \in {"idle", "back up payload"} \cup Downloading \cup Unpacking
    BY <1>18 DEF Publish, Goto, Downloading, Unpacking
  <2>2. UNCHANGED <<file, backup, debris, before, live, excuse>>
    BY <1>18 DEF Publish, Goto, card, history
  <2> QED
    BY <2>1, <2>2, NothingTouched
<1>19. CASE Point
  <2>1. pc \in Downloading \cup Unpacking /\ pc' \in {"idle", "back up payload"} \cup Downloading \cup Unpacking
    BY <1>19 DEF Point, Return, Abandon, Downloading, Unpacking
  <2>2. UNCHANGED <<file, backup, debris, before, live, excuse>>
    BY <1>19 DEF Point, Return, Abandon, card, history
  <2> QED
    BY <2>1, <2>2, NothingTouched
<1>20. CASE UnpackFails
  <2>1. pc \in Downloading \cup Unpacking /\ pc' \in {"idle", "back up payload"} \cup Downloading \cup Unpacking
    BY <1>20 DEF UnpackFails, Return, Abandon, Downloading, Unpacking
  <2>2. UNCHANGED <<file, backup, debris, before, live, excuse>>
    BY <1>20 DEF UnpackFails, Return, Abandon, card, history
  <2> QED
    BY <2>1, <2>2, NothingTouched
<1>21. CASE Discard
  <2>1. pc \in Downloading \cup Unpacking /\ pc' \in {"idle", "back up payload"} \cup Downloading \cup Unpacking
    BY <1>21 DEF Discard, Downloading, Unpacking
  <2>2. UNCHANGED <<file, backup, debris, before, live, excuse>>
    BY <1>21 DEF Discard, card, history
  <2> QED
    BY <2>1, <2>2, NothingTouched
<1>22. CASE Crash
  <2>1. QuietInv'
    BY <1>0, <1>22
    DEF Crash, history, ReplaceInv, QuietInv, NoFiles, Parts, Downloading, Replacing, Undoing, Unpacking, None
  <2>2. PayloadInv'
    BY <1>0, <1>22
    DEF Crash, history, ReplaceInv, PayloadInv, QuietInv, NoFiles, Parts, None, Downloading, Unpacking
  <2>3. SignatureInv'
    BY <1>0, <1>22
    DEF Crash, history, ReplaceInv, SignatureInv, QuietInv, NoFiles, Parts, None, Downloading, Unpacking
  <2>4. UndoInv'
    BY <1>0, <1>22
    DEF Crash, history, ReplaceInv, UndoInv, InPlaceOrAside, QuietInv, PayloadInv, SignatureInv, NoFiles, Parts, None, Replacing
  <2>5. BeforeInv'
    BY <1>0, <1>22
    DEF Crash, history, ReplaceInv, BeforeInv, Downloading, Replacing, Undoing, PairMatches, ArtifactsAreSound
  <2>6. PairMatches'
    BY <1>0, <1>22
    DEF Crash, history, ReplaceInv, PairMatches, ArtifactsAreSound, Parts, None
  <2>7. FailedInstallRestores'
    BY <1>0, <1>22
    DEF Crash, history, ReplaceInv, FailedInstallRestores, ArtifactsAreSound
  <2>8. ArtifactSurvives'
    BY <1>0, <1>22
    DEF Crash, history, ReplaceInv, ArtifactSurvives, ArtifactsAreSound, QuietInv, PayloadInv, SignatureInv, NoFiles, Parts, None
  <2> QED
    BY <2>1, <2>2, <2>3, <2>4, <2>5, <2>6, <2>7, <2>8 DEF ReplaceInv, ArtifactsAreSound
<1>23. CASE Restart
  <2>1. QuietInv'
    BY <1>0, <1>23
    DEF Restart, card, history, ReplaceInv, QuietInv, NoFiles, Parts, Downloading, Replacing, Undoing, Unpacking, None
  <2>2. PayloadInv'
    BY <1>0, <1>23
    DEF Restart, card, history, ReplaceInv, PayloadInv, QuietInv, NoFiles, Parts, None, Downloading, Unpacking
  <2>3. SignatureInv'
    BY <1>0, <1>23
    DEF Restart, card, history, ReplaceInv, SignatureInv, QuietInv, NoFiles, Parts, None, Downloading, Unpacking
  <2>4. UndoInv'
    BY <1>0, <1>23
    DEF Restart, card, history, ReplaceInv, UndoInv, InPlaceOrAside, QuietInv, PayloadInv, SignatureInv, NoFiles, Parts, None, Replacing
  <2>5. BeforeInv'
    BY <1>0, <1>23
    DEF Restart, card, history, ReplaceInv, BeforeInv, Downloading, Replacing, Undoing, PairMatches, ArtifactsAreSound
  <2>6. PairMatches'
    BY <1>0, <1>23
    DEF Restart, card, history, ReplaceInv, PairMatches, ArtifactsAreSound, Parts, None
  <2>7. FailedInstallRestores'
    BY <1>0, <1>23
    DEF Restart, card, history, ReplaceInv, FailedInstallRestores, ArtifactsAreSound
  <2>8. ArtifactSurvives'
    BY <1>0, <1>23
    DEF Restart, card, history, ReplaceInv, ArtifactSurvives, ArtifactsAreSound
  <2> QED
    BY <2>1, <2>2, <2>3, <2>4, <2>5, <2>6, <2>7, <2>8 DEF ReplaceInv, ArtifactsAreSound
<1>24. CASE UNCHANGED vars
  BY <1>24, ReplaceStutter DEF vars, card, history
<1> QED
  BY <1>1, <1>2, <1>3, <1>4, <1>5, <1>6, <1>7, <1>8, <1>9, <1>10, <1>11, <1>12,
     <1>13, <1>14, <1>15, <1>16, <1>17, <1>18, <1>19, <1>20, <1>21, <1>22, <1>23, <1>24
  DEF Next, Replace, Unpack

\* A payload never lies beside the signature of another one, a failed installation leaves what
\* was there, and the artifact last in place survives it, on both file systems and wherever
\* the power goes (atomic_replace_with, atomic_replace_pair_with).
THEOREM ArtifactsStaySound == Spec => []ArtifactsAreSound
<1>1. Spec => []TypeInv
  BY TypeInit, TypeStep, PTL DEF Spec
<1>2. Spec => []ReplaceInv
  BY <1>1, ReplaceInit, ReplaceStep, PTL DEF Spec
<1>3. ReplaceInv => ArtifactsAreSound
  BY DEF ReplaceInv
<1>4. QED
  BY <1>2, <1>3, PTL

-----------------------------------------------------------------------------
(* The stream of a download                                                *)

\* StreamValidator checks the length while the bytes come; a package is verified and
\* installed, above, only after that.

CONSTANTS
    MaxItems,   \* items of the catalogue
    Foreign,    \* those of another processor
    Tools,      \* those of the category asked for
    Room,       \* MAX_CATALOG_JSON, in halves of items
    MaxEntries, \* entries the caller has room for
    MaxSize,    \* bound on sizes
    Ids,            \* ids of entries
    CachedCatalogs, \* catalogues the cache may hold
    PerPage         \* cards of a page

VARIABLES
    fetch,   \* "idle" or "runs"
    sent,    \* halves the server has sent
    buffer,  \* HttpBuf: the halves that found room
    holed,   \* one did not and a later one did
    entries, \* the entries handed to the caller
    stream,  \* the download: phase, declared length, expected size, received
    written, \* bytes in the staged file
    alive,       \* the app exists
    shopEntries, \* APPSTORE.entries
    screen,      \* what the state believes is shown
    widgets,     \* screens on the tree
    installing,  \* the install that runs: what its screen showed, and the entry
    installDone  \* the last one that ended

Store == INSTANCE StoreClient

\* While bytes come, those written are those received, no more than declared; the length
\* declared is the one promised, and within the limit.
StreamInv ==
    /\ stream \in [phase : {"idle", "reads", "done", "failed"}, length : Int, expected : Int,
                   limit : Int, received : Int]
    /\ written \in Int
    /\ stream.phase \in {"reads", "done"} =>
           /\ written = stream.received /\ stream.received <= stream.length
           /\ stream.length <= stream.limit /\ stream.expected \in {Store!Unknown, stream.length}
    /\ stream.phase = "done" => stream.received = stream.length

\* Every step of the client keeps the invariant.
LEMMA StreamInvInductive ==
    /\ Store!Init => StreamInv
    /\ StreamInv /\ [Store!Next]_(Store!vars) => StreamInv'
<1>1. ASSUME Store!Init PROVE StreamInv
  BY <1>1 DEF Store!Init, Store!NoStream, Store!Unknown, StreamInv
<1>2. ASSUME StreamInv, [Store!Next]_(Store!vars) PROVE StreamInv'
  <2>1. ASSUME NEW l \in Store!Unknown .. MaxSize, NEW m \in Store!Unknown .. MaxSize,
               NEW e \in Store!Unknown .. MaxSize, Store!Open(l, e, m)
        PROVE  StreamInv'
    <3>1. l \in Int /\ m \in Int /\ e \in Int
      BY DEF Store!Unknown
    <3> QED
      BY <2>1, <3>1 DEF Store!Open, Store!Unknown, StreamInv
  <2>2. ASSUME NEW n \in 1 .. 2, Store!Read(n) PROVE StreamInv'
    BY <1>2, <2>2 DEF Store!Read, StreamInv
  <2>3. CASE Store!StreamEnds
    BY <1>2, <2>3 DEF Store!StreamEnds, StreamInv
  <2>4. CASE Store!DownloadFails
    BY <1>2, <2>4 DEF Store!DownloadFails, StreamInv
  <2>5. ASSUME \/ Store!BeginFetch \/ Store!EndFetch \/ Store!FetchFails \/ Store!FilterTools
               \/ (\E n \in 1 .. 3 : Store!Chunk(n))
               \/ (\E ascending \in BOOLEAN : Store!Sort(ascending))
               \/ UNCHANGED Store!vars
        PROVE  StreamInv'
    <3>1. UNCHANGED <<stream, written>>
      BY <2>5, Zenon DEF Store!BeginFetch, Store!EndFetch, Store!FetchFails, Store!FilterTools, Store!Chunk,
         Store!Sort, Store!vars, Store!download
    <3> QED
      BY <1>2, <3>1 DEF StreamInv
  <2> QED
    BY <1>2, <2>1, <2>2, <2>3, <2>4, <2>5 DEF Store!Next
<1> QED
  BY <1>1, <1>2

\* A download that counts as done has all the bytes the server declared and the catalogue
\* promised, and no more than the limit of its kind (StreamValidator, appstore_client.rs):
\* for any sizes.
THEOREM DownloadsAreWhole == Store!Spec => []Store!DownloadIsWhole
<1>1. StreamInv => Store!DownloadIsWhole
  BY DEF StreamInv, Store!DownloadIsWhole
<1> QED
  BY <1>1, StreamInvInductive, PTL DEF Store!Spec

-----------------------------------------------------------------------------
(* The screens of the app store                                            *)

\* Entries change only while no screen of the app is on the tree, so that an index keeps its
\* meaning for a screen of the app; on_destroy makes the others nobody's.

\* A screen on the tree.
IsScreen(w) ==
    /\ w = [kind |-> w.kind, cards |-> w.cards, index |-> w.index, kept |-> w.kept]
    /\ w.kept \in BOOLEAN

\* An install of what its screen showed, unless the app is gone or left the screen behind.
IsInstall(k) ==
    /\ k = [shown |-> k.shown, entry |-> k.entry, kept |-> k.kept] /\ k.kept \in BOOLEAN
    /\ k.entry = k.shown \/ k.entry = "gone" \/ k.kept = FALSE

\* What the app, its screens and its installs may be.
ShopTypes ==
    /\ alive \in BOOLEAN /\ IsInstall(installing) /\ IsInstall(installDone)
    /\ \A w \in widgets : IsScreen(w)

\* A screen of the app shows the entry whose index its button carries.
DetailInv ==
    \A w \in widgets : w.kept = TRUE /\ w.kind = "detail" => w.cards[1] = shopEntries[w.index].id

\* One screen of the app is on the tree, the one it believes in.
ScreenInv ==
    alive = TRUE =>
        \E cards, index : {w \in widgets : w.kept = TRUE} = {Store!Shows(screen, cards, index)}

\* The inductive invariant of the app store app.
ShopInv == ShopTypes /\ DetailInv /\ ScreenInv

\* clear_screen, then another screen is built.
LEMMA RenderKeeps ==
    ASSUME ShopInv, NEW kind, NEW cards, NEW index, Store!Render(kind, cards, index),
           kind = "detail" => cards[1] = shopEntries'[index].id,
           alive' \in BOOLEAN, IsInstall(installing'), IsInstall(installDone')
    PROVE  ShopInv'
<1> DEFINE new == Store!Shows(kind, cards, index)
<1>1. widgets' = {w \in widgets : ~w.kept} \cup {new} /\ screen' = kind
  BY DEF Store!Render, Store!Others
<1>2. IsScreen(new) /\ new.kept = TRUE /\ new.kind = kind /\ new.cards = cards /\ new.index = index
  BY DEF Store!Shows, IsScreen
<1>3. new = Store!Shows(screen', cards, index)
  BY <1>1
<1> HIDE DEF new
<1>4. \A w \in widgets : IsScreen(w) /\ w.kept \in BOOLEAN
  BY DEF ShopInv, ShopTypes, IsScreen
<1>5. \A w \in widgets' : w = new \/ (w \in widgets /\ w.kept = FALSE)
  BY <1>1, <1>4
<1>6. \A w \in widgets' : IsScreen(w)
  BY <1>2, <1>4, <1>5, Zenon
<1>7. ShopTypes'
  BY <1>6, Zenon DEF ShopTypes
<1>8. DetailInv'
  BY <1>2, <1>5 DEF DetailInv
<1>9. {w \in widgets' : w.kept = TRUE} = {new}
  BY <1>1, <1>2, <1>5
<1>10. ScreenInv'
  BY <1>3, <1>9, Zenon DEF ScreenInv
<1> QED
  BY <1>7, <1>8, <1>10 DEF ShopInv

\* on_destroy: the screens stay, and are nobody's.
LEMMA AppDestroyed ==
    ASSUME ShopInv, Store!Destroy
    PROVE  ShopInv'
<1>1. /\ alive' = FALSE /\ widgets' = {[w EXCEPT !.kept = FALSE] : w \in widgets}
      /\ installing' = IF installing # Store!NoInstall THEN [installing EXCEPT !.entry = "gone"] ELSE installing
      /\ installDone' = installDone
  BY DEF Store!Destroy
<1>2. ASSUME NEW v \in widgets' PROVE IsScreen(v) /\ v.kept = FALSE
  <2>1. PICK w \in widgets : v = [w EXCEPT !.kept = FALSE]
    BY <1>1
  <2>2. w = [kind |-> w.kind, cards |-> w.cards, index |-> w.index, kept |-> w.kept]
    BY DEF ShopInv, ShopTypes, IsScreen
  <2>3. v = [kind |-> w.kind, cards |-> w.cards, index |-> w.index, kept |-> FALSE]
    BY <2>1, <2>2
  <2>4. v.kind = w.kind /\ v.cards = w.cards /\ v.index = w.index /\ v.kept = FALSE
    BY <2>3
  <2>5. v = [kind |-> v.kind, cards |-> v.cards, index |-> v.index, kept |-> v.kept]
    BY <2>3, <2>4
  <2> QED
    BY <2>4, <2>5 DEF IsScreen
<1>3. IsInstall(installing')
  <2>1. IsInstall(installing)
    BY DEF ShopInv, ShopTypes
  <2>2. CASE installing' = installing
    BY <2>1, <2>2
  <2>3. CASE installing' = [installing EXCEPT !.entry = "gone"]
    <3>1. installing' = [shown |-> installing.shown, entry |-> "gone", kept |-> installing.kept]
      BY <2>1, <2>3 DEF IsInstall
    <3>2. /\ installing'.shown = installing.shown /\ installing'.entry = "gone"
          /\ installing'.kept = installing.kept
      BY <3>1
    <3>3. installing' = [shown |-> installing'.shown, entry |-> installing'.entry, kept |-> installing'.kept]
      BY <3>1, <3>2
    <3> QED
      BY <2>1, <3>2, <3>3 DEF IsInstall
  <2> QED
    BY <1>1, <2>2, <2>3
<1>4. ShopTypes'
  BY <1>1, <1>2, <1>3 DEF ShopInv, ShopTypes, IsInstall
<1> QED
  BY <1>1, <1>2, <1>4 DEF ShopInv, DetailInv, ScreenInv

\* install_clicked on a screen of the app installs what it shows; on one that was left
\* behind, whatever is under the index.
LEMMA InstallClicked ==
    ASSUME ShopInv, NEW w \in widgets, Store!ClickInstall(w)
    PROVE  ShopInv'
<1> DEFINE chosen == shopEntries[w.index].id
<1>1. /\ installing' = [shown |-> w.cards[1], entry |-> chosen, kept |-> w.kept]
      /\ Store!Render("installing", <<chosen>>, 0) /\ w.kind = "detail"
      /\ UNCHANGED <<alive, shopEntries, installDone>>
  BY DEF Store!ClickInstall, Store!Clicks
<1>2. w.kept \in BOOLEAN /\ (w.kept = TRUE => w.cards[1] = chosen)
  BY <1>1 DEF ShopInv, ShopTypes, DetailInv, IsScreen
<1> HIDE DEF chosen
<1>3. installing'.shown = w.cards[1] /\ installing'.entry = chosen /\ installing'.kept = w.kept
  BY <1>1
<1>4. installing' = [shown |-> installing'.shown, entry |-> installing'.entry, kept |-> installing'.kept]
  BY <1>1, <1>3
<1>5. IsInstall(installing')
  BY <1>2, <1>3, <1>4 DEF IsInstall
<1>6. alive' \in BOOLEAN /\ IsInstall(installDone')
  BY <1>1 DEF ShopInv, ShopTypes
<1> QED
  BY <1>1, <1>5, <1>6, RenderKeeps

\* Every step of the app keeps the invariant.
LEMMA ShopInvInductive == ShopInv /\ [Store!ShopNext]_Store!shop => ShopInv'
<1> SUFFICES ASSUME ShopInv, [Store!ShopNext]_Store!shop
             PROVE  ShopInv'
  OBVIOUS
<1>1. alive \in BOOLEAN /\ IsInstall(installing) /\ IsInstall(installDone)
  BY DEF ShopInv, ShopTypes
<1>2. IsInstall(Store!NoInstall)
  BY DEF IsInstall, Store!NoInstall
<1>3. CASE Store!Create
  <2>1. PICK cards : /\ Store!Render("browse", cards, 0) /\ alive' = TRUE
                     /\ UNCHANGED <<installing, installDone>>
    BY <1>3, Zenon DEF Store!Create
  <2> QED
    BY <1>1, <2>1, RenderKeeps
<1>4. CASE Store!InstallEnds
  <2>1. /\ Store!Render("installing", <<installing.shown>>, 0)
        /\ installDone' = installing /\ installing' = Store!NoInstall /\ UNCHANGED alive
    BY <1>4 DEF Store!InstallEnds
  <2> QED
    BY <1>1, <1>2, <2>1, RenderKeeps
<1>5. ASSUME NEW w \in widgets, Store!ClickBack(w) PROVE ShopInv'
  <2>1. /\ Store!Render("browse", Store!FirstPage(shopEntries), 0)
        /\ UNCHANGED <<alive, shopEntries, installing, installDone>>
    BY <1>5 DEF Store!ClickBack
  <2> QED
    BY <1>1, <2>1, RenderKeeps
<1>6. ASSUME NEW w \in widgets, NEW i \in 1 .. PerPage, Store!ClickCard(w, i) PROVE ShopInv'
  <2>1. /\ Store!Render("detail", <<shopEntries[i].id>>, i)
        /\ UNCHANGED <<alive, shopEntries, installing, installDone>>
    BY <1>6 DEF Store!ClickCard
  <2>2. <<shopEntries[i].id>>[1] = shopEntries'[i].id
    BY <2>1
  <2> QED
    BY <1>1, <2>1, <2>2, RenderKeeps
<1>7. CASE UNCHANGED Store!shop
  BY <1>7 DEF Store!shop, ShopInv, ShopTypes, DetailInv, ScreenInv, IsInstall, IsScreen, Store!Shows
<1> QED
  BY <1>3, <1>4, <1>5, <1>6, <1>7, AppDestroyed, InstallClicked DEF Store!ShopNext

\* A set of one element has one.
LEMMA SizeOfOne ==
    ASSUME NEW x
    PROVE  Store!Cardinality({x}) = 1
<1>1. Cardinality({x}) = 1
  BY FS_Singleton
<1>2. Store!Cardinality({x}) = Cardinality({x})
  BY Zenon DEF Store!Cardinality, Cardinality
<1> QED
  BY <1>1, <1>2

\* What is installed is what the screen showed whose button was pressed, unless that screen
\* was left behind by an app destroyed since; and one screen of the app is on the tree, the
\* one its state believes in (clear_screen, install_clicked, on_destroy, tk_appstore.rs):
\* for any catalogues, in whatever order the entries are sorted.
THEOREM ShopInstallsWhatItShows == Store!ShopSpec => [](Store!InstallsWhatWasShown /\ Store!OneScreen)
<1>1. Store!ShopInit => ShopInv
  <2>1. IsInstall(Store!NoInstall)
    BY DEF IsInstall, Store!NoInstall
  <2> QED
    BY <2>1 DEF Store!ShopInit, ShopInv, ShopTypes, DetailInv, ScreenInv
<1>2. ShopInv => Store!InstallsWhatWasShown
  BY DEF ShopInv, ShopTypes, IsInstall, Store!InstallsWhatWasShown
<1>3. ShopInv => Store!OneScreen
  <2> SUFFICES ASSUME ShopInv, alive = TRUE
               PROVE  /\ {w.kind : w \in widgets \ Store!Others} = {screen}
                      /\ Store!Cardinality(widgets \ Store!Others) = 1
    BY DEF ShopInv, ShopTypes, Store!OneScreen
  <2>1. PICK cards, index : {w \in widgets : w.kept = TRUE} = {Store!Shows(screen, cards, index)}
    BY DEF ShopInv, ScreenInv
  <2>2. \A w \in widgets : w.kept \in BOOLEAN
    BY DEF ShopInv, ShopTypes, IsScreen
  <2>3. widgets \ Store!Others = {w \in widgets : w.kept = TRUE}
    BY <2>2 DEF Store!Others
  <2>4. widgets \ Store!Others = {Store!Shows(screen, cards, index)}
    BY <2>1, <2>3
  <2>5. Store!Shows(screen, cards, index).kind = screen
    BY DEF Store!Shows
  <2>6. {w.kind : w \in widgets \ Store!Others} = {screen}
    <3>1. {w.kind : w \in {Store!Shows(screen, cards, index)}} = {Store!Shows(screen, cards, index).kind}
      OBVIOUS
    <3> QED
      BY <2>4, <2>5, <3>1, Zenon
  <2> QED
    BY <2>4, <2>6, SizeOfOne
<1> QED
  BY <1>1, <1>2, <1>3, ShopInvInductive, PTL DEF Store!ShopSpec

-----------------------------------------------------------------------------
(* The recovery portal                                                     *)

\* The three parts of the invariant are about the network, the job and the pages, and each
\* is kept by the steps of the others because those leave its state alone. The board a job
\* is for was taken with the request, so that only what happens between the request and the
\* main loop can make it another; the history variable switched says when that happened.

CONSTANTS
    Pages,      \* the browsers that show the page
    Known,      \* the boards of this chip in KNOWN_BOARDS
    Listed,     \* those of the catalogue of boards
    Networks,   \* the networks a user may enter
    Catalogs,   \* the catalogues of artifacts the server may have
    Chip,
    Floor,      \* the security version of the firmware that was installed last
    MaxNonce,   \* bound on the requests of a page
    MaxInFlight \* bound on the requests that are under way

VARIABLES
    session,    \* RecoverySession
    wifi,       \* RecoveryState: the request for a network, and whether one is connected
    link,       \* the network Wi-Fi is connected to
    connecting, \* the network the main loop connects to
    board,      \* RecoveryState: the board that is selected
    bundle,     \* RecoveryState: the request for a bundle, the status and the items
    job,        \* the download in progress
    staged,     \* what is in the directory of downloads
    asked,      \* history: the board that was selected when the bundle was asked for
    switched,   \* history: it was selected anew before the main loop saw the request
    installed,  \* history: the last bundle that was installed
    page,       \* what each browser shows
    inFlight,   \* the requests that are under way
    power       \* "restarting": a second later it is "off"

Portal == INSTANCE RecoveryPortal

\* The words for no board and no network are neither.
PortalAssumption == "none" \notin Known \cup Listed /\ "none" \notin Networks

\* What is known of the networks, and that only a network is asked for.
WifiTypes ==
    /\ wifi \in [request : Networks \cup {"none"}, connected : BOOLEAN]
    /\ connecting \in Networks \cup {"none"}
    /\ \A r \in inFlight : r.kind = "wifi" => r.argument \in Networks

\* The invariant of the network.
WifiInv == WifiTypes /\ Portal!ConnectionIsBelieved

\* What the main loop takes up was selected when it was asked for.
JobInv ==
    /\ board \in Portal!Boards \cup {"none"} /\ switched \in BOOLEAN
    /\ bundle = [request |-> bundle.request, status |-> bundle.status, items |-> bundle.items]
    /\ bundle.request \in BOOLEAN
    /\ job = [phase |-> job.phase, board |-> job.board, todo |-> job.todo]
    /\ ~(bundle.request /\ job # Portal!NoJob)
    /\ bundle.request => board # "none"
    /\ bundle.request /\ ~switched => board = asked
    /\ job # Portal!NoJob => job.board # "none" /\ job.phase # "none"
    /\ bundle.status = "complete" => installed.board # "none"
    /\ Portal!StatusIsOfAJob /\ Portal!InstallsWhatWasAsked

\* A page has its fields, and one that shows the end saw it.
PageInv ==
    /\ page = [p \in Pages |-> [token |-> page[p].token, nonce |-> page[p].nonce,
                                chosen |-> page[p].chosen, shows |-> page[p].shows]]
    /\ Portal!DoneMeansInstalled

\* The inductive invariant of the portal.
PortalInv == WifiInv /\ JobInv /\ PageInv

\* One page changes, and shows the end only if there is one.
LEMMA PageSet ==
    ASSUME PageInv, NEW p \in Pages, NEW q, page' = [page EXCEPT ![p] = q], UNCHANGED installed,
           q = [token |-> q.token, nonce |-> q.nonce, chosen |-> q.chosen, shows |-> q.shows],
           q.shows = "done" => installed.board # "none"
    PROVE  PageInv'
<1>1. DOMAIN page = Pages
  BY DEF PageInv
<1>2. \A r \in Pages : page'[r] = IF r = p THEN q ELSE page[r]
  BY <1>1
<1>3. page' = [r \in Pages |-> page'[r]]
  BY <1>1
<1>4. \A r \in Pages : page'[r] = [token |-> page'[r].token, nonce |-> page'[r].nonce,
                                   chosen |-> page'[r].chosen, shows |-> page'[r].shows]
  BY <1>2 DEF PageInv
<1>5. Portal!DoneMeansInstalled'
  BY <1>2 DEF PageInv, Portal!DoneMeansInstalled
<1> QED
  BY <1>3, <1>4, <1>5 DEF PageInv

\* A page is left, or takes up the answer to a download.
LEMMA AnsweredKeeps ==
    ASSUME PageInv, NEW r, NEW ok, Portal!Answered(r, ok), UNCHANGED installed
    PROVE  PageInv'
<1>1. CASE UNCHANGED page
  BY <1>1 DEF PageInv, Portal!DoneMeansInstalled
<1>2. CASE r.page \notin Pages
  <2>1. UNCHANGED page
    BY <1>2 DEF Portal!Answered, PageInv
  <2> QED
    BY <1>1, <2>1
<1>3. CASE r.page \in Pages /\ ~UNCHANGED page
  <2> DEFINE p == r.page
             q == [page[p] EXCEPT !.shows = IF ok THEN "polling" ELSE "choice"]
  <2>1. page' = [page EXCEPT ![p] = q]
    BY <1>3 DEF Portal!Answered
  <2>2. page[p] = [token |-> page[p].token, nonce |-> page[p].nonce, chosen |-> page[p].chosen,
                   shows |-> page[p].shows]
    BY <1>3 DEF PageInv
  <2>3. /\ q = [token |-> q.token, nonce |-> q.nonce, chosen |-> q.chosen, shows |-> q.shows]
        /\ q.shows # "done"
    BY <2>2
  <2> HIDE DEF q
  <2> QED
    BY <1>3, <2>1, <2>3, PageSet
<1> QED
  BY <1>1, <1>2, <1>3

\* authFetch: the page keeps what it shows, or shows something else than the end.
LEMMA FetchKeeps ==
    ASSUME PortalInv, NEW p \in Pages, NEW kind, NEW argument, NEW after,
           Portal!AuthFetch(p, kind, argument, after), kind = "wifi" => argument \in Networks,
           after = [token |-> after.token, nonce |-> after.nonce, chosen |-> after.chosen,
                    shows |-> after.shows],
           after.shows = "done" => installed.board # "none"
    PROVE  PortalInv'
<1> DEFINE q == [after EXCEPT !.nonce = page[p].nonce + 1]
<1>1. /\ inFlight' = inFlight \cup {Portal!Request(p, kind, argument, page[p].nonce)}
      /\ page' = [page EXCEPT ![p] = q]
      /\ UNCHANGED <<Portal!state, Portal!work, power>>
  BY DEF Portal!AuthFetch
<1>2. /\ q = [token |-> q.token, nonce |-> q.nonce, chosen |-> q.chosen, shows |-> q.shows]
      /\ q.shows = after.shows
  OBVIOUS
<1>3. PageInv'
  <2> HIDE DEF q
  <2> QED
    BY <1>1, <1>2, PageSet DEF PortalInv, Portal!work
<1>4. UNCHANGED <<wifi, link, connecting, board, bundle, job, asked, switched, installed>>
  BY <1>1 DEF Portal!state, Portal!work
<1>5. JobInv'
  BY <1>4 DEF PortalInv, JobInv, Portal!StatusIsOfAJob, Portal!InstallsWhatWasAsked
<1>6. WifiInv'
  BY <1>1, <1>4 DEF PortalInv, WifiInv, WifiTypes, Portal!ConnectionIsBelieved, Portal!Request
<1> QED
  BY <1>3, <1>5, <1>6 DEF PortalInv

\* What the browser does of its own.
LEMMA BrowserKeeps ==
    ASSUME PortalInv, NEW p \in Pages,
           \/ Portal!LoadPage(p) \/ Portal!RefreshBoards(p) \/ Portal!PickBoard(p)
           \/ Portal!ConnectWifi(p) \/ Portal!SelectBoard(p) \/ Portal!StartInstall(p)
           \/ Portal!PollBundle(p) \/ Portal!AskReboot(p)
    PROVE  PortalInv'
<1>1. /\ page[p] = [token |-> page[p].token, nonce |-> page[p].nonce, chosen |-> page[p].chosen,
                    shows |-> page[p].shows]
      /\ page[p].shows = "done" => installed.board # "none"
  BY DEF PortalInv, PageInv, Portal!DoneMeansInstalled
<1>2. Portal!ShowsJob = "done" => installed.board # "none"
  BY DEF Portal!ShowsJob, PortalInv, JobInv
<1>3. ASSUME UNCHANGED <<Portal!state, Portal!work>>, PageInv',
             \A r \in inFlight' : r \in inFlight \/ r.kind # "wifi"
      PROVE  PortalInv'
  <2>1. UNCHANGED <<wifi, link, connecting, board, bundle, job, asked, switched, installed>>
    BY <1>3 DEF Portal!state, Portal!work
  <2>2. JobInv'
    BY <2>1 DEF PortalInv, JobInv, Portal!StatusIsOfAJob, Portal!InstallsWhatWasAsked
  <2>3. WifiInv'
    BY <1>3, <2>1 DEF PortalInv, WifiInv, WifiTypes, Portal!ConnectionIsBelieved
  <2> QED
    BY <1>3, <2>2, <2>3 DEF PortalInv
<1>4. CASE Portal!LoadPage(p)
  <2> DEFINE q == IF board = "none" THEN Portal!Loaded
                  ELSE [Portal!Loaded EXCEPT !.nonce = session.last + 2]
  <2>0. page' = [page EXCEPT ![p] = q]
    BY <1>4 DEF Portal!LoadPage
  <2>1. /\ q = [token |-> q.token, nonce |-> q.nonce, chosen |-> q.chosen, shows |-> q.shows]
        /\ q.shows = Portal!ShowsJob
    BY DEF Portal!Loaded
  <2>2. /\ UNCHANGED <<Portal!state, Portal!work>>
        /\ \A r \in inFlight' : r \in inFlight \/ r.kind # "wifi"
    BY <1>4 DEF Portal!LoadPage
  <2>3. PageInv'
    <3> HIDE DEF q
    <3> QED
      BY <1>2, <2>0, <2>1, <2>2, PageSet DEF PortalInv, Portal!work
  <2> QED
    BY <1>3, <2>2, <2>3
<1>5. CASE Portal!RefreshBoards(p)
  <2> DEFINE after == [page[p] EXCEPT !.chosen = board,
                         !.shows = IF Portal!ShowsJob = "choice" THEN @ ELSE Portal!ShowsJob]
  <2>1. Portal!AuthFetch(p, "select", board, after)
    BY <1>5 DEF Portal!RefreshBoards
  <2>2. /\ after = [token |-> after.token, nonce |-> after.nonce, chosen |-> after.chosen,
                    shows |-> after.shows]
        /\ after.shows = "done" => installed.board # "none"
    <3> DEFINE mid == [page[p] EXCEPT !.chosen = board]
               last == [mid EXCEPT !.shows = IF Portal!ShowsJob = "choice" THEN mid.shows
                                             ELSE Portal!ShowsJob]
    <3>1. after = last
      OBVIOUS
    <3>2. /\ mid = [token |-> mid.token, nonce |-> mid.nonce, chosen |-> mid.chosen,
                    shows |-> mid.shows]
          /\ mid.shows = page[p].shows
      BY <1>1
    <3>3. /\ last = [token |-> last.token, nonce |-> last.nonce, chosen |-> last.chosen,
                     shows |-> last.shows]
          /\ last.shows \in {mid.shows, Portal!ShowsJob}
      <4> HIDE DEF mid
      <4> QED
        BY <3>2
    <3> QED
      <4> HIDE DEF after, mid, last
      <4> QED
        BY <1>1, <1>2, <3>1, <3>2, <3>3
  <2> HIDE DEF after
  <2> QED
    BY <2>1, <2>2, FetchKeeps
<1>6. CASE Portal!PickBoard(p)
  <2>1. PICK b : /\ page' = [page EXCEPT ![p].chosen = b]
                 /\ UNCHANGED <<Portal!state, Portal!work, inFlight>>
    BY <1>6 DEF Portal!PickBoard
  <2> DEFINE q == [page[p] EXCEPT !.chosen = b]
  <2>2. /\ page' = [page EXCEPT ![p] = q]
        /\ q = [token |-> q.token, nonce |-> q.nonce, chosen |-> q.chosen, shows |-> q.shows]
        /\ q.shows = page[p].shows
    BY <1>1, <2>1
  <2>3. PageInv'
    <3> HIDE DEF q
    <3> QED
      BY <1>1, <2>1, <2>2, PageSet DEF PortalInv, Portal!work
  <2> QED
    BY <1>3, <2>1, <2>3
<1>7. CASE Portal!PollBundle(p)
  <2> DEFINE s == IF bundle.status = "complete" THEN "done" ELSE "choice"
  <2>1. page' = [page EXCEPT ![p].shows = s] /\ UNCHANGED <<Portal!state, Portal!work, inFlight>>
    BY <1>7 DEF Portal!PollBundle
  <2> DEFINE q == [page[p] EXCEPT !.shows = s]
  <2>2. /\ page' = [page EXCEPT ![p] = q]
        /\ q = [token |-> q.token, nonce |-> q.nonce, chosen |-> q.chosen, shows |-> q.shows]
        /\ q.shows = s
    BY <1>1, <2>1
  <2>3. PageInv'
    <3> HIDE DEF q
    <3> QED
      BY <2>1, <2>2, PageSet DEF PortalInv, JobInv, Portal!work
  <2> QED
    BY <1>3, <2>1, <2>3
<1>8. CASE Portal!StartInstall(p)
  <2> DEFINE after == [page[p] EXCEPT !.shows = "asking"]
  <2>1. Portal!AuthFetch(p, "download", "none", after)
    BY <1>8 DEF Portal!StartInstall
  <2>2. /\ after = [token |-> after.token, nonce |-> after.nonce, chosen |-> after.chosen,
                    shows |-> after.shows]
        /\ after.shows # "done"
    BY <1>1
  <2> HIDE DEF after
  <2> QED
    BY <2>1, <2>2, FetchKeeps
<1>9. CASE Portal!ConnectWifi(p) \/ Portal!SelectBoard(p) \/ Portal!AskReboot(p)
  BY <1>1, <1>9, FetchKeeps DEF Portal!ConnectWifi, Portal!SelectBoard, Portal!AskReboot
<1> QED
  BY <1>4, <1>5, <1>6, <1>7, <1>8, <1>9

\* The handler that selects a board.
LEMMA SelectKeeps ==
    ASSUME PortalInv, PortalAssumption, NEW r, Portal!HandleSelect(r)
    PROVE  JobInv'
<1>1. UNCHANGED <<bundle, job, asked, installed>>
  BY DEF Portal!HandleSelect
<1>2. CASE UNCHANGED <<board, switched>>
  BY <1>1, <1>2 DEF PortalInv, JobInv, Portal!StatusIsOfAJob, Portal!InstallsWhatWasAsked
<1>3. CASE /\ Portal!BoardIsSelectable(r.argument) /\ board' = r.argument
           /\ switched' = (switched \/ (bundle.request /\ r.argument # board))
  <2>1. board' \in Portal!Boards /\ board' # "none"
    BY <1>3 DEF Portal!BoardIsSelectable, Portal!IsListed, Portal!Boards, PortalAssumption
  <2>2. switched' \in BOOLEAN /\ (~switched' => ~switched /\ (bundle.request => board' = board))
    BY <1>3 DEF PortalInv, JobInv
  <2> QED
    BY <1>1, <2>1, <2>2 DEF PortalInv, JobInv, Portal!StatusIsOfAJob, Portal!InstallsWhatWasAsked
<1> QED
  BY <1>2, <1>3 DEF Portal!HandleSelect

\* The handler that asks for a bundle.
LEMMA DownloadKeeps ==
    ASSUME PortalInv, NEW r, Portal!HandleDownload(r)
    PROVE  JobInv'
<1>1. UNCHANGED <<board, job, installed>>
  BY DEF Portal!HandleDownload
<1>2. CASE UNCHANGED <<bundle, asked, switched>>
  BY <1>1, <1>2 DEF PortalInv, JobInv, Portal!StatusIsOfAJob, Portal!InstallsWhatWasAsked
<1>3. CASE /\ board # "none" /\ bundle.status # "downloading"
           /\ bundle' = [bundle EXCEPT !.request = TRUE, !.status = "downloading"]
           /\ asked' = board /\ switched' = FALSE
  <2>1. job = Portal!NoJob
    BY <1>3 DEF PortalInv, JobInv, Portal!StatusIsOfAJob
  <2>2. /\ bundle' = [request |-> bundle'.request, status |-> bundle'.status,
                      items |-> bundle'.items]
        /\ bundle'.request = TRUE /\ bundle'.status = "downloading"
    <3>1. bundle = [request |-> bundle.request, status |-> bundle.status, items |-> bundle.items]
      BY DEF PortalInv, JobInv
    <3> QED
      BY <1>3, <3>1
  <2> QED
    BY <1>1, <1>3, <2>1, <2>2
       DEF PortalInv, JobInv, Portal!StatusIsOfAJob, Portal!InstallsWhatWasAsked
<1> QED
  BY <1>2, <1>3 DEF Portal!HandleDownload

\* The handlers of the requests, and a request that is lost; the two that the job and the
\* network hang on leave everything else of them alone.
LEMMA RequestKeeps ==
    ASSUME PortalInv, PortalAssumption, NEW r \in inFlight,
           Portal!Handle(r) \/ Portal!LoseRequest(r)
    PROVE  PortalInv'
<1>1. installed' = installed /\ inFlight' = inFlight \ {r}
  BY DEF Portal!Handle, Portal!LoseRequest, Portal!Refuse, Portal!HandleWifi, Portal!HandleSelect,
     Portal!HandleDownload, Portal!HandleReboot, Portal!work
<1>2. PageInv'
  <2>1. UNCHANGED page \/ \E ok \in BOOLEAN : Portal!Answered(r, ok)
    BY DEF Portal!Handle, Portal!LoseRequest, Portal!Refuse, Portal!HandleWifi,
       Portal!HandleSelect, Portal!HandleDownload, Portal!HandleReboot
  <2>2. CASE UNCHANGED page
    BY <1>1, <2>2 DEF PortalInv, PageInv, Portal!DoneMeansInstalled
  <2> QED
    BY <1>1, <2>1, <2>2, AnsweredKeeps DEF PortalInv
<1>3. WifiInv'
  <2>1. CASE Portal!HandleWifi(r)
    <3>1. wifi' = [request |-> r.argument, connected |-> FALSE] /\ UNCHANGED <<link, connecting>>
          /\ r.argument \in Networks
      BY <2>1 DEF Portal!HandleWifi, PortalInv, WifiInv, WifiTypes
    <3> QED
      BY <1>1, <3>1 DEF PortalInv, WifiInv, WifiTypes, Portal!ConnectionIsBelieved
  <2>2. CASE ~Portal!HandleWifi(r)
    <3>1. UNCHANGED <<wifi, link, connecting>>
      BY <2>2 DEF Portal!Handle, Portal!LoseRequest, Portal!Refuse, Portal!HandleSelect,
         Portal!HandleDownload, Portal!HandleReboot, Portal!state
    <3> QED
      BY <1>1, <3>1 DEF PortalInv, WifiInv, WifiTypes, Portal!ConnectionIsBelieved
  <2> QED
    BY <2>1, <2>2
<1>4. JobInv'
  <2>1. CASE ~(Portal!HandleSelect(r) \/ Portal!HandleDownload(r))
    <3>1. UNCHANGED <<board, bundle, job, asked, switched, installed>>
      BY <2>1 DEF Portal!Handle, Portal!LoseRequest, Portal!Refuse, Portal!HandleWifi,
         Portal!HandleReboot, Portal!state, Portal!work
    <3> QED
      BY <3>1 DEF PortalInv, JobInv, Portal!StatusIsOfAJob, Portal!InstallsWhatWasAsked
  <2> QED
    BY <2>1, SelectKeeps, DownloadKeeps
<1> QED
  BY <1>2, <1>3, <1>4 DEF PortalInv

\* The main loop and the network (do_wifi_connect), and the end of the session.
LEMMA LoopKeeps ==
    ASSUME PortalInv, PortalAssumption,
           \/ Portal!TakeWifiRequest \/ Portal!WifiConnected \/ Portal!LoseNetwork
           \/ Portal!Restart \/ Portal!Expire \/ UNCHANGED Portal!vars
    PROVE  PortalInv'
<1>1. UNCHANGED <<board, bundle, job, asked, switched, installed, page, inFlight>>
  BY DEF Portal!TakeWifiRequest, Portal!WifiConnected, Portal!LoseNetwork, Portal!Restart,
     Portal!Expire, Portal!vars, Portal!state, Portal!work
<1>2. JobInv' /\ PageInv'
  BY <1>1 DEF PortalInv, JobInv, PageInv, Portal!StatusIsOfAJob, Portal!InstallsWhatWasAsked,
     Portal!DoneMeansInstalled
<1>3. wifi = [request |-> wifi.request, connected |-> wifi.connected] /\ wifi.connected \in BOOLEAN
  BY DEF PortalInv, WifiInv, WifiTypes
<1>4. WifiInv'
  <2>1. CASE Portal!TakeWifiRequest
    <3>1. /\ wifi.request \in Networks /\ connecting' = wifi.request
          /\ wifi' = [request |-> "none", connected |-> wifi.connected]
      BY <1>3, <2>1 DEF Portal!TakeWifiRequest, PortalInv, WifiInv, WifiTypes
    <3> QED
      BY <1>1, <1>3, <3>1
         DEF PortalInv, WifiInv, WifiTypes, Portal!ConnectionIsBelieved, PortalAssumption
  <2>2. CASE Portal!WifiConnected
    <3>1. PICK c \in BOOLEAN : wifi' = [request |-> wifi.request, connected |-> c]
                               /\ (c => link' = connecting)
      <4>1. CASE link' = connecting /\ wifi' = [wifi EXCEPT !.connected = TRUE]
        BY <1>3, <4>1
      <4>2. CASE wifi' = [wifi EXCEPT !.connected = FALSE]
        BY <1>3, <4>2
      <4> QED
        BY <2>2, <4>1, <4>2 DEF Portal!WifiConnected
    <3>2. connecting # "none" /\ connecting' = "none"
      BY <2>2 DEF Portal!WifiConnected
    <3> QED
      BY <1>1, <3>1, <3>2 DEF PortalInv, WifiInv, WifiTypes, Portal!ConnectionIsBelieved
  <2>3. CASE Portal!LoseNetwork
    BY <1>1, <2>3 DEF Portal!LoseNetwork, PortalInv, WifiInv, WifiTypes, Portal!ConnectionIsBelieved
  <2>4. CASE Portal!Restart \/ Portal!Expire \/ UNCHANGED Portal!vars
    <3>1. UNCHANGED <<wifi, link, connecting>>
      BY <2>4 DEF Portal!Restart, Portal!Expire, Portal!vars, Portal!state
    <3> QED
      BY <1>1, <3>1 DEF PortalInv, WifiInv, WifiTypes, Portal!ConnectionIsBelieved
  <2> QED
    BY <2>1, <2>2, <2>3, <2>4
<1> QED
  BY <1>2, <1>4 DEF PortalInv

\* The job, from the request that the main loop takes up to its end (poll_web_state).
LEMMA JobKeeps ==
    ASSUME PortalInv,
           \/ Portal!TakeBundleRequest \/ Portal!FetchCatalog \/ Portal!FetchArtifact
           \/ Portal!InstallBundle \/ Portal!JobFails
    PROVE  PortalInv'
<1>1. UNCHANGED <<wifi, link, connecting, board, asked, switched, page, inFlight>>
  BY DEF Portal!TakeBundleRequest, Portal!FetchCatalog, Portal!FetchArtifact, Portal!InstallBundle,
     Portal!JobFails, Portal!DownloadState
<1>2. WifiInv'
  BY <1>1 DEF PortalInv, WifiInv, WifiTypes, Portal!ConnectionIsBelieved
<1>3. JobInv' /\ (installed' = installed \/ installed'.board # "none")
  <2>1. CASE Portal!TakeBundleRequest
    <3>1. bundle' = [request |-> FALSE, status |-> bundle.status, items |-> bundle.items]
          /\ bundle.request /\ job' = [phase |-> "catalog", board |-> board, todo |-> <<>>]
          /\ installed' = installed
      BY <2>1 DEF Portal!TakeBundleRequest, PortalInv, JobInv
    <3>2. job' # Portal!NoJob /\ job'.board = board /\ job'.phase = "catalog"
          /\ job' = [phase |-> job'.phase, board |-> job'.board, todo |-> job'.todo]
      BY <3>1 DEF Portal!NoJob
    <3> QED
      BY <1>1, <3>1, <3>2
         DEF PortalInv, JobInv, Portal!StatusIsOfAJob, Portal!InstallsWhatWasAsked
  <2>2. ASSUME Portal!FetchCatalog \/ Portal!FetchArtifact
        PROVE  JobInv' /\ installed' = installed
    <3>1. job = [phase |-> job.phase, board |-> job.board, todo |-> job.todo]
      BY DEF PortalInv, JobInv
    <3>2. /\ job.phase \in {"catalog", "files"} /\ job'.phase = "files" /\ job'.board = job.board
          /\ job' = [phase |-> job'.phase, board |-> job'.board, todo |-> job'.todo]
          /\ UNCHANGED <<bundle, installed>>
      <4>1. CASE Portal!FetchCatalog
        <5>1. PICK c \in Catalogs :
                  job' = [job EXCEPT !.phase = "files", !.todo = Portal!Selected(c, job.board)]
          BY <4>1 DEF Portal!FetchCatalog
        <5>2. /\ job'.phase = "files" /\ job'.board = job.board
              /\ job' = [phase |-> job'.phase, board |-> job'.board, todo |-> job'.todo]
          BY <3>1, <5>1
        <5> QED
          BY <4>1, <5>2 DEF Portal!FetchCatalog
      <4>2. CASE Portal!FetchArtifact
        <5>1. job.phase = "files" /\ job' = [job EXCEPT !.todo = Tail(job.todo)]
              /\ UNCHANGED <<bundle, installed>>
          BY <4>2 DEF Portal!FetchArtifact
        <5> QED
          BY <3>1, <5>1
      <4> QED
        BY <2>2, <4>1, <4>2
    <3>3. job # Portal!NoJob /\ job' # Portal!NoJob
      BY <3>2 DEF Portal!NoJob
    <3> QED
      BY <1>1, <3>2, <3>3
         DEF PortalInv, JobInv, Portal!StatusIsOfAJob, Portal!InstallsWhatWasAsked
  <2>3. ASSUME Portal!InstallBundle \/ Portal!JobFails
        PROVE  JobInv' /\ (installed' = installed \/ installed'.board # "none")
    <3>1. /\ job # Portal!NoJob /\ job' = Portal!NoJob
          /\ bundle'.status = "complete" => installed'.board = job.board
          /\ bundle'.status # "complete" => installed' = installed
          /\ bundle'.request = bundle.request /\ bundle'.status \in {"complete", "error"}
          /\ bundle' = [request |-> bundle'.request, status |-> bundle'.status,
                        items |-> bundle'.items]
      <4>1. bundle = [request |-> bundle.request, status |-> bundle.status, items |-> bundle.items]
        BY DEF PortalInv, JobInv
      <4>2. CASE Portal!InstallBundle
        <5>1. job # Portal!NoJob /\ job' = Portal!NoJob
          BY <4>2 DEF Portal!InstallBundle, Portal!NoJob
        <5>2. installed'.board = job.board
          BY <4>2 DEF Portal!InstallBundle
        <5>3. bundle' = [bundle EXCEPT !.status = "complete", !.items = Len(staged)]
          BY <4>2 DEF Portal!InstallBundle
        <5> QED
          BY <4>1, <5>1, <5>2, <5>3
      <4>3. CASE Portal!JobFails
        <5>1. job # Portal!NoJob /\ job' = Portal!NoJob /\ installed' = installed
          BY <4>3 DEF Portal!JobFails
        <5>2. bundle' = [bundle EXCEPT !.status = "error", !.items = 0]
          BY <4>3 DEF Portal!JobFails
        <5> QED
          BY <4>1, <5>1, <5>2
      <4> QED
        BY <2>3, <4>2, <4>3
    <3>3. job' = [phase |-> job'.phase, board |-> job'.board, todo |-> job'.todo]
      BY <3>1 DEF Portal!NoJob
    <3>4. installed' = installed \/ installed'.board # "none"
      BY <3>1 DEF PortalInv, JobInv
    <3>5. bundle'.status = "complete" => installed'.board # "none"
      BY <3>1 DEF PortalInv, JobInv
    <3> QED
      BY <1>1, <3>1, <3>3, <3>4, <3>5
         DEF PortalInv, JobInv, Portal!StatusIsOfAJob, Portal!InstallsWhatWasAsked
  <2> QED
    BY <2>1, <2>2, <2>3
<1>4. PageInv'
  BY <1>1, <1>3 DEF PortalInv, PageInv, Portal!DoneMeansInstalled
<1> QED
  BY <1>2, <1>3, <1>4 DEF PortalInv

\* Every step of the portal keeps the invariant.
LEMMA PortalInvInductive ==
    ASSUME PortalAssumption
    PROVE  /\ Portal!Init => PortalInv
           /\ PortalInv /\ [Portal!Next]_(Portal!vars) => PortalInv'
<1>1. ASSUME Portal!Init PROVE PortalInv
  <2>1. WifiInv
    BY <1>1 DEF Portal!Init, WifiInv, WifiTypes, Portal!ConnectionIsBelieved
  <2>2. JobInv
    BY <1>1 DEF Portal!Init, Portal!NoJob, JobInv, Portal!StatusIsOfAJob,
       Portal!InstallsWhatWasAsked
  <2>3. PageInv
    BY <1>1 DEF Portal!Init, Portal!Closed, PageInv, Portal!DoneMeansInstalled
  <2> QED
    BY <2>1, <2>2, <2>3 DEF PortalInv
<1>2. ASSUME PortalInv, [Portal!Next]_(Portal!vars) PROVE PortalInv'
  BY <1>2, BrowserKeeps, RequestKeeps, LoopKeeps, JobKeeps DEF Portal!Next
<1> QED
  BY <1>1, <1>2

\* A bundle is shown to be downloading just while the main loop has it or will take it; what
\* is installed is for the board that was selected when it was asked for, unless another was
\* selected before the main loop saw the request; the device says that it is connected only
\* if its last connect succeeded; and a page that counts down to the restart saw a bundle
\* that was installed (recovery_web.rs, main.rs): for any pages, boards, networks and
\* catalogues, and requests in any order.
THEOREM PortalTellsTheTruth ==
    ASSUME PortalAssumption
    PROVE  Portal!Spec => [](/\ Portal!StatusIsOfAJob /\ Portal!InstallsWhatWasAsked
                             /\ Portal!ConnectionIsBelieved /\ Portal!DoneMeansInstalled)
<1>1. PortalInv => /\ Portal!StatusIsOfAJob /\ Portal!InstallsWhatWasAsked
                   /\ Portal!ConnectionIsBelieved /\ Portal!DoneMeansInstalled
  BY DEF PortalInv, WifiInv, JobInv, PageInv
<1> QED
  BY <1>1, PortalInvInductive, PTL DEF Portal!Spec
=============================================================================
