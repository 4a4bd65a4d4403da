--------------------------- MODULE PackageInstall ---------------------------
(***************************************************************************)
(* What the app store does to the SD card (appstore_client.rs and          *)
(* tap_installer.rs, called by the install button of tk_appstore.rs):      *)
(*                                                                         *)
(*   - a driver, a window manager or a firmware image replaces the file of *)
(*     that name, together with its signature when the catalog has one     *)
(*     (StagedFile, atomic_replace, atomic_replace_pair);                  *)
(*   - an app package (TAP) is unpacked into a staging directory, which    *)
(*     becomes generations/<release>, and active.json is pointed at it.    *)
(*                                                                         *)
(* The two halves share the downloads.  One action is one operation on the *)
(* card, so that a power loss (Crash) or an error may fall between any     *)
(* two.  The names of temporary files are never taken twice: create_new    *)
(* and exists() see to that; those of staging directories may be.          *)
(*                                                                         *)
(* The card is FatFs on the device, where rename does not replace a file   *)
(* that exists, and a POSIX directory in the simulator, where it does.     *)
(***************************************************************************)
EXTENDS Naturals

CONSTANTS
    MaxVersion,  \* bound: versions of a driver, and releases of an app
    FileSystems, \* where the card is: "fat", "posix"
    Entries,     \* files of a package
    MaxStages,   \* bound: staging directories made between two restarts
    MaxFaults    \* bound: power losses and errors of the card

ASSUME BoundsAssumption ==
    /\ MaxVersion \in Nat /\ Entries \in Nat \ {0} /\ MaxStages \in Nat /\ MaxFaults \in Nat
    /\ FileSystems \subseteq {"fat", "posix"}

Releases == 1 .. MaxVersion
None == 0
Versions == Releases \cup {None}

VARIABLES
    fs,
    \* -- a driver (a window manager, a firmware image) on the card ----------
    file,        \* "payload", "signature" -> the version at the destination
    backup,      \* the same, moved aside by the replacement under way
    debris,      \* backups that a power loss left behind
    \* -- an app on the card ------------------------------------------------
    generation,  \* release -> files in generations/<release>
    stages,      \* staging directories: <<release, number>>
    active,      \* what active.json points at
    \* -- the running program ----------------------------------------------
    pc,
    entry,       \* the catalog entry being installed
    extracted,   \* entries of the package extracted so far
    stageSeq,    \* STAGE_SEQUENCE
    result,      \* what the last install returned
    \* -- history -----------------------------------------------------------
    before,      \* file, when the last install began
    live,        \* the version that was last put in place
    excuse,      \* why payload and signature may differ
    faults

card == <<file, backup, debris>>
tap == <<generation, stages, active, extracted, stageSeq>>
history == <<before, live, excuse>>
vars == <<fs, card, tap, pc, entry, result, history, faults>>

Parts == {"payload", "signature"}
NoFiles == [p \in Parts |-> None]
CatalogEntries == [kind : {"app", "driver"}, version : Releases, signed : BOOLEAN]

Downloading == {"fetch", "fetch signature", "verify"}
Replacing == {"back up payload", "back up signature", "commit signature", "commit payload"}
Undoing == {"remove signature", "restore signature", "restore payload"}
Unpacking == {"archive", "manifest", "check", "stage", "extract", "recheck", "publish", "point", "discard"}

TypeOK ==
    /\ fs \in FileSystems
    /\ file \in [Parts -> Versions] /\ backup \in [Parts -> Versions]
    /\ before \in [Parts -> Versions] /\ live \in Versions
    /\ debris \subseteq Parts \X Releases
    /\ generation \in [Releases -> 0 .. Entries]
    /\ stages \subseteq Releases \X (0 .. MaxStages)
    /\ active \in Versions
    /\ pc \in Downloading \cup Replacing \cup Undoing \cup Unpacking \cup {"idle", "tidy"}
    /\ entry \in CatalogEntries
    /\ extracted \in 0 .. Entries /\ stageSeq \in 0 .. MaxStages
    /\ result \in {"none", "ok", "refused", "exists", "io"}
    /\ excuse \in {"none", "unsigned", "undo"}
    /\ faults \in 0 .. MaxFaults

Init ==
    /\ fs \in FileSystems
    /\ file = NoFiles /\ backup = NoFiles /\ debris = {}
    /\ generation = [r \in Releases |-> 0] /\ stages = {} /\ active = None
    /\ pc = "idle"
    /\ entry \in CatalogEntries
    /\ extracted = 0 /\ stageSeq = 0
    /\ result = "none"
    /\ before = NoFiles /\ live = None /\ excuse = "none"
    /\ faults = 0

Goto(l) == pc' = l /\ UNCHANGED <<entry, result>>
Return(rc) == pc' = "idle" /\ result' = rc /\ UNCHANGED entry

Fault == faults < MaxFaults /\ faults' = faults + 1

-----------------------------------------------------------------------------
(* The catalog entry and its downloads                                     *)

\* The button of tk_appstore.rs was pressed for this entry.
Begin(kind) ==
    /\ pc = "idle"
    /\ entry' \in {e \in CatalogEntries : e.kind = kind}
    /\ before' = file
    /\ UNCHANGED <<fs, card, tap, live, excuse, faults>>

\* An entry without a sound id, hash, size or URL is refused at once.
InstallEntry ==
    /\ Begin("driver")
    /\ \/ pc' = "idle" /\ result' = "refused"
       \/ pc' = "fetch" /\ result' = "none"

\* For an app one without a signature or a release as well.
InstallTapEntry ==
    /\ Begin("app")
    /\ stageSeq < MaxStages
    /\ \/ pc' = "idle" /\ result' = "refused"
       \/ entry'.signed /\ pc' = "fetch" /\ result' = "none"

\* download_into_staged: the status, the length, the size and the hash are those
\* of the catalog, or the staged file is dropped.
Download ==
    /\ pc \in {"fetch", "fetch signature"}
    /\ \/ Return("refused")
       \/ Goto(IF pc = "fetch" /\ entry.signed THEN "fetch signature"
               ELSE IF pc = "fetch" THEN "back up payload" ELSE "verify")
    /\ UNCHANGED <<fs, card, tap, history, faults>>

\* signing_verify_file of the staged payload beside its staged signature
VerifyDownload ==
    /\ pc = "verify"
    /\ Return("refused") \/ Goto(IF entry.kind = "app" THEN "archive" ELSE "back up payload")
    /\ UNCHANGED <<fs, card, tap, history, faults>>

-----------------------------------------------------------------------------
(* Replacing a file, or a file and its signature                           *)

PartOf(step) ==
    IF step \in {"back up payload", "commit payload", "restore payload"}
    THEN "payload" ELSE "signature"

\* Whether this part of the old artifact has to be moved aside: a replacement
\* without a signature does not look at the old signature.
MovesAside(p) == before[p] # None /\ (p = "signature" => entry.signed)

AfterBackup(p) ==
    IF ~entry.signed THEN "commit payload"
    ELSE IF p = "payload" THEN "back up signature" ELSE "commit signature"

\* (mutant: what is in the way is deleted)
BackUpMutant ==
    /\ pc \in {"back up payload", "back up signature"}
    /\ LET p == PartOf(pc) IN
       /\ file' = (IF MovesAside(p) THEN [file EXCEPT ![p] = None] ELSE file)
       /\ Goto(AfterBackup(p))
    /\ UNCHANGED <<fs, backup, debris, tap, history, faults>>

BackUp ==
    /\ pc \in {"back up payload", "back up signature"}
    /\ LET p == PartOf(pc) IN
       /\ IF MovesAside(p)
          THEN /\ backup' = [backup EXCEPT ![p] = file[p]]
               /\ file' = [file EXCEPT ![p] = None]
          ELSE UNCHANGED <<file, backup>>
       /\ Goto(AfterBackup(p))
    /\ UNCHANGED <<fs, debris, tap, history, faults>>

CommitSignature ==
    /\ pc = "commit signature"
    /\ file' = [file EXCEPT !["signature"] = entry.version]
    /\ Goto("commit payload")
    /\ UNCHANGED <<fs, backup, debris, tap, history, faults>>

CommitPayload ==
    /\ pc = "commit payload"
    /\ file' = [file EXCEPT !["payload"] = entry.version]
    /\ live' = entry.version
    /\ excuse' = (IF entry.signed \/ file["signature"] = None THEN "none" ELSE "unsigned")
    /\ Goto("tidy")
    /\ UNCHANGED <<fs, backup, debris, tap, before, faults>>

\* The backups are deleted; what cannot be deleted stays, and nobody is told.
RemoveBackups ==
    /\ pc = "tidy"
    /\ backup' = NoFiles
    /\ \/ UNCHANGED <<debris, faults>>
       \/ Fault /\ debris' = debris \cup {<<p, backup[p]>> : p \in {q \in Parts : backup[q] # None}}
    /\ Return("ok")
    /\ UNCHANGED <<fs, file, tap, history>>

\* (mutant: a signature that is already in place is left there)
ReplaceFailsMutant ==
    /\ pc \in Replacing
    /\ Fault
    /\ Goto(IF entry.signed THEN "restore signature" ELSE "restore payload")
    /\ UNCHANGED <<fs, card, tap, history>>

\* A rename fails: what was moved is moved back, in the opposite order.
ReplaceFails ==
    /\ pc \in Replacing
    /\ Fault
    /\ Goto(IF ~entry.signed THEN "restore payload"
            ELSE IF pc = "commit payload" THEN "remove signature" ELSE "restore signature")
    /\ UNCHANGED <<fs, card, tap, history>>

\* An error in the course of that is ignored.
RemoveSignature ==
    /\ pc = "remove signature"
    /\ \/ /\ file' = [file EXCEPT !["signature"] = None]
          /\ UNCHANGED <<excuse, faults>>
       \/ Fault /\ excuse' = "undo" /\ UNCHANGED file
    /\ Goto("restore signature")
    /\ UNCHANGED <<fs, backup, debris, tap, before, live>>

\* (mutant: the old payload is restored and its signature is not)
RestoreMutant(p) == p = "payload" /\ backup[p] # None

\* Is there a backup to rename back, and may it be renamed?
Restores(p) == backup[p] # None

Restore ==
    /\ pc \in {"restore signature", "restore payload"}
    /\ LET p == PartOf(pc) IN
       /\ \/ /\ Restores(p) /\ (file[p] = None \/ fs = "posix")
             /\ file' = [file EXCEPT ![p] = backup[p]]
             /\ backup' = [backup EXCEPT ![p] = None]
             /\ UNCHANGED <<debris, excuse, faults>>
          \/ /\ Restores(p) /\ (file[p] # None /\ fs = "fat")
             /\ backup' = [backup EXCEPT ![p] = None]
             /\ debris' = debris \cup {<<p, backup[p]>>}
             /\ excuse' = "undo"
             /\ UNCHANGED <<file, faults>>
          \/ /\ Restores(p) /\ Fault
             /\ backup' = [backup EXCEPT ![p] = None]
             /\ debris' = debris \cup {<<p, backup[p]>>}
             /\ excuse' = "undo"
             /\ UNCHANGED file
          \/ ~Restores(p) /\ UNCHANGED <<card, excuse, faults>>
       /\ IF p = "signature" THEN Goto("restore payload") ELSE Return("io")
    /\ UNCHANGED <<fs, tap, before, live>>

-----------------------------------------------------------------------------
(* Unpacking an app                                                        *)

\* The directory that the installation under way has made.
Stage == <<entry.version, stageSeq - 1>>

Abandon(rc) == pc' = "discard" /\ result' = rc /\ UNCHANGED entry

\* read_entries: the files of the archive are stored, sorted and within bounds, and
\* the five that a package must have are there.
ReadArchive ==
    /\ pc = "archive"
    /\ Return("refused") \/ Goto("manifest")
    /\ UNCHANGED <<fs, card, tap, history, faults>>

\* validate_manifest: it is about this release of this app and about every file.
ValidateManifest ==
    /\ pc = "manifest"
    /\ Return("refused") \/ Goto("check")
    /\ UNCHANGED <<fs, card, tap, history, faults>>

\* (mutant: the comparison with the active release is missing)
CheckReleaseMutant ==
    /\ pc = "check"
    /\ \/ generation[entry.version] # 0 /\ Return("exists")
       \/ generation[entry.version] = 0 /\ Goto("stage")
    /\ UNCHANGED <<fs, card, tap, history, faults>>

\* A release that is on the card is not unpacked again, and none is that is
\* older than the active one.
CheckRelease ==
    /\ pc = "check"
    /\ \/ generation[entry.version] # 0 /\ Return("exists")
       \/ generation[entry.version] = 0 /\ entry.version < active /\ Return("refused")
       \/ generation[entry.version] = 0 /\ entry.version >= active /\ Goto("stage")
    /\ UNCHANGED <<fs, card, tap, history, faults>>

\* create_dir fails on a directory of that name.
MakeStage ==
    /\ pc = "stage"
    /\ stageSeq' = stageSeq + 1
    /\ \/ /\ <<entry.version, stageSeq>> \in stages
          /\ Return("io")
          /\ UNCHANGED <<stages, extracted>>
       \/ /\ <<entry.version, stageSeq>> \notin stages
          /\ stages' = stages \cup {<<entry.version, stageSeq>>}
          /\ extracted' = 0
          /\ Goto("extract")
    /\ UNCHANGED <<fs, card, generation, active, history, faults>>

\* (mutant: the loop runs once too often)
ExtractMutant ==
    /\ pc = "extract"
    /\ \/ /\ extracted <= Entries
          /\ extracted' = extracted + 1
          /\ UNCHANGED <<pc, entry, result>>
       \/ extracted > Entries /\ Goto("recheck") /\ UNCHANGED extracted
    /\ UNCHANGED <<fs, card, generation, stages, active, stageSeq, history, faults>>

\* Every entry with its checksum; then the archive and the ELF once more.
Extract ==
    /\ pc = "extract"
    /\ \/ /\ extracted < Entries
          /\ extracted' = extracted + 1
          /\ UNCHANGED <<pc, entry, result>>
       \/ extracted = Entries /\ Goto("recheck") /\ UNCHANGED extracted
       \/ Abandon("refused") /\ UNCHANGED extracted
    /\ UNCHANGED <<fs, card, generation, stages, active, stageSeq, history, faults>>

Recheck ==
    /\ pc = "recheck"
    /\ Goto("publish") \/ Abandon("refused")
    /\ UNCHANGED <<fs, card, tap, history, faults>>

Publish ==
    /\ pc = "publish"
    /\ generation' = [generation EXCEPT ![entry.version] = extracted]
    /\ stages' = stages \ {Stage}
    /\ Goto("point")
    /\ UNCHANGED <<fs, card, active, extracted, stageSeq, history, faults>>

\* .active.json.tmp is written and renamed to active.json.
Point ==
    /\ pc = "point"
    /\ \/ /\ fs = "posix" \/ active = None
          /\ active' = entry.version
          /\ Return("ok")
       \/ /\ fs = "fat" /\ active # None
          /\ Abandon("io")
          /\ UNCHANGED active
    /\ UNCHANGED <<fs, card, generation, stages, extracted, stageSeq, history, faults>>

UnpackFails ==
    /\ pc \in Unpacking \ {"discard"}
    /\ Fault
    /\ IF pc \in {"archive", "manifest", "check", "stage"} THEN Return("io") ELSE Abandon("io")
    /\ UNCHANGED <<fs, card, tap, history>>

\* remove_dir_all of the stage; an error of it is ignored.
Discard ==
    /\ pc = "discard"
    /\ \/ stages' = stages \ {Stage} /\ UNCHANGED faults
       \/ Fault /\ UNCHANGED stages
    /\ pc' = "idle"
    /\ UNCHANGED <<fs, card, generation, active, extracted, stageSeq, entry, result, history>>

-----------------------------------------------------------------------------
(* The device stops and starts                                             *)

\* Nothing on the card is looked after at the next start.
Crash ==
    /\ Fault
    /\ pc' = "idle" /\ result' = "none"
    /\ stageSeq' = 0 /\ extracted' = 0
    /\ backup' = NoFiles
    /\ debris' = debris \cup {<<p, backup[p]>> : p \in {q \in Parts : backup[q] # None}}
    /\ UNCHANGED <<fs, file, generation, stages, active, entry, history>>

\* The user switches an idle device off and on.
Restart ==
    /\ pc = "idle"
    /\ stageSeq' = 0 /\ extracted' = 0 /\ result' = "none"
    /\ UNCHANGED <<fs, card, generation, stages, active, pc, entry, history, faults>>

Replace == BackUp \/ CommitSignature \/ CommitPayload \/ RemoveBackups
           \/ ReplaceFails \/ RemoveSignature \/ Restore
Unpack == ReadArchive \/ ValidateManifest \/ CheckRelease \/ MakeStage \/ Extract
          \/ Recheck \/ Publish \/ Point \/ UnpackFails \/ Discard

Next ==
    \/ InstallEntry \/ InstallTapEntry \/ Download \/ VerifyDownload
    \/ Replace \/ Unpack \/ Crash \/ Restart

Spec == Init /\ [][Next]_vars

-----------------------------------------------------------------------------
(* Properties                                                              *)

\* A payload never lies beside the signature of another one, at any moment and
\* whatever fails, but for two cases: it was replaced by one that the catalog
\* has no signature for, or undoing a failed replacement failed as well
\* (atomic_replace_pair_with).
PairMatches ==
    file["payload"] # None /\ file["signature"] # None /\ file["payload"] # file["signature"]
        => excuse # "none"

\* An installation that returns an error leaves what was there before, unless
\* undoing it failed too (atomic_replace_with: "Retain the old artifact until the
\* verified staging file has been moved into place, restoring on error").
FailedInstallRestores ==
    pc = "idle" /\ result \in {"io", "refused", "exists"} /\ excuse # "undo" => file = before

\* The artifact that was last in place is never deleted before the next one is:
\* it is at its destination or under the name of a backup, also after a crash.
ArtifactSurvives ==
    live # None => \/ live \in {file["payload"], backup["payload"]}
                   \/ <<"payload", live>> \in debris

\* The three of them, at every moment, whatever fails and wherever the power goes
\* (atomic_replace_with, atomic_replace_pair_with).
ArtifactsAreSound == PairMatches /\ FailedInstallRestores /\ ArtifactSurvives

\* The active release only advances, to one that is on the card as a whole
\* (install_tap_with: "atomically activate it").
ActiveAdvances ==
    [][active' # active => active' > active /\ generation'[active'] = Entries]_vars

\* An app that is sound is installed, unless the card fails (appstore_client.h:
\* "verify both signatures and hashes, then atomically activate").
InstallActivates == result = "io" => faults > 0
=============================================================================
