------------------------------- MODULE ElfApps -------------------------------
(***************************************************************************)
(* Apps that are ELF files, on top of the app manager: the loader          *)
(* (elf_loader.rs) with the permissions it grants (permissions.rs), the    *)
(* symbols it binds and the files the apps open (syscall_table.rs).        *)
(*                                                                         *)
(* At boot every file is loaded and registered once.  From then on the app *)
(* manager calls on_create and on_destroy of an app, which start its task  *)
(* and unload its image; they run with the manager's mutex held, so each   *)
(* call of AppManager and what it does to images is one action.  The tasks *)
(* of the apps run between any two of those, and are deleted wherever they *)
(* are.                                                                    *)
(***************************************************************************)
EXTENDS AppManager, Sequences

CONSTANTS
    Files,       \* the files that the scan finds, see FileRecords
    Permissions, \* PERM_*; "ipc" is PERM_IPC
    Arch,        \* current_arch()
    NoFile,      \* an empty slot of the loader
    MaxImages,   \* MAX_LOADED_APPS
    MaxGrants,   \* MAX_APPS of permissions.rs
    Streams,     \* the FILE pointers that fopen may return
    MaxOpen      \* MAX_OPEN_APP_FILES

-----------------------------------------------------------------------------
(* The symbols that the kernel exports, by the families that permissions   *)
(* and visibility tell apart                                               *)

\* The thistle_* functions: "plain" are those that take no permission.
AppVisible == {"plain", "storage", "gps", "mesh", "radio", "ipc"}
UnsignedVisible == {"ipc"}

\* The registry of the hardware and the configuration of a driver; the scheduler
DriverFamilies == {"hal", "rtos"}
SyscallTable == AppVisible \cup DriverFamilies

NoPermission == "none"
PermissionOf(family) ==
    CASE family \in {"storage", "gps", "radio", "ipc"} -> family
      [] family = "mesh" -> "radio"
      [] OTHER -> NoPermission

-----------------------------------------------------------------------------
(* Manifests: the fields that the text has                                 *)

Field(json, key, default) == IF key \in DOMAIN json THEN json[key] ELSE default

\* A manifest without a type or an id is none at all.
Parses(json) ==
    /\ Field(json, "type", "") \in {"app", "driver", "firmware", "wm"}
    /\ "id" \in DOMAIN json

\* The permissions whose names occur in the text of the field
Asks(json) == Field(json, "permissions", {}) \cap Permissions

\* VERSION_MAJOR, VERSION_MINOR and VERSION_PATCH
Version == <<0, 5, 0>>
Satisfies(required) ==
    \/ required = Version
    \/ \E i \in 1 .. 3 : /\ Version[i] > required[i]
                         /\ \A j \in 1 .. i - 1 : Version[j] = required[j]

IsCompatible(json) ==
    /\ Field(json, "arch", Arch) = Arch
    /\ Satisfies(Field(json, "min_os", Version))

\* A file of the card: the text of its manifest, a signature, and the families
\* of the symbols that it imports
FileRecords ==
    [path : STRING, signature : {"valid", "none", "broken"}, imports : SUBSET STRING]

ASSUME FilesAssumption ==
    /\ \A f \in Files : [g \in {"path", "signature", "imports"} |-> f[g]] \in FileRecords
    /\ \A f \in Files : Parses(f.json) => f.json.id \in Apps \ Launchers
    /\ NoFile \notin Files
    /\ "ipc" \in Permissions /\ NoPermission \notin Permissions
    /\ MaxImages \in Nat /\ MaxGrants \in Nat /\ MaxOpen \in Nat

\* APP_SLOTS_MAX is 20: there is a slot for every image and the built-in apps, so
\* that registering an image never fails.
ASSUME RoomAssumption == MaxSlots >= MaxImages + Cardinality(Launchers)

VARIABLES
    debug,    \* a debug build?
    scan,     \* files that the scan of the boot has still to load
    fresh,    \* the image it has loaded and not yet registered
    up,       \* has the launcher been started?
    images,   \* the slots of the loader
    starting, \* the image whose task elf_app_start has created and not yet noted
    handleOf, \* the image whose callbacks the app manager has for an app
    grants,   \* permissions of an identity
    held,     \* identities that have a slot in the table of permissions
    files,    \* OPEN_APP_FILES: who opened which stream
    open,     \* streams that are open
    doing     \* what the task of an image is doing with a stream

loader == <<debug, scan, fresh, up, handleOf>>
trust == <<grants, held>>
storage == <<files, open, doing>>
elfVars == <<loader, images, starting, trust, storage>>
allVars == <<vars, elfVars>>

Images == 1 .. MaxImages
NoImage == 0
NoStream == 0
EmptyImage == [file |-> NoFile, running |-> FALSE, granted |-> {}]
Idle == [step |-> "idle", stream |-> NoStream]
Identities == Apps \cup {f.path : f \in Files}

Loaded(m) == images[m].file # NoFile

ElfTypeOK ==
    /\ TypeOK
    /\ debug \in BOOLEAN /\ up \in BOOLEAN
    /\ scan \subseteq Files /\ fresh \in Images \cup {NoImage}
    /\ images \in [Images -> [file : Files \cup {NoFile}, running : BOOLEAN,
                              granted : SUBSET Permissions]]
    /\ starting \in Images \cup {NoImage}
    /\ handleOf \in [Apps -> Images \cup {NoImage}]
    /\ grants \in [Identities -> SUBSET Permissions]
    /\ held \subseteq Identities /\ Cardinality(held) <= MaxGrants
    /\ files \subseteq [stream : Streams, image : Images] /\ Cardinality(files) <= MaxOpen
    /\ open \subseteq Streams
    /\ doing \in [Images -> [step : {"idle", "opened", "taken", "over"},
                             stream : Streams \cup {NoStream}]]

ElfInit ==
    /\ Init
    /\ debug \in BOOLEAN
    /\ scan = Files /\ fresh = NoImage /\ up = FALSE
    /\ images = [m \in Images |-> EmptyImage] /\ starting = NoImage
    /\ handleOf = [a \in Apps |-> NoImage]
    /\ grants = [i \in Identities |-> {}] /\ held = {}
    /\ files = {} /\ open = {} /\ doing = [m \in Images |-> Idle]

-----------------------------------------------------------------------------
(* Trust                                                                   *)

HasManifest(f) == Parses(f.json)

\* Permissions belong to the id of the manifest, or to the path without one.
Identity(f) == IF HasManifest(f) THEN f.json.id ELSE f.path

Accepted(f) == f.signature = "valid" \/ (f.signature = "none" /\ debug)

\* effective_app_permissions of what the manifest asks for
Trusted(f) ==
    IF f.signature # "valid" THEN {"ipc"} ELSE IF HasManifest(f) THEN Asks(f.json) ELSE {}

\* resolve_app_symbol of a family, when the table of permissions is g.  A path is not a sound
\* id for the resolver, so a file without a manifest has no permission.
Resolves(f, family, g) ==
    /\ family \in (IF f.signature = "valid" THEN AppVisible ELSE UnsignedVisible)
    /\ family \in SyscallTable
    /\ PermissionOf(family) # NoPermission =>
          HasManifest(f) /\ PermissionOf(family) \in g[Identity(f)]

\* (mutant: there is room for one more)
TableIsFullMutant(i) == i \notin held /\ Cardinality(held) > MaxGrants

\* The table is full: a slot is not freed when its permissions are revoked.
TableIsFull(i) == i \notin held /\ Cardinality(held) >= MaxGrants

-----------------------------------------------------------------------------
(* Loading                                                                 *)

FreeImages == {m \in Images : ~Loaded(m)}

Scans(f) ==
    /\ f \in scan /\ fresh = NoImage /\ registering = NoApp
    /\ \A l \in Launchers : Registered(l)
    /\ scan' = scan \ {f}
    /\ UNCHANGED <<vars, debug, up, handleOf, starting, storage>>

\* No free slot, not readable, too large, not or wrongly signed.
SkipFile(f) == Scans(f) /\ UNCHANGED <<fresh, images, trust>>

\* (mutant: nothing is revoked before the new grant)
ClearedMutant(i) == grants

\* What an earlier app of that identity was granted is revoked.
Cleared(i) == [grants EXCEPT ![i] = {}]

\* The grant fails, or relocation does, or the app is not for this system;
\* the slot in the table of permissions stays taken.
LoadFails(f) ==
    /\ Scans(f) /\ Accepted(f) /\ FreeImages # {}
    /\ grants' = [Cleared(Identity(f)) EXCEPT ![Identity(f)] = @ \ Trusted(f)]
    /\ held' = IF Trusted(f) = {} \/ TableIsFull(Identity(f)) THEN held
               ELSE held \cup {Identity(f)}
    /\ UNCHANGED <<fresh, images>>

LoadApp(f) ==
    /\ Scans(f) /\ Accepted(f) /\ FreeImages # {}
    /\ Trusted(f) # {} => ~TableIsFull(Identity(f))
    /\ grants' = [Cleared(Identity(f)) EXCEPT ![Identity(f)] = @ \cup Trusted(f)]
    /\ held' = IF Trusted(f) = {} THEN held ELSE held \cup {Identity(f)}
    /\ \A family \in f.imports : Resolves(f, family, grants')
    /\ HasManifest(f) => IsCompatible(f.json)
    /\ \E m \in FreeImages :
        /\ \A n \in FreeImages : m <= n
        /\ images' = [images EXCEPT ![m] =
                         [file |-> f, running |-> FALSE, granted |-> Trusted(f)]]
        /\ fresh' = m

\* (mutant: the permissions of the images in gone are not revoked)
RevokedMutant(gone) == grants

\* elf_app_unload of the images in gone: their tasks are deleted, their permissions
\* revoked, the files they own closed.  What a task has opened and not yet
\* registered, or taken and not yet closed, stays open.
Revoked(gone) ==
    [i \in Identities |-> grants[i] \ UNION {images[m].granted :
        m \in {n \in gone : Loaded(n) /\ Identity(images[n].file) = i}}]

Unload(gone) ==
    /\ grants' = Revoked(gone)
    /\ files' = {e \in files : e.image \notin gone}
    /\ open' = open \ {e.stream : e \in {x \in files : x.image \in gone}}
    /\ doing' = [m \in Images |-> IF m \in gone THEN Idle ELSE doing[m]]
    /\ UNCHANGED held

Emptied(gone) == [m \in Images |-> IF m \in gone THEN EmptyImage ELSE images[m]]

\* The app manager keeps the callbacks that came first for an id, and returns OK
\* for those of a second file with that id.
RegisterApp ==
    /\ fresh # NoImage
    /\ LET f == images[fresh].file IN
       \/ /\ HasManifest(f) /\ Register(f.json.id)
          /\ handleOf' = IF Registered(f.json.id) THEN handleOf
                         ELSE [handleOf EXCEPT ![f.json.id] = fresh]
          /\ UNCHANGED <<images, trust, storage>>
       \/ /\ ~HasManifest(f)
          /\ Unload({fresh}) /\ images' = Emptied({fresh})
          /\ UNCHANGED <<vars, handleOf>>
    /\ fresh' = NoImage
    /\ UNCHANGED <<debug, scan, up, starting>>

\* tk_wm.rs registers the launcher before the scan.
RegisterLauncher(l) == l \notin manifests /\ Register(l) /\ UNCHANGED elfVars

List(a) == ListManifest(a) /\ UNCHANGED elfVars

\* main.c grants the launcher all permissions and ignores the result.
ScanEnds ==
    /\ scan = {} /\ fresh = NoImage /\ registering = NoApp /\ ~up
    /\ up' = TRUE
    /\ \E l \in Launchers :
        IF TableIsFull(l) THEN UNCHANGED trust
        ELSE /\ grants' = [grants EXCEPT ![l] = Permissions]
             /\ held' = held \cup {l}
    /\ UNCHANGED <<vars, debug, scan, fresh, images, handleOf, starting, storage>>

-----------------------------------------------------------------------------
(* The calls of the app manager, with the callbacks of the loader          *)

\* (mutant: only eviction and killing call on_destroy)
GoneMutant(moved) == {slots[i].app : i \in {j \in Slots : Holds(j) /\ slots'[j].app = NoApp}}

\* The apps whose on_destroy a call runs: those that lose their slot, and when
\* apps were moved by a launch the one that gave way.
Gone(moved) ==
    {slots[i].app : i \in {j \in Slots :
        /\ Holds(j)
        /\ \/ slots'[j].app = NoApp
           \/ moved /\ GivesWay(j) /\ slots[j].app \notin Launchers}}

ImagesOf(apps) == {handleOf[a] : a \in apps} \ {NoImage}

\* on_create is called for an app that is not in memory (elf_app_start).
Creates(a) == \E t \in Slots : Holds(t) /\ slots[t].app = a /\ slots[t].state = "Unloaded"

CanStart(a) ==
    a \notin Launchers => Loaded(handleOf[a]) /\ ~images[handleOf[a]].running

AfterCall(gone, created) ==
    /\ Unload(ImagesOf(gone)) /\ images' = Emptied(ImagesOf(gone))
    /\ starting' = created
    /\ UNCHANGED loader

LaunchIdle(a) == (LaunchNotFound(a) \/ LaunchForeground(a)) /\ UNCHANGED elfVars

\* xTaskCreatePinnedToCore: the task may run, and end, before StartReturns.
LaunchElf(a) ==
    /\ LaunchApp(a)
    /\ Creates(a) => CanStart(a)
    /\ AfterCall(Gone(TRUE), IF Creates(a) THEN handleOf[a] ELSE NoImage)

\* The image is not there any more, or runs, or there is no memory for a task.
LaunchElfFails(a) == a \notin Launchers /\ LaunchFails(a) /\ AfterCall(Gone(TRUE), NoImage)

EndElf ==
    /\ EvictLru \/ \E i \in Slots : Kill(i)
    /\ AfterCall(Gone(FALSE), NoImage)

SuspendElf == (\E i \in Slots : Suspend(i)) /\ UNCHANGED elfVars
TickElf == Tick /\ UNCHANGED elfVars

\* elf_app_start notes that the task runs, whether it still does or not.
StartReturns ==
    /\ starting # NoImage
    /\ images' = [images EXCEPT ![starting].running = TRUE]
    /\ starting' = NoImage
    /\ UNCHANGED <<vars, loader, trust, storage>>

\* The mutex of the manager is held until elf_app_start has returned.
Calls ==
    /\ up /\ starting = NoImage
    /\ \/ \E a \in Apps : LaunchIdle(a) \/ LaunchElf(a) \/ LaunchElfFails(a)
       \/ EndElf \/ SuspendElf \/ TickElf

-----------------------------------------------------------------------------
(* The tasks of the apps                                                   *)

HasTask(m) == images[m].running \/ m = starting
Step(m, step) == HasTask(m) /\ doing[m].step = step
Nothing == UNCHANGED <<vars, loader, starting, trust>>

\* thistle_fs_open_for_slot: fopen, then register_app_stream, which closes the
\* stream when its table is full.
OpenFile(m) ==
    /\ Step(m, "idle")
    /\ \E s \in Streams \ open :
        /\ open' = open \cup {s}
        /\ doing' = [doing EXCEPT ![m] = [step |-> "opened", stream |-> s]]
    /\ UNCHANGED <<files, images>> /\ Nothing

RegisterStream(m) ==
    /\ Step(m, "opened")
    /\ LET s == doing[m].stream IN
       IF Cardinality(files) < MaxOpen
       THEN files' = files \cup {[stream |-> s, image |-> m]} /\ UNCHANGED open
       ELSE open' = open \ {s} /\ UNCHANGED files
    /\ doing' = [doing EXCEPT ![m] = Idle]
    /\ UNCHANGED images /\ Nothing

\* (mutant: the owner stays in the table)
TakeStreamMutant(m) ==
    /\ Step(m, "idle")
    /\ \E e \in files :
        /\ e.image = m
        /\ doing' = [doing EXCEPT ![m] = [step |-> "taken", stream |-> e.stream]]
    /\ UNCHANGED <<files, open, images>> /\ Nothing

\* thistle_fs_close_for_slot: take_owned_stream, then fclose.
TakeStream(m) ==
    /\ Step(m, "idle")
    /\ \E e \in files :
        /\ e.image = m
        /\ files' = files \ {e}
        /\ doing' = [doing EXCEPT ![m] = [step |-> "taken", stream |-> e.stream]]
    /\ UNCHANGED <<open, images>> /\ Nothing

CloseStream(m) ==
    /\ Step(m, "taken")
    /\ open' = open \ {doing[m].stream}
    /\ doing' = [doing EXCEPT ![m] = Idle]
    /\ UNCHANGED <<files, images>> /\ Nothing

\* The entry point returns; the image stays, and so do its files.  When elf_app_start
\* has not returned, the image is taken for running from then on.
TaskEnds(m) ==
    /\ Step(m, "idle")
    /\ images' = [images EXCEPT ![m].running = FALSE]
    /\ doing' = IF m = starting THEN [doing EXCEPT ![m].step = "over"] ELSE doing
    /\ UNCHANGED <<files, open>> /\ Nothing

Tasks ==
    \E m \in Images :
        OpenFile(m) \/ RegisterStream(m) \/ TakeStream(m) \/ CloseStream(m) \/ TaskEnds(m)

Boot ==
    \/ \E f \in Files : SkipFile(f) \/ LoadFails(f) \/ LoadApp(f)
    \/ RegisterApp \/ ScanEnds
    \/ \E a \in Apps : List(a)
    \/ \E l \in Launchers : RegisterLauncher(l)

ElfNext == Boot \/ Calls \/ StartReturns \/ Tasks

ElfSpec == ElfInit /\ [][ElfNext]_allVars

-----------------------------------------------------------------------------
(* Properties                                                              *)

\* No app in memory is linked against more than its signature and its manifest
\* allow, whatever other file has used its identity before (elf_app_load: "Clear
\* stale grants for a reused identity"), nor against what is for drivers only, and
\* what is not signed reaches no more than the messages of other apps.
BoundWithinTrust ==
    \A m \in Images : Loaded(m) =>
        LET f == images[m].file
            uses == {PermissionOf(family) : family \in f.imports} IN
        /\ uses \subseteq Trusted(f) \cup {NoPermission}
        /\ f.imports \cap DriverFamilies = {}
        /\ f.signature # "valid" => uses \subseteq {"ipc"}

\* A stream that is in the table is open and has one owner, so that no app reaches
\* the file of another although fopen uses its pointers again (app_owns_stream).
OwnersAreUnique ==
    \A e \in files : e.stream \in open /\ \A d \in files : d.stream = e.stream => d = e

\* Nothing of an app outlives its image: permissions and open files belong to an
\* image that is loaded, and a task that runs to an app that the manager regards
\* as being in memory; nor does an open file get a second owner (elf_app_unload,
\* evict_lru, launch, kill).
NothingIsLeftBehind ==
    /\ \A i \in Identities \ Launchers : grants[i] # {} =>
          \E m \in Images : Loaded(m) /\ Identity(images[m].file) = i
    /\ \A e \in files : Loaded(e.image)
    /\ \A m \in Images : HasTask(m) =>
          \E i \in Slots : /\ Holds(i) /\ slots[i].state # "Unloaded"
                           /\ handleOf[slots[i].app] = m
    /\ OwnersAreUnique
=============================================================================
