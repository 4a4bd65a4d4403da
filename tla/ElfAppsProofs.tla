---------------------------- MODULE ElfAppsProofs ----------------------------
(***************************************************************************)
(* Theorems about ElfApps, for any files and apps, and tables of any size: *)
(*                                                                         *)
(*   ElfTypeCorrect     the type invariant: no table is ever exceeded;     *)
(*   TrustIsKept        no image is bound to more than it may use;         *)
(*   NothingStays       permissions, streams and tasks end with the image; *)
(*   OneElfForeground,                                                     *)
(*   ElfEvictsOldest    what AppManagerProofs shows of the manager holds   *)
(*                      of the manager with its images.                    *)
(*                                                                         *)
(* And about two services that all apps share, each of which depends on    *)
(* nothing else, AppStorage and Ipc:                                       *)
(*                                                                         *)
(*   StorageTypeCorrect,                                                   *)
(*   FilesAreNotLost    a file being replaced is there or aside;           *)
(*   MailTypeCorrect,                                                      *)
(*   MailComesOut       messages come out once, in the order sent, and     *)
(*                      nobody sleeps while one waits.                     *)
(***************************************************************************)
EXTENDS ElfApps, AppManagerProofs, FiniteSetTheorems

-----------------------------------------------------------------------------
(* The invariant                                                           *)

ImageRecord == [file : Files \cup {NoFile}, running : BOOLEAN, granted : SUBSET Permissions]
Phase == [step : {"idle", "opened", "taken", "over"}, stream : Streams \cup {NoStream}]

\* The scan is over before the first call; what it has loaded is an image.
ScanInv ==
    /\ up => scan = {} /\ fresh = NoImage
    /\ fresh # NoImage => Loaded(fresh)

\* The manager has callbacks of an image for every app but a launcher.
HandlesInv ==
    /\ \A l \in Launchers : handleOf[l] = NoImage
    /\ \A i \in Slots : Holds(i) /\ slots[i].app \notin Launchers =>
                            handleOf[slots[i].app] \in Images

\* The image that an app has callbacks of is its own, and is there until the first call.
OwnInv ==
    /\ \A b \in Apps : handleOf[b] # NoImage /\ Loaded(handleOf[b]) =>
                           Identity(images[handleOf[b]].file) = b
    /\ ~up => /\ starting = NoImage
              /\ \A b \in Apps : handleOf[b] # NoImage =>
                                    Loaded(handleOf[b]) /\ handleOf[b] # fresh

\* Every permission of an identity was granted to an image that is loaded.
GrantsInv ==
    \A i \in Identities \ Launchers : \A p \in grants[i] :
        \E m \in Images : Loaded(m) /\ Identity(images[m].file) = i /\ p \in images[m].granted

\* A stream has one place: an entry of the table, or the hands of one task.
HasStream(phase) == phase.step \in {"opened", "taken"}
StreamsInv ==
    /\ OwnersAreUnique
    /\ \A e \in files : Loaded(e.image)
    /\ \A m \in Images : HasStream(doing[m]) =>
          /\ doing[m].stream \in open
          /\ \A e \in files : e.stream # doing[m].stream
          /\ \A n \in Images \ {m} : HasStream(doing[n]) =>
                                        doing[n].stream # doing[m].stream

\* A task that runs has its image, and its app a slot.
LoadedRuns == \A m \in Images : HasTask(m) => Loaded(m)
RunningInv ==
    \A m \in Images : HasTask(m) =>
        \E i \in Slots : /\ Holds(i) /\ slots[i].state # "Unloaded"
                         /\ handleOf[slots[i].app] = m

TablesInv == IsFiniteSet(held) /\ IsFiniteSet(files)

ImagesInv == GrantsInv /\ StreamsInv /\ LoadedRuns /\ BoundWithinTrust
ElfInv ==
    /\ ElfTypeOK /\ TablesInv /\ TableInv /\ ScanInv /\ HandlesInv /\ OwnInv
    /\ ImagesInv /\ RunningInv

LEMMA InvIsEnough == ElfInv => NothingIsLeftBehind
<1> SUFFICES ASSUME ElfInv PROVE NothingIsLeftBehind
    OBVIOUS
<1>1. ASSUME NEW i \in Identities \ Launchers, grants[i] # {}
      PROVE  \E m \in Images : Loaded(m) /\ Identity(images[m].file) = i
      <2>1. PICK p \in grants[i] : TRUE
            BY <1>1
      <2> QED BY <2>1 DEF ElfInv, ImagesInv, GrantsInv
<1> QED BY <1>1 DEF ElfInv, ImagesInv, StreamsInv, RunningInv, NothingIsLeftBehind

-----------------------------------------------------------------------------
(* Files and what they may use                                             *)

LEMMA FileTyped ==
    ASSUME NEW f \in Files
    PROVE  /\ Identity(f) \in Identities
           /\ HasManifest(f) => f.json.id \in Apps \ Launchers /\ Identity(f) = f.json.id
           /\ Trusted(f) \subseteq Permissions
<1>1. Parses(f.json) => f.json.id \in Apps \ Launchers
      BY FilesAssumption
<1>2. f.path \in Identities
      BY DEF Identities
<1>3. Apps \subseteq Identities
      BY DEF Identities
<1>4. Trusted(f) \subseteq Permissions
      BY FilesAssumption DEF Trusted, Asks
<1> QED BY <1>1, <1>2, <1>3, <1>4 DEF Identity, HasManifest

\* What an app sees is nothing that is for drivers.
LEMMA VisibleToApps ==
    /\ AppVisible \cap DriverFamilies = {}
    /\ UnsignedVisible \subseteq AppVisible
    /\ \A family \in UnsignedVisible : PermissionOf(family) = "ipc"
BY DEF AppVisible, DriverFamilies, UnsignedVisible, PermissionOf

\* What resolves under the trust in a file is within it.
LEMMA ResolvedIsTrusted ==
    ASSUME NEW f \in Files, NEW g, g[Identity(f)] = Trusted(f),
           \A family \in f.imports : Resolves(f, family, g)
    PROVE  LET uses == {PermissionOf(family) : family \in f.imports} IN
           /\ uses \subseteq Trusted(f) \cup {NoPermission}
           /\ f.imports \cap DriverFamilies = {}
           /\ f.signature # "valid" => uses \subseteq {"ipc"}
<1>1. \A family \in f.imports : family \in AppVisible
                                /\ PermissionOf(family) \in Trusted(f) \cup {NoPermission}
      BY VisibleToApps DEF Resolves
<1>2. f.signature # "valid" => \A family \in f.imports : PermissionOf(family) = "ipc"
      BY VisibleToApps DEF Resolves
<1>3. f.imports \cap DriverFamilies = {}
      BY <1>1, VisibleToApps
<1> QED BY <1>1, <1>2, <1>3

-----------------------------------------------------------------------------
(* Images, permissions and streams                                         *)

\* BoundWithinTrust says this of the file of every image.
WithinTrust(f) ==
    LET uses == {PermissionOf(family) : family \in f.imports} IN
    /\ uses \subseteq Trusted(f) \cup {NoPermission}
    /\ f.imports \cap DriverFamilies = {}
    /\ f.signature # "valid" => uses \subseteq {"ipc"}

LEMMA BoundIsWithin ==
    BoundWithinTrust <=> \A m \in Images : Loaded(m) => WithinTrust(images[m].file)
BY DEF BoundWithinTrust, WithinTrust

\* An image that changes its file becomes empty: nothing else is bound.
LEMMA BoundKept ==
    ASSUME BoundWithinTrust,
           \A m \in Images : images'[m].file \in {NoFile, images[m].file}
    PROVE  BoundWithinTrust'
<1>1. ASSUME NEW m \in Images, images'[m].file # NoFile PROVE WithinTrust(images'[m].file)
      BY <1>1, BoundIsWithin DEF Loaded
<1>2. \A m \in Images : Loaded(m)' => WithinTrust(images'[m].file)
      BY <1>1 DEF Loaded
<1> QED BY <1>2 DEF BoundWithinTrust, WithinTrust, Loaded

\* What ElfTypeOK says of the variables that are not those of AppManager
LoaderTyped ==
    /\ debug \in BOOLEAN /\ up \in BOOLEAN
    /\ scan \subseteq Files /\ fresh \in Images \cup {NoImage}
    /\ handleOf \in [Apps -> Images \cup {NoImage}]
ImagesTyped == images \in [Images -> ImageRecord] /\ starting \in Images \cup {NoImage}
TrustTyped ==
    /\ grants \in [Identities -> SUBSET Permissions]
    /\ held \subseteq Identities /\ Cardinality(held) <= MaxGrants
StorageTyped ==
    /\ files \subseteq [stream : Streams, image : Images] /\ Cardinality(files) <= MaxOpen
    /\ open \subseteq Streams
    /\ doing \in [Images -> Phase]

LEMMA TypesAre ==
    ElfTypeOK <=> TypeOK /\ LoaderTyped /\ ImagesTyped /\ TrustTyped /\ StorageTyped
BY DEF ElfTypeOK, LoaderTyped, ImagesTyped, TrustTyped, StorageTyped, ImageRecord, Phase

\* Unloading images takes their permissions, their streams and their tasks along.
LEMMA UnloadKeeps ==
    ASSUME ElfTypeOK, TablesInv, ImagesInv, NEW gone \in SUBSET Images, Unload(gone),
           ImagesTyped',
           \A m \in Images \ gone : /\ images'[m].file = images[m].file
                                    /\ images'[m].granted = images[m].granted,
           \A m \in gone : images'[m].file \in {NoFile, images[m].file},
           \A m \in Images : HasTask(m)' => images'[m].file # NoFile
    PROVE  TrustTyped' /\ StorageTyped' /\ TablesInv' /\ ImagesInv'
<1>a. ImagesTyped /\ TrustTyped /\ StorageTyped
      BY TypesAre
<1>1. TrustTyped'
      <2>1. \A i \in Identities : Revoked(gone)[i] \in SUBSET Permissions
            BY <1>a DEF TrustTyped, Revoked
      <2>2. Revoked(gone) \in [Identities -> SUBSET Permissions]
            BY <2>1 DEF Revoked
      <2> QED BY <1>a, <2>2 DEF TrustTyped, Unload
<1>2. IsFiniteSet(files') /\ Cardinality(files') <= Cardinality(files)
      <2>1. files' \subseteq files
            BY DEF Unload
      <2> QED BY <2>1, FS_Subset DEF TablesInv
<1>3. TablesInv'
      BY <1>2 DEF TablesInv, Unload
<1>4. StorageTyped'
      <2>1. Cardinality(files') <= MaxOpen
            <3>1. Cardinality(files) \in Nat /\ Cardinality(files') \in Nat
                  BY <1>2, FS_CardinalityType DEF TablesInv
            <3> QED BY <1>a, <1>2, <3>1, FilesAssumption DEF StorageTyped
      <2>2. Idle \in Phase
            BY DEF Idle, Phase, NoStream
      <2>3. doing' \in [Images -> Phase]
            BY <1>a, <2>2 DEF Unload, StorageTyped
      <2> QED BY <1>a, <2>1, <2>3 DEF Unload, StorageTyped
<1>5. GrantsInv'
      <2> SUFFICES ASSUME NEW i \in Identities \ Launchers, NEW p \in grants'[i]
                   PROVE  \E m \in Images : /\ images'[m].file # NoFile
                                            /\ Identity(images'[m].file) = i
                                            /\ p \in images'[m].granted
          BY DEF GrantsInv, Loaded, Identities
      <2>1. p \in Revoked(gone)[i]
            BY DEF Unload
      <2>2. /\ p \in grants[i]
            /\ \A m \in gone : Loaded(m) /\ Identity(images[m].file) = i =>
                                   p \notin images[m].granted
            BY <2>1 DEF Revoked
      <2>3. PICK m \in Images : /\ Loaded(m)
                                /\ Identity(images[m].file) = i
                                /\ p \in images[m].granted
            BY <2>2 DEF ImagesInv, GrantsInv
      <2>4. m \in Images \ gone
            BY <2>2, <2>3
      <2> QED BY <2>3, <2>4 DEF Loaded
<1>6. StreamsInv'
      <2>a. OwnersAreUnique /\ StreamsInv
            BY DEF ImagesInv, StreamsInv
      <2>b. files' = {e \in files : e.image \notin gone}
            BY DEF Unload
      <2>c. open' = open \ {e.stream : e \in {x \in files : x.image \in gone}}
            BY DEF Unload
      <2>d. doing' = [m \in Images |-> IF m \in gone THEN Idle ELSE doing[m]]
            BY DEF Unload
      <2>1. OwnersAreUnique'
            <3>1. ASSUME NEW e \in files' PROVE e.stream \in open'
                  <4>1. e \in files /\ e.image \notin gone
                        BY <2>b
                  <4>2. ~\E x \in files : x.image \in gone /\ x.stream = e.stream
                        BY <4>1, <2>a DEF OwnersAreUnique
                  <4> QED BY <2>c, <4>1, <4>2, <2>a DEF OwnersAreUnique
            <3>2. ASSUME NEW e \in files', NEW d \in files', d.stream = e.stream
                  PROVE  d = e
                  BY <3>2, <2>b, <2>a DEF OwnersAreUnique
            <3> QED BY <3>1, <3>2 DEF OwnersAreUnique
      <2>2. \A e \in files' : images'[e.image].file # NoFile
            <3> TAKE e \in files'
            <3>1. e \in files /\ e.image \notin gone /\ e.image \in Images
                  BY <2>b, <1>a DEF StorageTyped
            <3> QED BY <3>1, <2>a DEF StreamsInv, Loaded
      <2>3. ASSUME NEW m \in Images, HasStream(doing'[m])
            PROVE  /\ m \notin gone /\ doing'[m] = doing[m]
                   /\ doing'[m].stream \in open'
                   /\ \A e \in files' : e.stream # doing'[m].stream
            <3>1. m \notin gone /\ doing'[m] = doing[m]
                  BY <2>3, <2>d DEF Idle, HasStream
            <3>2. /\ doing[m].stream \in open
                  /\ \A e \in files : e.stream # doing[m].stream
                  BY <3>1, <2>3, <2>a DEF StreamsInv
            <3> QED BY <3>1, <3>2, <2>b, <2>c
      <2>4. ASSUME NEW m \in Images, NEW n \in Images \ {m},
                   HasStream(doing'[m]), HasStream(doing'[n])
            PROVE  doing'[n].stream # doing'[m].stream
            BY <2>4, <2>3, <2>a DEF StreamsInv
      <2> QED BY <2>1, <2>2, <2>3, <2>4 DEF StreamsInv, Loaded
<1>7. LoadedRuns'
      BY DEF LoadedRuns, Loaded, Images
<1>8. BoundWithinTrust'
      BY BoundKept DEF ImagesInv
<1> QED BY <1>1, <1>3, <1>4, <1>5, <1>6, <1>7, <1>8 DEF ImagesInv

-----------------------------------------------------------------------------
(* The beginning                                                           *)

LEMMA ElfInitial == ElfInit => ElfInv
<1> SUFFICES ASSUME ElfInit PROVE ElfInv
    OBVIOUS
<1>1. TypeOK /\ TableInv
      BY InitTyped, TableInit DEF ElfInit, TableInv
<1>2. \A m \in Images : ~Loaded(m) /\ ~HasTask(m) /\ ~HasStream(doing[m])
      BY DEF ElfInit, EmptyImage, Idle, Loaded, HasTask, HasStream, Images, NoImage
<1>3. \A i \in Slots : ~Holds(i)
      BY DEF ElfInit, Init, Holds, EmptySlot
<1>4. ElfTypeOK
      <2>1. LoaderTyped
            BY DEF ElfInit, LoaderTyped, NoImage
      <2>2. ImagesTyped
            BY DEF ElfInit, ImagesTyped, EmptyImage, ImageRecord
      <2>3. Cardinality({}) = 0
            BY FS_EmptySet
      <2>4. TrustTyped
            BY <2>3, FilesAssumption DEF ElfInit, TrustTyped
      <2>5. StorageTyped
            BY <2>3, FilesAssumption DEF ElfInit, StorageTyped, Idle, Phase
      <2> QED BY <1>1, <2>1, <2>2, <2>4, <2>5, TypesAre
<1>5. TablesInv
      BY FS_EmptySet DEF ElfInit, TablesInv
<1>6. ScanInv
      BY DEF ElfInit, ScanInv
<1>7. HandlesInv
      BY <1>3, AppsAssumption DEF ElfInit, HandlesInv
<1>8. ImagesInv
      <2>1. GrantsInv
            BY DEF ElfInit, GrantsInv
      <2>2. StreamsInv
            BY <1>2 DEF ElfInit, StreamsInv, OwnersAreUnique
      <2> QED BY <1>2, <2>1, <2>2 DEF ImagesInv, LoadedRuns, BoundWithinTrust
<1>9. RunningInv /\ OwnInv
      BY <1>2 DEF RunningInv, OwnInv, ElfInit
<1> QED BY <1>1, <1>4, <1>5, <1>6, <1>7, <1>8, <1>9 DEF ElfInv

-----------------------------------------------------------------------------
(* What a call of the manager does to the slots                            *)

\* No slot is filled, and a slot whose app is in memory keeps it there unless the call
\* destroys the app.
Kept ==
    \A i \in Slots : i <= slotCount' /\ slots'[i].app # NoApp =>
        Holds(i) /\ slots'[i].app = slots[i].app
Stays(gone) ==
    \A i \in Slots :
        Holds(i) /\ slots[i].state # "Unloaded" /\ slots[i].app \notin Launchers \cup gone =>
            /\ i <= slotCount'
            /\ slots'[i].app = slots[i].app
            /\ slots'[i].state # "Unloaded"

\* The table of a launch, before the launched app is on the screen
LEMMA EvictedKeeps ==
    ASSUME TypeOK, NEW v, NEW i \in Slots, Evicted(v)[i].app # NoApp
    PROVE  /\ i # v
           /\ Evicted(v)[i].app = slots[i].app
           /\ ~(GivesWay(i) /\ slots[i].app \notin Launchers) =>
                 (slots[i].state # "Unloaded" => Evicted(v)[i].state # "Unloaded")
<1>1. i # v /\ Evicted(v)[i] = Vacated[i]
      BY DEF Evicted, EmptySlot
<1>2. slots[i] \in SlotRecord
      BY DEF TypeOK, SlotRecord
<1>3. Vacated[i].app = slots[i].app
      BY <1>2 DEF Vacated, SlotRecord
<1>4. ASSUME ~(GivesWay(i) /\ slots[i].app \notin Launchers), slots[i].state # "Unloaded"
      PROVE  Vacated[i].state # "Unloaded"
      BY <1>2, <1>4 DEF Vacated, SlotRecord
<1> QED BY <1>1, <1>3, <1>4

LEMMA LaunchMoves ==
    ASSUME TypeOK, NEW v, slotCount' = slotCount,
           slots' \in [Slots -> SlotRecord],
           \A i \in Slots : /\ slots'[i].app = Evicted(v)[i].app
                            /\ slots'[i].state \in {"Running", Evicted(v)[i].state}
    PROVE  Kept /\ Stays(Gone(TRUE))
<1>1. Kept
      BY EvictedKeeps DEF Kept, Holds
<1>2. ASSUME NEW i \in Slots, Holds(i), slots[i].state # "Unloaded",
             slots[i].app \notin Launchers, slots[i].app \notin Gone(TRUE)
      PROVE  /\ i <= slotCount'
             /\ slots'[i].app = slots[i].app
             /\ slots'[i].state # "Unloaded"
      <2>1. slots'[i].app # NoApp /\ ~GivesWay(i)
            BY <1>2 DEF Gone
      <2> QED BY <1>2, <2>1, EvictedKeeps DEF Holds
<1> QED BY <1>1, <1>2 DEF Stays

LEMMA LaunchAppMoves ==
    ASSUME TypeOK, NEW a \in Apps, LaunchApp(a) PROVE Kept /\ Stays(Gone(TRUE))
<1>1. PICK t \in Slots, v \in Slots \cup {Nobody} :
          slots' = [Evicted(v) EXCEPT ![t].state = "Running", ![t].used = uptime]
      BY DEF LaunchApp
<1>2. slotCount' = slotCount
      BY DEF LaunchApp
<1>3. Evicted(v) \in [Slots -> SlotRecord]
      BY EvictedTyped
<1>4. \A i \in Slots : /\ slots'[i].app = Evicted(v)[i].app
                       /\ slots'[i].state \in {"Running", Evicted(v)[i].state}
      BY <1>1, <1>3 DEF SlotRecord
<1>5. slots' \in [Slots -> SlotRecord]
      <2>1. uptime \in Nat
            BY LimitsAssumption DEF TypeOK
      <2> QED BY <1>1, <1>3, <2>1, RunningTyped
<1> QED BY <1>2, <1>4, <1>5, LaunchMoves

LEMMA LaunchFailsMoves ==
    ASSUME TypeOK, NEW a \in Apps, LaunchFails(a) PROVE Kept /\ Stays(Gone(TRUE))
<1>1. PICK v \in Slots \cup {Nobody} :
          slots' = [i \in Slots |-> IF IsForeground(i)
                                    THEN [Evicted(v)[i] EXCEPT !.state = "Running"]
                                    ELSE Evicted(v)[i]]
      BY DEF LaunchFails
<1>2. slotCount' = slotCount
      BY DEF LaunchFails
<1>3. Evicted(v) \in [Slots -> SlotRecord]
      BY EvictedTyped
<1>4. slots' \in [Slots -> SlotRecord]
      BY <1>1, <1>3 DEF SlotRecord, States
<1>5. \A i \in Slots : /\ slots'[i].app = Evicted(v)[i].app
                       /\ slots'[i].state \in {"Running", Evicted(v)[i].state}
      BY <1>1, <1>3 DEF SlotRecord
<1> QED BY <1>2, <1>4, <1>5, LaunchMoves

LEMMA EndMoves ==
    ASSUME TypeOK, EvictLru \/ \E i \in Slots : Kill(i)
    PROVE  Kept /\ Stays(Gone(FALSE))
<1>1. \E v \in Slots \cup {Nobody} :
          slots' = [i \in Slots |-> IF i = v THEN EmptySlot ELSE slots[i]]
      <2>1. CASE EvictLru
            BY <2>1 DEF EvictLru
      <2>2. ASSUME NEW i \in Slots, Kill(i)
            PROVE  \E v \in Slots \cup {Nobody} :
                       slots' = [j \in Slots |-> IF j = v THEN EmptySlot ELSE slots[j]]
            <3>1. slots \in [Slots -> SlotRecord] /\ Nobody \notin Slots
                  BY LimitsAssumption DEF TypeOK, SlotRecord, Slots, Nobody
            <3>2. CASE slots' = slots
                  <4> WITNESS Nobody \in Slots \cup {Nobody}
                  <4> QED BY <3>1, <3>2
            <3>3. CASE slots' = [slots EXCEPT ![i] = EmptySlot]
                  <4> WITNESS i \in Slots \cup {Nobody}
                  <4> QED BY <3>1, <3>3
            <3> QED BY <2>2, <3>2, <3>3 DEF Kill
      <2> QED BY <2>1, <2>2
<1>2. slotCount' = slotCount
      BY DEF EvictLru, Kill
<1>3. \A i \in Slots : slots'[i].app # NoApp => slots'[i] = slots[i]
      BY <1>1 DEF EmptySlot
<1>4. Kept
      BY <1>2, <1>3 DEF Kept, Holds
<1>5. ASSUME NEW i \in Slots, Holds(i), slots[i].app \notin Gone(FALSE)
      PROVE  i <= slotCount' /\ slots'[i] = slots[i]
      BY <1>2, <1>3, <1>5 DEF Gone, Holds
<1> QED BY <1>4, <1>5 DEF Stays

LEMMA SuspendMoves ==
    ASSUME TypeOK, NEW i \in Slots, Suspend(i) PROVE Kept /\ Stays({})
<1>1. slots \in [Slots -> SlotRecord] /\ slotCount' = slotCount
      BY DEF TypeOK, SlotRecord, Suspend
<1>2. slots' = slots \/ slots' = [slots EXCEPT ![i].state = "Suspended"]
      BY DEF Suspend
<1>3. \A j \in Slots : /\ slots'[j].app = slots[j].app
                       /\ slots'[j].state \in {"Suspended", slots[j].state}
      BY <1>1, <1>2 DEF SlotRecord
<1> QED BY <1>1, <1>3 DEF Kept, Stays, Holds

-----------------------------------------------------------------------------
(* The steps of the manager                                                *)

\* ElfInv but for what is the manager's own
ElfRest ==
    /\ LoaderTyped /\ ImagesTyped /\ TrustTyped /\ StorageTyped
    /\ TablesInv /\ ScanInv /\ HandlesInv /\ OwnInv /\ ImagesInv /\ RunningInv

LEMMA InvIs == ElfInv <=> TypeOK /\ TableInv /\ ElfRest
BY TypesAre DEF ElfInv, ElfRest

\* Images are emptied only when the launcher is up, and no other file comes in.
LEMMA OwnKept ==
    ASSUME LoaderTyped, OwnInv, handleOf' = handleOf,
           \A m \in Images : images'[m].file \in {NoFile, images[m].file},
           \/ up'
           \/ /\ up' = up /\ fresh' = fresh /\ starting' = starting
              /\ \A m \in Images : images'[m].file = images[m].file
    PROVE  OwnInv'
<1>1. \A b \in Apps : handleOf[b] # NoImage => handleOf[b] \in Images
      BY DEF LoaderTyped
<1>2. \A b \in Apps : handleOf[b] # NoImage /\ images'[handleOf[b]].file # NoFile =>
                           Identity(images'[handleOf[b]].file) = b
      BY <1>1 DEF OwnInv, Loaded
<1>3. CASE up'
      BY <1>2, <1>3 DEF OwnInv, Loaded, NoImage
<1>4. CASE ~up'
      <2>1. ~up /\ starting = NoImage
            BY <1>4 DEF OwnInv
      <2>2. \A b \in Apps : handleOf[b] # NoImage =>
                images'[handleOf[b]].file # NoFile /\ handleOf[b] # fresh'
            BY <1>1, <1>4, <2>1 DEF OwnInv, Loaded
      <2> QED BY <1>2, <1>4, <2>1, <2>2 DEF OwnInv, Loaded, NoImage
<1> QED BY <1>3, <1>4

\* Every step is one of the manager's, or leaves it alone.
LEMMA ElfIsManaged == ElfInv /\ [ElfNext]_allVars => [Next]_vars
<1> SUFFICES ASSUME ElfInv, ElfNext PROVE Next \/ UNCHANGED vars
    BY DEF allVars
<1>1. ASSUME Boot PROVE Next \/ UNCHANGED vars
      <2>1. ASSUME NEW f \in Files, SkipFile(f) \/ LoadFails(f) \/ LoadApp(f)
            PROVE  UNCHANGED vars
            BY <2>1 DEF SkipFile, LoadFails, LoadApp, Scans
      <2>2. ASSUME RegisterApp PROVE Next \/ UNCHANGED vars
            <3>1. fresh \in Images /\ images[fresh].file \in Files
                  BY <2>2, TypesAre
                  DEF RegisterApp, ElfInv, ScanInv, Loaded, LoaderTyped, ImagesTyped,
                      ImageRecord
            <3>2. \/ /\ HasManifest(images[fresh].file)
                     /\ Register(images[fresh].file.json.id)
                  \/ UNCHANGED vars
                  BY <2>2 DEF RegisterApp
            <3> QED BY <3>1, <3>2, FileTyped DEF Next
      <2>3. ScanEnds => UNCHANGED vars
            BY DEF ScanEnds
      <2>4. ASSUME NEW a \in Apps, List(a) PROVE Next
            BY <2>4 DEF List, Next
      <2>5. ASSUME NEW l \in Launchers, RegisterLauncher(l) PROVE Next
            BY <2>5, AppsAssumption DEF RegisterLauncher, Next
      <2> QED BY <1>1, <2>1, <2>2, <2>3, <2>4, <2>5 DEF Boot
<1>2. ASSUME Calls PROVE Next
      <2>1. ASSUME NEW a \in Apps, LaunchIdle(a) \/ LaunchElf(a) \/ LaunchElfFails(a)
            PROVE  Next
            BY <2>1 DEF LaunchIdle, LaunchElf, LaunchElfFails, Launch, Next
      <2>2. EndElf \/ SuspendElf \/ TickElf => Next
            BY DEF EndElf, SuspendElf, TickElf, Next
      <2> QED BY <1>2, <2>1, <2>2 DEF Calls
<1>3. Tasks => UNCHANGED vars
      BY DEF Tasks, OpenFile, RegisterStream, TakeStream, CloseStream, TaskEnds, Nothing
<1>4. StartReturns => UNCHANGED vars
      BY DEF StartReturns
<1> QED BY <1>1, <1>2, <1>3, <1>4 DEF ElfNext

\* Registration fills at most the next slot, with an app that has none.
LEMMA RegisterMoves ==
    ASSUME TypeOK, NEW a, Register(a)
    PROVE  /\ \A i \in Slots : Holds(i) => i <= slotCount' /\ slots'[i] = slots[i]
           /\ \A i \in Slots : i <= slotCount' /\ slots'[i].app # NoApp =>
                 \/ Holds(i) /\ slots'[i] = slots[i]
                 \/ slots'[i].app = a /\ ~Registered(a)
<1>1. slotCount \in Nat /\ slots \in [Slots -> SlotRecord]
      BY LimitsAssumption DEF TypeOK, SlotRecord
<1>2. CASE UNCHANGED table
      BY <1>2 DEF table, Holds
<1>3. CASE Enters(a) /\ ~Registered(a)
      <2> DEFINE new == [app |-> a, state |-> "Unloaded", handle |-> nextHandle, used |-> 0]
      <2>1. slots' = [slots EXCEPT ![slotCount + 1] = new] /\ slotCount' = slotCount + 1
            BY <1>3 DEF Enters
      <2>2. new.app = a
            OBVIOUS
      <2> HIDE DEF new
      <2>3. \A i \in Slots : i # slotCount + 1 => slots'[i] = slots[i]
            BY <1>1, <2>1
      <2>4. \A i \in Slots : i = slotCount + 1 => slots'[i].app = a
            BY <1>1, <2>1, <2>2
      <2>5. \A i \in Slots : i \in Int
            BY DEF Slots
      <2> QED BY <1>1, <1>3, <2>1, <2>3, <2>4, <2>5 DEF Holds
<1> QED BY <1>2, <1>3 DEF Register

\* Slots that are kept keep their images.
LEMMA HandlesKept ==
    ASSUME HandlesInv, Kept, handleOf' = handleOf PROVE HandlesInv'
<1>1. \A i \in Slots : i <= slotCount' /\ slots'[i].app # NoApp /\ slots'[i].app \notin Launchers
                           => handleOf'[slots'[i].app] \in Images
      BY DEF HandlesInv, Kept
<1> QED BY <1>1 DEF HandlesInv, Holds, Images

LEMMA RunningKept ==
    ASSUME HandlesInv, RunningInv, NEW gone, Stays(gone), handleOf' = handleOf,
           NEW started,
           \A m \in Images \ {started} :
               HasTask(m)' => HasTask(m) /\ m \notin ImagesOf(gone),
           started \in Images =>
               \E i \in Slots : /\ i <= slotCount' /\ slots'[i].app # NoApp
                                /\ slots'[i].state # "Unloaded"
                                /\ handleOf[slots'[i].app] = started
    PROVE  RunningInv'
<1> SUFFICES ASSUME NEW m \in Images, HasTask(m)'
             PROVE  \E i \in Slots : /\ i <= slotCount' /\ slots'[i].app # NoApp
                                     /\ slots'[i].state # "Unloaded"
                                     /\ handleOf'[slots'[i].app] = m
    BY DEF RunningInv, Holds, Images
<1>1. CASE m = started
      BY <1>1
<1>2. CASE m # started
      <2>1. PICK i \in Slots : /\ Holds(i) /\ slots[i].state # "Unloaded"
                               /\ handleOf[slots[i].app] = m
            BY <1>2 DEF RunningInv
      <2>2. m # NoImage
            BY DEF Images, NoImage
      <2>3. slots[i].app \notin Launchers
            BY <2>1, <2>2 DEF HandlesInv
      <2>4. m \notin ImagesOf(gone)
            BY <1>2
      <2>5. slots[i].app \notin gone
            BY <2>1, <2>2, <2>4 DEF ImagesOf
      <2>6. i <= slotCount' /\ slots'[i].app = slots[i].app /\ slots'[i].state # "Unloaded"
            BY <2>1, <2>3, <2>5 DEF Stays
      <2> QED BY <2>1, <2>6 DEF Holds
<1> QED BY <1>1, <1>2

LEMMA EmptiedTyped ==
    ASSUME ImagesTyped, NEW gone PROVE Emptied(gone) \in [Images -> ImageRecord]
<1>1. EmptyImage \in ImageRecord
      BY DEF EmptyImage, ImageRecord
<1> QED BY <1>1 DEF ImagesTyped, Emptied

\* A call that destroys the apps in gone and starts an image
LEMMA AfterCallKeeps ==
    ASSUME ElfInv, up, starting = NoImage, NEW gone \in SUBSET Apps,
           NEW started \in Images \cup {NoImage},
           AfterCall(gone, started), Kept, Stays(gone),
           started # NoImage =>
               /\ Loaded(started) /\ started \notin ImagesOf(gone)
               /\ \E i \in Slots : /\ i <= slotCount' /\ slots'[i].app # NoApp
                                   /\ slots'[i].state # "Unloaded"
                                   /\ handleOf[slots'[i].app] = started
    PROVE  ElfRest'
<1>a. ElfTypeOK /\ LoaderTyped /\ ImagesTyped /\ TablesInv /\ ImagesInv /\ ScanInv
      /\ HandlesInv /\ RunningInv /\ LoadedRuns /\ OwnInv
      BY TypesAre DEF ElfInv, ImagesInv
<1>b. Unload(ImagesOf(gone)) /\ UNCHANGED loader
      BY DEF AfterCall
<1>c. images' = Emptied(ImagesOf(gone)) /\ starting' = started /\ starting = NoImage
      BY DEF AfterCall
<1>1. ImagesOf(gone) \in SUBSET Images
      BY <1>a DEF ImagesOf, LoaderTyped
<1>2. ImagesTyped'
      BY <1>a, <1>c, EmptiedTyped DEF ImagesTyped, Images
<1>3. \A m \in Images : images'[m] = IF m \in ImagesOf(gone) THEN EmptyImage ELSE images[m]
      BY <1>c DEF Emptied
<1>4. \A m \in Images : HasTask(m)' => m = started \/ (HasTask(m) /\ m \notin ImagesOf(gone))
      BY <1>c, <1>3 DEF HasTask, EmptyImage
<1>5. \A m \in Images \ ImagesOf(gone) : /\ images'[m].file = images[m].file
                                         /\ images'[m].granted = images[m].granted
      BY <1>3
<1>6. \A m \in ImagesOf(gone) : images'[m].file \in {NoFile, images[m].file}
      BY <1>1, <1>3 DEF EmptyImage
<1>7. \A m \in Images : HasTask(m)' => images'[m].file # NoFile
      <2> TAKE m \in Images
      <2>1. CASE m = started
            BY <2>1, <1>3 DEF Loaded, NoImage, Images
      <2>2. CASE m # started
            BY <2>2, <1>3, <1>4, <1>a DEF LoadedRuns, Loaded
      <2> QED BY <2>1, <2>2
<1>8. TrustTyped' /\ StorageTyped' /\ TablesInv' /\ ImagesInv'
      BY <1>a, <1>b, <1>1, <1>2, <1>5, <1>6, <1>7, UnloadKeeps
<1>9. LoaderTyped'
      BY <1>a, <1>b DEF LoaderTyped, loader, Images
<1>10. ScanInv'
      <2>1. fresh = NoImage /\ scan = {} /\ up
            BY <1>a DEF ScanInv
      <2>2. fresh' = NoImage /\ scan' = {}
            BY <1>b, <2>1 DEF loader
      <2> QED BY <2>2 DEF ScanInv, NoImage
<1>11. handleOf' = handleOf
      BY <1>b DEF loader
<1>12. HandlesInv'
      BY <1>a, <1>11, HandlesKept
<1>13. RunningInv'
      <2>1. \A m \in Images \ {started} :
                HasTask(m)' => HasTask(m) /\ m \notin ImagesOf(gone)
            BY <1>4
      <2>2. started \in Images => started # NoImage
            BY DEF Images, NoImage
      <2> QED BY <1>a, <1>11, <2>1, <2>2, RunningKept
<1>14. OwnInv'
      BY <1>a, <1>b, <1>5, <1>6, <1>11, OwnKept DEF loader
<1> QED BY <1>2, <1>8, <1>9, <1>10, <1>12, <1>13, <1>14 DEF ElfRest

LEMMA GoneAreApps == ASSUME TypeOK, NEW moved PROVE Gone(moved) \in SUBSET Apps
<1>1. \A i \in Slots : Holds(i) => slots[i].app \in Apps
      BY DEF TypeOK, Holds
<1> QED BY <1>1 DEF Gone

\* The app that a launch creates is in its slot afterwards: an app that is not in
\* memory is not evicted.
LEMMA CreatedIsThere ==
    ASSUME TypeOK, OneForeground, NEW a \in Apps, LaunchApp(a), Creates(a)
    PROVE  /\ \E i \in Slots : /\ i <= slotCount' /\ slots'[i].app = a
                               /\ slots'[i].state # "Unloaded"
           /\ a \notin Gone(TRUE)
<1>1. PICK t \in Slots, v \in Slots \cup {Nobody} :
          /\ Holds(t) /\ slots[t].app = a /\ slots[t].handle # foreground
          /\ Yields(v)
          /\ slots' = [Evicted(v) EXCEPT ![t].state = "Running", ![t].used = uptime]
      BY DEF LaunchApp
<1>2. slotCount' = slotCount
      BY DEF LaunchApp
<1>3. PICK u \in Slots : Holds(u) /\ slots[u].app = a /\ slots[u].state = "Unloaded"
      BY DEF Creates
<1>4. u = t
      BY <1>1, <1>3 DEF OneForeground
<1>5. Vacated[t] = slots[t]
      BY <1>1 DEF Vacated, GivesWay, IsForeground
<1>6. t # v
      <2>1. ASSUME t = v PROVE FALSE
            <3>1. v # Nobody
                  BY <2>1, LimitsAssumption DEF Slots, Nobody
            <3>2. Victim(Vacated, v)
                  BY <1>1, <3>1 DEF Yields
            <3>3. Evictable(Vacated, v)
                  BY <3>1, <3>2 DEF Victim
            <3> QED BY <2>1, <3>3, <1>3, <1>4, <1>5 DEF Evictable
      <2> QED BY <2>1
<1>7. Evicted(v)[t] = slots[t] /\ Evicted(v)[t] \in SlotRecord
      BY <1>5, <1>6, EvictedTyped DEF Evicted
<1>8. slots'[t].app = a /\ slots'[t].state = "Running"
      <2>1. Evicted(v) \in [Slots -> SlotRecord]
            BY EvictedTyped
      <2> QED BY <1>1, <1>7, <2>1 DEF SlotRecord
<1>9. \A i \in Slots : Holds(i) /\ slots[i].app = a => i = t
      BY <1>1 DEF OneForeground
<1>10. ~GivesWay(t) /\ a # NoApp
      BY <1>1, AppsAssumption DEF GivesWay, IsForeground
<1>11. a \notin Gone(TRUE)
      BY <1>8, <1>9, <1>10 DEF Gone
<1> QED BY <1>1, <1>2, <1>8, <1>11 DEF Holds

\* When only the slots change, only what speaks of slots is at stake.
LEMMA ElsewhereKept ==
    ASSUME ElfRest, UNCHANGED elfVars
    PROVE  /\ LoaderTyped' /\ ImagesTyped' /\ TrustTyped' /\ StorageTyped'
           /\ TablesInv' /\ ScanInv' /\ ImagesInv' /\ OwnInv' /\ handleOf' = handleOf
<1>1. /\ debug' = debug /\ scan' = scan /\ fresh' = fresh /\ up' = up /\ handleOf' = handleOf
      /\ images' = images /\ starting' = starting /\ grants' = grants /\ held' = held
      /\ files' = files /\ open' = open /\ doing' = doing
      BY DEF elfVars, loader, trust, storage
<1>2. LoaderTyped' /\ ImagesTyped' /\ TrustTyped' /\ StorageTyped' /\ TablesInv'
      BY <1>1 DEF ElfRest, LoaderTyped, ImagesTyped, TrustTyped, StorageTyped, TablesInv,
                  Images
<1>3. ScanInv'
      BY <1>1 DEF ElfRest, ScanInv, Loaded
<1>4. GrantsInv'
      BY <1>1 DEF ElfRest, ImagesInv, GrantsInv, Loaded, Images, Identities
<1>5. StreamsInv'
      BY <1>1 DEF ElfRest, ImagesInv, StreamsInv, OwnersAreUnique, Loaded, Images
<1>6. LoadedRuns' /\ BoundWithinTrust'
      BY <1>1 DEF ElfRest, ImagesInv, LoadedRuns, BoundWithinTrust, Loaded, Images,
                     HasTask
<1>7. OwnInv'
      BY <1>1, OwnKept DEF ElfRest
<1> QED BY <1>1, <1>2, <1>3, <1>4, <1>5, <1>6, <1>7 DEF ImagesInv

LEMMA StillKeeps ==
    ASSUME ElfRest, UNCHANGED elfVars, Kept, Stays({}) PROVE ElfRest'
<1>1. handleOf' = handleOf /\ images' = images /\ starting' = starting
      BY DEF elfVars, loader
<1>2. HandlesInv'
      BY <1>1, HandlesKept DEF ElfRest
<1>3. RunningInv'
      <2>1. \A m \in Images \ {NoImage} :
                HasTask(m)' => HasTask(m) /\ m \notin ImagesOf({})
            BY <1>1 DEF ImagesOf, HasTask
      <2>2. NoImage \notin Images
            BY DEF Images, NoImage
      <2> QED BY <1>1, <2>1, <2>2, RunningKept DEF ElfRest
<1> QED BY <1>2, <1>3, ElsewhereKept DEF ElfRest

LEMMA TableUnchanged == ASSUME UNCHANGED table PROVE Kept /\ Stays({})
BY DEF table, Kept, Stays, Holds

LEMMA CallsKeep == ASSUME ElfInv, Calls PROVE ElfRest'
<1>a. TypeOK /\ OneForeground /\ ElfRest /\ up /\ starting = NoImage
      BY InvIs DEF TableInv, Calls
<1>1. ASSUME NEW a \in Apps, LaunchIdle(a) PROVE ElfRest'
      <2>1. UNCHANGED table /\ UNCHANGED elfVars
            BY <1>1 DEF LaunchIdle, LaunchNotFound, LaunchForeground
      <2> QED BY <1>a, <2>1, TableUnchanged, StillKeeps
<1>2. ASSUME NEW a \in Apps, LaunchElf(a) PROVE ElfRest'
      <2> DEFINE started == IF Creates(a) THEN handleOf[a] ELSE NoImage
      <2>1. Kept /\ Stays(Gone(TRUE)) /\ AfterCall(Gone(TRUE), started)
            BY <1>a, <1>2, LaunchAppMoves DEF LaunchElf
      <2>2. started \in Images \cup {NoImage}
            BY <1>a DEF ElfRest, LoaderTyped
      <2>3. ASSUME started # NoImage
            PROVE  /\ Loaded(started) /\ started \notin ImagesOf(Gone(TRUE))
                   /\ \E i \in Slots : /\ i <= slotCount' /\ slots'[i].app # NoApp
                                       /\ slots'[i].state # "Unloaded"
                                       /\ handleOf[slots'[i].app] = started
            <3>1. Creates(a) /\ started = handleOf[a] /\ CanStart(a)
                  BY <2>3, <1>2 DEF LaunchElf
            <3>2. a \notin Launchers
                  BY <2>3, <3>1, <1>a DEF ElfRest, HandlesInv
            <3>3. \E i \in Slots : /\ i <= slotCount' /\ slots'[i].app = a
                                   /\ slots'[i].state # "Unloaded"
                  BY <1>a, <1>2, <3>1, CreatedIsThere DEF LaunchElf
            <3>4. a # NoApp
                  BY AppsAssumption
            <3>5. Loaded(started)
                  BY <3>1, <3>2 DEF CanStart
            <3>6. \A b \in Apps : handleOf[b] = started => b = a
                  BY <1>a, <2>3, <3>1, <3>5 DEF ElfRest, OwnInv
            <3>7. a \notin Gone(TRUE) /\ Gone(TRUE) \subseteq Apps
                  BY <1>a, <1>2, <3>1, CreatedIsThere, GoneAreApps DEF LaunchElf
            <3>8. started \notin ImagesOf(Gone(TRUE))
                  BY <3>6, <3>7 DEF ImagesOf
            <3> QED BY <3>1, <3>3, <3>4, <3>5, <3>8
      <2>4. Gone(TRUE) \in SUBSET Apps
            BY <1>a, GoneAreApps
      <2> HIDE DEF started
      <2> QED BY <1>a, <2>1, <2>2, <2>3, <2>4, AfterCallKeeps
<1>3. ASSUME NEW a \in Apps, LaunchElfFails(a) PROVE ElfRest'
      <2>1. Kept /\ Stays(Gone(TRUE)) /\ AfterCall(Gone(TRUE), NoImage)
            BY <1>a, <1>3, LaunchFailsMoves DEF LaunchElfFails
      <2> QED BY <1>a, <2>1, GoneAreApps, AfterCallKeeps
<1>4. ASSUME EndElf PROVE ElfRest'
      <2>1. Kept /\ Stays(Gone(FALSE)) /\ AfterCall(Gone(FALSE), NoImage)
            BY <1>a, <1>4, EndMoves DEF EndElf
      <2> QED BY <1>a, <2>1, GoneAreApps, AfterCallKeeps
<1>5. ASSUME SuspendElf PROVE ElfRest'
      <2>1. Kept /\ Stays({}) /\ UNCHANGED elfVars
            BY <1>a, <1>5, SuspendMoves DEF SuspendElf
      <2> QED BY <1>a, <2>1, StillKeeps
<1>6. ASSUME TickElf PROVE ElfRest'
      <2>1. UNCHANGED table /\ UNCHANGED elfVars
            BY <1>6 DEF TickElf, Tick
      <2> QED BY <1>a, <2>1, TableUnchanged, StillKeeps
<1> QED BY <1>1, <1>2, <1>3, <1>4, <1>5, <1>6 DEF Calls

-----------------------------------------------------------------------------
(* The steps of the boot                                                   *)

\* The table of permissions has room for what is added to it.
LEMMA HeldTyped ==
    ASSUME IsFiniteSet(held), held \subseteq Identities, Cardinality(held) <= MaxGrants,
           NEW i \in Identities, ~TableIsFull(i)
    PROVE  /\ IsFiniteSet(held \cup {i}) /\ held \cup {i} \subseteq Identities
           /\ Cardinality(held \cup {i}) <= MaxGrants
<1>1. CASE i \in held
      <2>1. held \cup {i} = held
            BY <1>1
      <2> QED BY <2>1
<1>2. CASE i \notin held
      <2>1. Cardinality(held) \in Nat /\ Cardinality(held \cup {i}) = Cardinality(held) + 1
            BY <1>2, FS_AddElement, FS_CardinalityType
      <2>2. ~(Cardinality(held) >= MaxGrants)
            BY <1>2 DEF TableIsFull
      <2>3. Cardinality(held \cup {i}) <= MaxGrants
            BY <2>1, <2>2, FilesAssumption
      <2> QED BY <2>3, FS_AddElement
<1> QED BY <1>1, <1>2

LEMMA LauncherRegistered ==
    ASSUME ElfInv, NEW l \in Launchers, RegisterLauncher(l) PROVE ElfRest'
<1>a. TypeOK /\ ElfRest /\ HandlesInv /\ RunningInv
      BY InvIs DEF ElfRest
<1>b. Register(l) /\ UNCHANGED elfVars /\ handleOf' = handleOf /\ images' = images
      /\ starting' = starting
      BY DEF RegisterLauncher, elfVars, loader
<1>1. HandlesInv'
      <2>1. \A i \in Slots : i <= slotCount' /\ slots'[i].app # NoApp
                                 /\ slots'[i].app \notin Launchers
                             => handleOf'[slots'[i].app] \in Images
            BY <1>a, <1>b, RegisterMoves DEF HandlesInv
      <2> QED BY <1>a, <1>b, <2>1 DEF HandlesInv, Holds, Images
<1>2. Stays({})
      BY <1>a, <1>b, RegisterMoves DEF Stays
<1>3. RunningInv'
      <2>1. \A m \in Images \ {NoImage} :
                HasTask(m)' => HasTask(m) /\ m \notin ImagesOf({})
            BY <1>b DEF ImagesOf, HasTask
      <2>2. NoImage \notin Images
            BY DEF Images, NoImage
      <2> QED BY <1>a, <1>b, <1>2, <2>1, <2>2, RunningKept
<1> QED BY <1>a, <1>b, <1>1, <1>3, ElsewhereKept DEF ElfRest

\* A file without a manifest is unloaded again; the app of any other has callbacks of
\* the first image that came for it.
LEMMA AppRegistered == ASSUME ElfInv, RegisterApp PROVE ElfRest'
<1>a. /\ TypeOK /\ ElfTypeOK /\ ElfRest /\ LoaderTyped /\ ImagesTyped
      /\ ScanInv /\ HandlesInv /\ RunningInv /\ TablesInv /\ ImagesInv /\ OwnInv
      BY InvIs, TypesAre DEF ElfRest
<1>b. /\ fresh \in Images /\ Loaded(fresh) /\ images[fresh].file \in Files
      /\ ~up /\ fresh' = NoImage /\ debug' = debug /\ scan' = scan /\ up' = up
      /\ starting' = starting /\ starting = NoImage
      <2>1. fresh # NoImage /\ fresh' = NoImage /\ UNCHANGED <<debug, scan, up, starting>>
            BY DEF RegisterApp
      <2> QED BY <1>a, <2>1 DEF LoaderTyped, ImagesTyped, ImageRecord, ScanInv, Loaded, OwnInv
<1>1. ScanInv'
      BY <1>b DEF ScanInv, NoImage
<1> DEFINE f == images[fresh].file
           a == f.json.id
<1>2. HasManifest(f) => a \in Apps \ Launchers
      BY <1>b, FileTyped
<1> HIDE DEF a
<1>3. CASE /\ HasManifest(f) /\ Register(a)
           /\ handleOf' = IF Registered(a) THEN handleOf ELSE [handleOf EXCEPT ![a] = fresh]
           /\ UNCHANGED <<images, trust, storage>>
      <2>1. /\ images' = images /\ grants' = grants /\ held' = held
            /\ files' = files /\ open' = open /\ doing' = doing
            BY <1>3 DEF trust, storage
      <2>2. handleOf \in [Apps -> Images \cup {NoImage}] /\ a \in Apps \ Launchers
            BY <1>a, <1>2, <1>3 DEF LoaderTyped
      <2>3. LoaderTyped'
            <3>1. handleOf' \in [Apps -> Images \cup {NoImage}]
                  BY <1>3, <1>b, <2>2
            <3> QED BY <1>a, <1>b, <3>1 DEF LoaderTyped, Images, NoImage
      <2>4. ImagesTyped' /\ TrustTyped' /\ StorageTyped' /\ TablesInv'
            BY <1>a, <1>b, <2>1 DEF ElfRest, ImagesTyped, TrustTyped, StorageTyped, TablesInv, Images
      <2>5. ImagesInv'
            <3>1. GrantsInv'
                  BY <1>a, <2>1 DEF ImagesInv, GrantsInv, Loaded, Images, Identities
            <3>2. StreamsInv'
                  BY <1>a, <2>1 DEF ImagesInv, StreamsInv, OwnersAreUnique, Loaded, Images
            <3>3. LoadedRuns' /\ BoundWithinTrust'
                  BY <1>a, <1>b, <2>1 DEF ImagesInv, LoadedRuns, BoundWithinTrust, Loaded, Images, HasTask
            <3> QED BY <3>1, <3>2, <3>3 DEF ImagesInv
      <2>6. \A b \in Apps : b # a \/ Registered(a) => handleOf'[b] = handleOf[b]
            BY <1>3, <2>2
      <2>7. ~Registered(a) => handleOf'[a] = fresh
            BY <1>3, <2>2
      <2>8. \A i \in Slots : i <= slotCount' /\ slots'[i].app # NoApp =>
                \/ Holds(i) /\ slots'[i] = slots[i] /\ slots[i].app \in Apps
                   /\ handleOf'[slots[i].app] = handleOf[slots[i].app]
                \/ slots'[i].app = a /\ ~Registered(a)
            <3> SUFFICES ASSUME NEW i \in Slots, i <= slotCount', slots'[i].app # NoApp,
                                ~(slots'[i].app = a /\ ~Registered(a))
                         PROVE  /\ Holds(i) /\ slots'[i] = slots[i] /\ slots[i].app \in Apps
                                /\ handleOf'[slots[i].app] = handleOf[slots[i].app]
                OBVIOUS
            <3>1. Holds(i) /\ slots'[i] = slots[i]
                  BY <1>a, <1>3, RegisterMoves
            <3>2. slots[i].app \in Apps
                  BY <1>a, <3>1 DEF TypeOK, Holds
            <3>3. slots[i].app # a \/ Registered(a)
                  BY <3>1
            <3> QED BY <2>6, <3>1, <3>2, <3>3
      <2>9. HandlesInv'
            <3>1. \A l \in Launchers : handleOf'[l] = NoImage
                  BY <1>a, <2>2, <2>6, AppsAssumption DEF HandlesInv
            <3>2. \A i \in Slots : i <= slotCount' /\ slots'[i].app # NoApp
                                       /\ slots'[i].app \notin Launchers
                                   => handleOf'[slots'[i].app] \in Images
                  BY <1>a, <1>b, <2>7, <2>8 DEF HandlesInv
            <3> QED BY <3>1, <3>2 DEF HandlesInv, Holds, Images, NoImage
      <2>10. RunningInv'
            <3> SUFFICES ASSUME NEW m \in Images, HasTask(m)'
                         PROVE  \E i \in Slots : /\ i <= slotCount' /\ slots'[i].app # NoApp
                                                 /\ slots'[i].state # "Unloaded"
                                                 /\ handleOf'[slots'[i].app] = m
                BY DEF RunningInv, Holds, Images
            <3>1. PICK i \in Slots : /\ Holds(i) /\ slots[i].state # "Unloaded"
                                     /\ handleOf[slots[i].app] = m
                  BY <1>a, <1>b, <2>1 DEF RunningInv, HasTask
            <3>2. i <= slotCount' /\ slots'[i] = slots[i]
                  BY <1>a, <1>3, <3>1, RegisterMoves
            <3>3. slots[i].app \in Apps /\ Registered(slots[i].app)
                  BY <1>a, <3>1 DEF TypeOK, Holds, Registered
            <3>4. handleOf'[slots[i].app] = m
                  BY <2>6, <3>1, <3>3
            <3> QED BY <3>1, <3>2, <3>4 DEF Holds
      <2>11. OwnInv'
            <3>1. Identity(f) = a
                  BY <1>3 DEF Identity, a
            <3>2. \A b \in Apps :
                      handleOf'[b] = handleOf[b] \/ (b = a /\ handleOf'[b] = fresh)
                  BY <2>6, <2>7
            <3>3. \A b \in Apps : handleOf'[b] # NoImage =>
                      /\ images[handleOf'[b]].file # NoFile
                      /\ Identity(images[handleOf'[b]].file) = b
                  BY <1>a, <1>b, <3>1, <3>2 DEF OwnInv, Loaded
            <3>4. \A b \in Apps : handleOf'[b] # NoImage => handleOf'[b] # fresh'
                  BY <1>b
            <3> QED BY <1>b, <2>1, <3>3, <3>4 DEF OwnInv, Loaded, NoImage
      <2> QED BY <1>1, <2>3, <2>4, <2>5, <2>9, <2>10, <2>11 DEF ElfRest
<1>4. CASE Unload({fresh}) /\ images' = Emptied({fresh}) /\ UNCHANGED <<vars, handleOf>>
      <2>1. ImagesTyped'
            BY <1>a, <1>b, <1>4, EmptiedTyped DEF ImagesTyped, Images
      <2>2. \A m \in Images : images'[m] = IF m = fresh THEN EmptyImage ELSE images[m]
            BY <1>4 DEF Emptied
      <2>3. EmptyImage.file = NoFile /\ EmptyImage.running = FALSE
            BY DEF EmptyImage
      <2>10. starting # fresh
            BY <1>b DEF Images, NoImage
      <2>4. \A m \in Images : HasTask(m)' => images'[m].file # NoFile
            BY <1>a, <1>b, <2>2, <2>3, <2>10 DEF ImagesInv, LoadedRuns, Loaded, HasTask
      <2>5. TrustTyped' /\ StorageTyped' /\ TablesInv' /\ ImagesInv'
            <3>1. {fresh} \in SUBSET Images
                  BY <1>b
            <3>2. \A m \in Images \ {fresh} : /\ images'[m].file = images[m].file
                                              /\ images'[m].granted = images[m].granted
                  BY <2>2
            <3>3. \A m \in {fresh} : images'[m].file \in {NoFile, images[m].file}
                  BY <1>b, <2>2, <2>3
            <3> QED BY <1>a, <1>4, <2>1, <2>4, <3>1, <3>2, <3>3, UnloadKeeps
      <2>6. UNCHANGED table /\ handleOf' = handleOf
            BY <1>4 DEF vars
      <2>7. LoaderTyped'
            BY <1>a, <1>b, <2>6 DEF LoaderTyped, Images, NoImage
      <2>8. HandlesInv'
            BY <1>a, <2>6, TableUnchanged, HandlesKept
      <2>9. RunningInv'
            <3>1. \A m \in Images \ {NoImage} :
                      HasTask(m)' => HasTask(m) /\ m \notin ImagesOf({})
                  BY <1>b, <2>2, <2>3 DEF ImagesOf, HasTask
            <3>2. NoImage \notin Images
                  BY DEF Images, NoImage
            <3> QED BY <1>a, <2>6, <3>1, <3>2, TableUnchanged, RunningKept
      <2>11. OwnInv'
            <3>1. \A b \in Apps : handleOf[b] # NoImage => handleOf[b] \in Images \ {fresh}
                  BY <1>a, <1>b DEF OwnInv, LoaderTyped
            <3>2. \A b \in Apps : handleOf[b] # NoImage =>
                      images'[handleOf[b]] = images[handleOf[b]]
                  BY <2>2, <3>1
            <3> QED BY <1>a, <1>b, <2>6, <3>1, <3>2 DEF OwnInv, Loaded, NoImage
      <2> QED BY <1>1, <2>1, <2>5, <2>7, <2>8, <2>9, <2>11 DEF ElfRest
<1> QED BY <1>3, <1>4 DEF RegisterApp, a

\* What every step of the scan leaves alone, and where the launcher is not yet up
LEMMA ScanFrame ==
    ASSUME ElfInv, NEW f \in Files, Scans(f)
    PROVE  /\ ~up /\ fresh = NoImage /\ scan' \subseteq Files
           /\ slots' = slots /\ slotCount' = slotCount /\ handleOf' = handleOf
           /\ debug' = debug /\ up' = up
           /\ starting' = starting /\ starting = NoImage
           /\ files' = files /\ open' = open /\ doing' = doing
           /\ Kept /\ Stays({}) /\ HandlesInv' /\ StorageTyped' /\ IsFiniteSet(files')
<1>a. ElfRest
      BY InvIs
<1>1. /\ slots' = slots /\ slotCount' = slotCount /\ handleOf' = handleOf
      /\ debug' = debug /\ up' = up /\ files' = files /\ open' = open /\ doing' = doing
      /\ starting' = starting /\ UNCHANGED table
      BY DEF Scans, storage, vars, table
<1>2. ~up /\ fresh = NoImage /\ scan' \subseteq Files /\ starting = NoImage
      BY <1>a DEF Scans, ElfRest, ScanInv, LoaderTyped, OwnInv
<1>3. Kept /\ Stays({})
      BY <1>1, TableUnchanged
<1>4. HandlesInv'
      BY <1>a, <1>1, <1>3, HandlesKept DEF ElfRest
<1>5. StorageTyped' /\ IsFiniteSet(files')
      BY <1>a, <1>1 DEF ElfRest, StorageTyped, TablesInv, Images
<1> QED BY <1>1, <1>2, <1>3, <1>4, <1>5

\* A step that starts no task keeps those that run.
LEMMA NobodyStarts ==
    ASSUME HandlesInv, RunningInv, Stays({}), handleOf' = handleOf,
           \A m \in Images : HasTask(m)' => HasTask(m)
    PROVE  RunningInv'
<1>1. NoImage \notin Images
      BY DEF Images, NoImage
<1>2. \A m \in Images \ {NoImage} :
          HasTask(m)' => HasTask(m) /\ m \notin ImagesOf({})
      BY DEF ImagesOf
<1> QED BY <1>1, <1>2, RunningKept

LEMMA SkipKeeps == ASSUME ElfInv, NEW f \in Files, SkipFile(f) PROVE ElfRest'
<1>a. ElfRest /\ Scans(f)
      BY InvIs DEF SkipFile
<1>1. fresh' = fresh /\ images' = images /\ grants' = grants /\ held' = held
      BY DEF SkipFile, trust
<1>2. LoaderTyped' /\ ImagesTyped' /\ TrustTyped' /\ TablesInv' /\ ScanInv'
      <2>1. LoaderTyped'
            BY <1>a, <1>1, ScanFrame DEF ElfRest, LoaderTyped, Images, NoImage
      <2>2. ImagesTyped' /\ TrustTyped' /\ TablesInv'
            BY <1>a, <1>1, ScanFrame
            DEF ElfRest, ImagesTyped, TrustTyped, TablesInv, Images
      <2>3. ScanInv'
            BY <1>a, <1>1, ScanFrame DEF ScanInv, NoImage
      <2> QED BY <2>1, <2>2, <2>3
<1>3. ImagesInv'
      <2>1. GrantsInv'
            BY <1>a, <1>1 DEF ElfRest, ImagesInv, GrantsInv, Loaded, Images, Identities
      <2>2. StreamsInv'
            BY <1>a, <1>1, ScanFrame
            DEF ElfRest, ImagesInv, StreamsInv, OwnersAreUnique, Loaded, Images
      <2>3. LoadedRuns' /\ BoundWithinTrust'
            BY <1>a, <1>1, ScanFrame DEF ElfRest, ImagesInv, LoadedRuns, BoundWithinTrust, Loaded, Images,
                     HasTask
      <2> QED BY <2>1, <2>2, <2>3 DEF ImagesInv
<1>4. RunningInv'
      BY <1>a, <1>1, ScanFrame, NobodyStarts DEF ElfRest, HasTask
<1>o. OwnInv'
      BY <1>a, <1>1, ScanFrame, OwnKept DEF ElfRest
<1> QED BY <1>a, <1>o, <1>2, <1>3, <1>4, ScanFrame DEF ElfRest

LEMMA LoadFailsKeeps == ASSUME ElfInv, NEW f \in Files, LoadFails(f) PROVE ElfRest'
<1>a. ElfRest /\ Scans(f) /\ GrantsInv /\ LoaderTyped /\ TrustTyped /\ TablesInv
      BY InvIs DEF LoadFails, ElfRest, ImagesInv
<1>1. fresh' = fresh /\ images' = images
      BY DEF LoadFails
<1>2. Identity(f) \in Identities
      BY FileTyped
<1>3. /\ grants' \in [Identities -> SUBSET Permissions]
      /\ \A i \in Identities : grants'[i] \subseteq grants[i]
      <2>1. grants \in [Identities -> SUBSET Permissions]
            BY <1>a DEF TrustTyped
      <2>2. grants' = [grants EXCEPT ![Identity(f)] = {} \ Trusted(f)]
            BY <1>2, <2>1 DEF LoadFails, Cleared
      <2> QED BY <1>2, <2>1, <2>2
<1>4. IsFiniteSet(held') /\ held' \subseteq Identities /\ Cardinality(held') <= MaxGrants
      <2>1. IsFiniteSet(held) /\ held \subseteq Identities /\ Cardinality(held) <= MaxGrants
            BY <1>a DEF TrustTyped, TablesInv
      <2>2. CASE held' = held
            BY <2>1, <2>2
      <2>3. CASE held' = held \cup {Identity(f)} /\ ~TableIsFull(Identity(f))
            BY <1>2, <2>1, <2>3, HeldTyped
      <2> QED BY <2>2, <2>3 DEF LoadFails
<1>5. LoaderTyped' /\ ImagesTyped' /\ TrustTyped' /\ TablesInv' /\ ScanInv'
      <2>1. LoaderTyped'
            BY <1>a, <1>1, ScanFrame DEF LoaderTyped, Images, NoImage
      <2>2. ImagesTyped' /\ TrustTyped' /\ TablesInv'
            BY <1>a, <1>1, <1>3, <1>4, ScanFrame
            DEF ElfRest, ImagesTyped, TrustTyped, TablesInv, Images, Identities
      <2>3. ScanInv'
            BY <1>a, <1>1, ScanFrame DEF ScanInv, NoImage
      <2> QED BY <2>1, <2>2, <2>3
<1>6. ImagesInv'
      <2>1. GrantsInv'
            BY <1>a, <1>1, <1>3 DEF GrantsInv, Loaded, Images, Identities
      <2>2. StreamsInv'
            BY <1>a, <1>1, ScanFrame
            DEF ElfRest, ImagesInv, StreamsInv, OwnersAreUnique, Loaded, Images
      <2>3. LoadedRuns' /\ BoundWithinTrust'
            BY <1>a, <1>1, ScanFrame DEF ElfRest, ImagesInv, LoadedRuns, BoundWithinTrust, Loaded, Images,
                     HasTask
      <2> QED BY <2>1, <2>2, <2>3 DEF ImagesInv
<1>7. RunningInv'
      BY <1>a, <1>1, ScanFrame, NobodyStarts DEF ElfRest, HasTask
<1>o. OwnInv'
      BY <1>a, <1>1, ScanFrame, OwnKept DEF ElfRest
<1> QED BY <1>a, <1>o, <1>5, <1>6, <1>7, ScanFrame DEF ElfRest

\* The new image is bound under what its own file is trusted with: nothing is left of
\* an earlier app with its identity.
LEMMA LoadKeeps == ASSUME ElfInv, NEW f \in Files, LoadApp(f) PROVE ElfRest'
<1>a. /\ ElfRest /\ Scans(f) /\ LoaderTyped /\ ImagesTyped /\ TrustTyped /\ TablesInv
      /\ GrantsInv /\ StreamsInv /\ LoadedRuns /\ BoundWithinTrust
      BY InvIs DEF LoadApp, ElfRest, ImagesInv
<1>b. Identity(f) \in Identities /\ Trusted(f) \subseteq Permissions /\ f # NoFile
      BY FileTyped, FilesAssumption
<1> DEFINE new == [file |-> f, running |-> FALSE, granted |-> Trusted(f)]
<1>1. PICK m \in Images : ~Loaded(m) /\ images' = [images EXCEPT ![m] = new] /\ fresh' = m
      BY DEF LoadApp, FreeImages
<1>2. new \in ImageRecord /\ new.file = f /\ new.running = FALSE /\ new.granted = Trusted(f)
      BY <1>b DEF ImageRecord
<1> HIDE DEF new
<1>3. ImagesTyped'
      BY <1>a, <1>1, <1>2, ScanFrame DEF ImagesTyped, Images
<1>4. images'[m] = new /\ \A n \in Images : n # m => images'[n] = images[n]
      BY <1>a, <1>1 DEF ImagesTyped
<1>5. /\ grants' \in [Identities -> SUBSET Permissions]
      /\ grants'[Identity(f)] = Trusted(f)
      /\ \A i \in Identities : i # Identity(f) => grants'[i] = grants[i]
      <2>1. grants \in [Identities -> SUBSET Permissions]
            BY <1>a DEF TrustTyped
      <2>2. grants' = [grants EXCEPT ![Identity(f)] = {} \cup Trusted(f)]
            BY <1>b, <2>1 DEF LoadApp, Cleared
      <2> QED BY <1>b, <2>1, <2>2
<1>6. IsFiniteSet(held') /\ held' \subseteq Identities /\ Cardinality(held') <= MaxGrants
      <2>1. IsFiniteSet(held) /\ held \subseteq Identities /\ Cardinality(held) <= MaxGrants
            BY <1>a DEF TrustTyped, TablesInv
      <2>2. CASE held' = held
            BY <2>1, <2>2
      <2>3. CASE held' = held \cup {Identity(f)} /\ ~TableIsFull(Identity(f))
            BY <1>b, <2>1, <2>3, HeldTyped
      <2> QED BY <2>2, <2>3 DEF LoadApp
<1>7. LoaderTyped' /\ TrustTyped' /\ TablesInv' /\ ScanInv'
      <2>1. LoaderTyped'
            BY <1>a, <1>1, ScanFrame DEF LoaderTyped, Images, NoImage
      <2>2. TrustTyped' /\ TablesInv'
            BY <1>5, <1>6, <1>a, ScanFrame DEF TrustTyped, TablesInv, Identities
      <2>3. ScanInv'
            BY <1>a, <1>b, <1>1, <1>2, <1>4, ScanFrame DEF ScanInv, Loaded
      <2> QED BY <2>1, <2>2, <2>3
<1>8. GrantsInv'
      <2> SUFFICES ASSUME NEW i \in Identities \ Launchers, NEW p \in grants'[i]
                   PROVE  \E n \in Images : /\ images'[n].file # NoFile
                                            /\ Identity(images'[n].file) = i
                                            /\ p \in images'[n].granted
          BY DEF GrantsInv, Loaded, Identities
      <2>1. CASE i = Identity(f)
            BY <1>b, <1>2, <1>4, <1>5, <2>1
      <2>2. CASE i # Identity(f)
            <3>1. PICK n \in Images : /\ Loaded(n) /\ Identity(images[n].file) = i
                                      /\ p \in images[n].granted
                  BY <1>a, <1>5, <2>2 DEF GrantsInv
            <3>2. n # m
                  BY <1>1, <3>1
            <3> QED BY <1>4, <3>1, <3>2 DEF Loaded
      <2> QED BY <2>1, <2>2
<1>9. StreamsInv'
      <2>1. \A n \in Images : images[n].file # NoFile => images'[n].file # NoFile
            BY <1>b, <1>2, <1>4
      <2>2. \A e \in files : e.image \in Images
            BY <1>a DEF ElfRest, StorageTyped
      <2> QED BY <1>a, <2>1, <2>2, ScanFrame
              DEF StreamsInv, OwnersAreUnique, Loaded, Images
<1>10. LoadedRuns'
      <2>1. \A n \in Images : HasTask(n)' => images'[n].file # NoFile
            BY <1>2, <1>4, <1>a, ScanFrame DEF LoadedRuns, Loaded, HasTask, Images, NoImage
      <2> QED BY <2>1 DEF LoadedRuns, Loaded, Images
<1>11. BoundWithinTrust'
      <2>1. \A family \in f.imports : Resolves(f, family, grants')
            BY DEF LoadApp
      <2>2. WithinTrust(f)
            BY <1>5, <2>1, ResolvedIsTrusted DEF WithinTrust
      <2>3. ASSUME NEW n \in Images, images'[n].file # NoFile
            PROVE  WithinTrust(images'[n].file)
            <3>1. CASE n = m
                  BY <1>2, <1>4, <2>2, <3>1
            <3>2. CASE n # m
                  BY <1>a, <1>4, <2>3, <3>2, BoundIsWithin DEF Loaded
            <3> QED BY <3>1, <3>2
      <2> QED BY <2>3 DEF BoundWithinTrust, WithinTrust, Loaded, Images
<1>12. RunningInv'
      <2>1. \A n \in Images : HasTask(n)' => HasTask(n)
            <3> TAKE n \in Images
            <3>1. n # starting /\ n # starting'
                  BY <1>a, ScanFrame DEF Images, NoImage
            <3>2. ~images'[m].running
                  BY <1>2, <1>4
            <3> QED BY <1>4, <3>1, <3>2 DEF HasTask
      <2> QED BY <1>a, <2>1, ScanFrame, NobodyStarts DEF ElfRest
<1>13. OwnInv'
      <2>1. \A b \in Apps : handleOf[b] # NoImage => handleOf[b] \in Images \ {m}
            BY <1>a, <1>1, ScanFrame DEF ElfRest, OwnInv, LoaderTyped
      <2>2. \A b \in Apps : handleOf[b] # NoImage => images'[handleOf[b]] = images[handleOf[b]]
            BY <1>4, <2>1
      <2> QED BY <1>a, <1>1, <2>1, <2>2, ScanFrame DEF ElfRest, OwnInv, Loaded, NoImage
<1> QED BY <1>a, <1>3, <1>7, <1>8, <1>9, <1>10, <1>11, <1>12, <1>13, ScanFrame DEF ElfRest, ImagesInv

LEMMA ScanEndsKeeps == ASSUME ElfInv, ScanEnds PROVE ElfRest'
<1>a. /\ ElfRest /\ LoaderTyped /\ TrustTyped /\ TablesInv /\ GrantsInv
      /\ HandlesInv /\ RunningInv /\ ImagesInv /\ OwnInv
      BY InvIs DEF ElfRest, ImagesInv
<1>1. /\ scan' = scan /\ fresh' = fresh /\ handleOf' = handleOf /\ images' = images
      /\ debug' = debug /\ up' = TRUE /\ scan = {} /\ fresh = NoImage
      /\ files' = files /\ open' = open /\ doing' = doing /\ UNCHANGED table
      /\ starting' = starting
      BY DEF ScanEnds, storage, vars
<1>2. PICK l \in Launchers :
          IF TableIsFull(l) THEN UNCHANGED trust
          ELSE /\ grants' = [grants EXCEPT ![l] = Permissions]
               /\ held' = held \cup {l}
      BY DEF ScanEnds
<1>3. l \in Identities
      BY AppsAssumption DEF Identities
<1>4. TrustTyped' /\ IsFiniteSet(held')
      <2>1. CASE UNCHANGED trust
            BY <1>a, <2>1 DEF trust, TrustTyped, TablesInv, Identities
      <2>2. CASE ~TableIsFull(l)
            <3>1. IsFiniteSet(held') /\ held' \subseteq Identities
                  /\ Cardinality(held') <= MaxGrants
                  BY <1>a, <1>2, <1>3, <2>2, HeldTyped DEF TrustTyped, TablesInv
            <3>2. grants' \in [Identities -> SUBSET Permissions]
                  BY <1>a, <1>2, <2>2 DEF TrustTyped
            <3> QED BY <3>1, <3>2 DEF TrustTyped, Identities
      <2> QED BY <1>2, <2>1, <2>2
<1>5. \A i \in Identities \ Launchers : grants'[i] = grants[i]
      BY <1>a, <1>2 DEF TrustTyped, trust
<1>6. LoaderTyped' /\ ImagesTyped' /\ StorageTyped' /\ TablesInv' /\ ScanInv'
      <2>1. LoaderTyped'
            BY <1>a, <1>1 DEF LoaderTyped, Images, NoImage
      <2>2. ImagesTyped' /\ StorageTyped' /\ TablesInv'
            BY <1>a, <1>1, <1>4 DEF ElfRest, ImagesTyped, StorageTyped, TablesInv, Images
      <2>3. ScanInv'
            BY <1>1 DEF ScanInv, NoImage
      <2> QED BY <2>1, <2>2, <2>3
<1>7. ImagesInv'
      <2>1. GrantsInv'
            BY <1>a, <1>1, <1>5 DEF GrantsInv, Loaded, Images, Identities
      <2>2. StreamsInv'
            BY <1>a, <1>1 DEF ImagesInv, StreamsInv, OwnersAreUnique, Loaded, Images
      <2>3. LoadedRuns' /\ BoundWithinTrust'
            BY <1>a, <1>1 DEF ImagesInv, LoadedRuns, BoundWithinTrust, Loaded, Images, HasTask
      <2> QED BY <2>1, <2>2, <2>3 DEF ImagesInv
<1>8. Kept /\ Stays({})
      BY <1>1, TableUnchanged
<1>9. HandlesInv' /\ RunningInv' /\ OwnInv'
      BY <1>a, <1>1, <1>8, HandlesKept, NobodyStarts, OwnKept DEF HasTask
<1> QED BY <1>4, <1>6, <1>7, <1>9 DEF ElfRest

LEMMA BootKeeps == ASSUME ElfInv, Boot PROVE ElfRest'
<1>1. ASSUME NEW a \in Apps, List(a) PROVE ElfRest'
      <2>1. UNCHANGED table /\ UNCHANGED elfVars
            BY <1>1 DEF List, ListManifest
      <2> QED BY <2>1, InvIs, TableUnchanged, StillKeeps
<1> QED BY <1>1, SkipKeeps, LoadFailsKeeps, LoadKeeps, AppRegistered, ScanEndsKeeps,
           LauncherRegistered
        DEF Boot

-----------------------------------------------------------------------------
(* The steps of the tasks                                                  *)

\* A step of a task moves streams and ends the task at most; noting that a task runs
\* starts none.
LEMMA TaskKeeps ==
    ASSUME ElfInv, UNCHANGED <<vars, loader, trust>>, StorageTyped', StreamsInv',
           IsFiniteSet(files'), starting' \in {starting, NoImage},
           \A m \in Images : HasTask(m)' => HasTask(m),
           images' = images \/
               \E m \in Images, b \in BOOLEAN : images' = [images EXCEPT ![m].running = b]
    PROVE  ElfRest'
<1>a. /\ ElfRest /\ LoaderTyped /\ ImagesTyped /\ TrustTyped /\ TablesInv /\ ScanInv
      /\ GrantsInv /\ LoadedRuns /\ BoundWithinTrust /\ HandlesInv /\ RunningInv
      /\ OwnInv
      BY InvIs DEF ElfRest, ImagesInv
<1>1. /\ scan' = scan /\ fresh' = fresh /\ handleOf' = handleOf /\ debug' = debug
      /\ up' = up /\ grants' = grants /\ held' = held /\ UNCHANGED table
      BY DEF vars, loader, trust
<1>2. /\ ImagesTyped'
      /\ \A m \in Images : /\ images'[m].file = images[m].file
                           /\ images'[m].granted = images[m].granted
      <2>1. images \in [Images -> ImageRecord]
            BY <1>a DEF ImagesTyped
      <2>2. ASSUME NEW n \in Images, NEW b \in BOOLEAN,
                   images' = [images EXCEPT ![n].running = b]
            PROVE  /\ images' \in [Images -> ImageRecord]
                   /\ \A m \in Images : /\ images'[m].file = images[m].file
                                        /\ images'[m].granted = images[m].granted
            <3>1. images[n] \in ImageRecord
                  BY <2>1
            <3>2. /\ [images[n] EXCEPT !.running = b] \in ImageRecord
                  /\ [images[n] EXCEPT !.running = b].file = images[n].file
                  /\ [images[n] EXCEPT !.running = b].granted = images[n].granted
                  BY <3>1 DEF ImageRecord
            <3>3. images' = [images EXCEPT ![n] = [images[n] EXCEPT !.running = b]]
                  BY <2>2
            <3> QED BY <2>1, <3>2, <3>3
      <2>3. starting' \in Images \cup {NoImage}
            BY <1>a DEF ImagesTyped
      <2> QED BY <2>1, <2>2, <2>3 DEF ImagesTyped, Images
<1>3. LoaderTyped' /\ TrustTyped' /\ TablesInv' /\ ScanInv'
      <2>1. LoaderTyped'
            BY <1>a, <1>1 DEF LoaderTyped, Images, NoImage
      <2>2. TrustTyped' /\ TablesInv'
            BY <1>a, <1>1 DEF TrustTyped, TablesInv, Identities
      <2>3. ScanInv'
            BY <1>a, <1>1, <1>2 DEF ScanInv, Loaded, LoaderTyped
      <2> QED BY <2>1, <2>2, <2>3
<1>4. GrantsInv'
      BY <1>a, <1>1, <1>2 DEF GrantsInv, Loaded, Images, Identities
<1>5. LoadedRuns' /\ BoundWithinTrust'
      <2>1. LoadedRuns'
            BY <1>a, <1>2 DEF LoadedRuns, Loaded, Images
      <2> QED BY <1>a, <1>2, <2>1, BoundKept
<1>6. Kept /\ Stays({})
      BY <1>1, TableUnchanged
<1>7. HandlesInv' /\ RunningInv'
      BY <1>a, <1>1, <1>2, <1>6, HandlesKept, NobodyStarts
<1>8. OwnInv'
      BY <1>a, <1>1, <1>2 DEF OwnInv, Loaded, LoaderTyped, NoImage
<1> QED BY <1>2, <1>3, <1>4, <1>5, <1>7, <1>8 DEF ElfRest, ImagesInv

LEMMA StartKeeps == ASSUME ElfInv, StartReturns PROVE ElfRest'
<1>a. /\ ElfRest /\ StorageTyped /\ TablesInv /\ StreamsInv /\ ImagesTyped
      BY InvIs DEF ElfRest, ImagesInv
<1>1. /\ starting \in Images /\ images' = [images EXCEPT ![starting].running = TRUE]
      /\ starting' = NoImage /\ files' = files /\ open' = open /\ doing' = doing
      /\ UNCHANGED <<vars, loader, trust>>
      BY <1>a DEF StartReturns, ImagesTyped, storage
<1>2. \A n \in Images : images'[n].file = images[n].file /\ (HasTask(n)' => HasTask(n))
      <2>1. \A n \in Images : images[n] \in ImageRecord
            BY <1>a DEF ImagesTyped
      <2>2. images' = [images EXCEPT ![starting] = [images[starting] EXCEPT !.running = TRUE]]
            BY <1>1
      <2> QED BY <1>a, <1>1, <2>1, <2>2 DEF ImagesTyped, ImageRecord, HasTask, Images, NoImage
<1>3. StorageTyped' /\ IsFiniteSet(files')
      BY <1>a, <1>1 DEF StorageTyped, TablesInv, Images
<1>4. StreamsInv'
      <2>1. \A e \in files' : images'[e.image].file # NoFile
            BY <1>a, <1>1, <1>2 DEF StreamsInv, StorageTyped, Loaded
      <2> QED BY <1>a, <1>1, <2>1 DEF StreamsInv, OwnersAreUnique, Loaded, Images
<1> QED BY <1>1, <1>2, <1>3, <1>4, TaskKeeps

\* The phases of a task: it goes through doing[m] alone.
LEMMA PhaseMoves ==
    ASSUME StorageTyped, NEW m \in Images, NEW phase \in Phase,
           doing' = [doing EXCEPT ![m] = phase]
    PROVE  /\ doing' \in [Images -> Phase] /\ doing'[m] = phase
           /\ \A n \in Images : n # m => doing'[n] = doing[n]
BY DEF StorageTyped

LEMMA TasksKeep == ASSUME ElfInv, Tasks PROVE ElfRest'
<1>a. /\ ElfRest /\ StorageTyped /\ TablesInv /\ StreamsInv /\ OwnersAreUnique
      /\ IsFiniteSet(files) /\ ImagesTyped /\ LoadedRuns
      BY InvIs DEF ElfRest, ImagesInv, StreamsInv, TablesInv
<1>b. Idle \in Phase /\ ~HasStream(Idle)
      BY DEF Idle, Phase, NoStream, HasStream
<1>c. Cardinality(files) \in Nat /\ Cardinality(files) <= MaxOpen /\ MaxOpen \in Nat
      BY <1>a, FS_CardinalityType, FilesAssumption DEF StorageTyped
\* It is enough that the streams are in one place each.
<1>0. ASSUME files' \subseteq [stream : Streams, image : Images],
             IsFiniteSet(files'), Cardinality(files') <= MaxOpen,
             open' \subseteq Streams, doing' \in [Images -> Phase],
             \A e \in files' : e.stream \in open' /\ Loaded(e.image),
             \A e, d \in files' : d.stream = e.stream => d = e,
             \A n \in Images : HasStream(doing'[n]) =>
                 doing'[n].stream \in open' /\ \A e \in files' : e.stream # doing'[n].stream,
             \A n, k \in Images : n # k /\ HasStream(doing'[n]) /\ HasStream(doing'[k]) =>
                 doing'[n].stream # doing'[k].stream,
             images' = images, Nothing
      PROVE  ElfRest'
      <2>1. StorageTyped'
            BY <1>0 DEF StorageTyped, Images
      <2>2. OwnersAreUnique'
            BY <1>0 DEF OwnersAreUnique
      <2>3. StreamsInv'
            BY <1>0, <2>2 DEF StreamsInv, Loaded, Images
      <2>4. \A n \in Images : HasTask(n)' => HasTask(n)
            BY <1>0 DEF HasTask, Nothing
      <2> QED BY <1>0, <2>1, <2>3, <2>4, TaskKeeps DEF Nothing
<1>1. ASSUME NEW m \in Images, OpenFile(m) PROVE ElfRest'
      <2>1. PICK s \in Streams \ open :
                /\ open' = open \cup {s}
                /\ doing' = [doing EXCEPT ![m] = [step |-> "opened", stream |-> s]]
            BY <1>1 DEF OpenFile
      <2> DEFINE phase == [step |-> "opened", stream |-> s]
      <2>2. phase \in Phase /\ phase.stream = s
            BY DEF Phase
      <2> HIDE DEF phase
      <2>3. /\ doing' \in [Images -> Phase] /\ doing'[m] = phase
            /\ \A n \in Images : n # m => doing'[n] = doing[n]
            BY <1>a, <2>1, <2>2, PhaseMoves DEF phase
      <2>4. files' = files /\ images' = images /\ Nothing
            BY <1>1 DEF OpenFile
      <2>5. \A n \in Images : n # m /\ HasStream(doing[n]) => doing[n].stream # s
            BY <1>a DEF StreamsInv
      <2> QED BY <1>0, <1>a, <2>1, <2>2, <2>3, <2>4, <2>5
              DEF StreamsInv, OwnersAreUnique, StorageTyped
<1>2. ASSUME NEW m \in Images, RegisterStream(m) PROVE ElfRest'
      <2> DEFINE s == doing[m].stream
                 e == [stream |-> s, image |-> m]
      <2>1. /\ doing' = [doing EXCEPT ![m] = Idle] /\ images' = images /\ Nothing
            /\ HasTask(m) /\ HasStream(doing[m])
            BY <1>2 DEF RegisterStream, Step, HasStream
      <2>2. /\ doing' \in [Images -> Phase] /\ doing'[m] = Idle
            /\ \A n \in Images : n # m => doing'[n] = doing[n]
            BY <1>a, <1>b, <2>1, PhaseMoves
      <2>3. /\ s \in open /\ \A d \in files : d.stream # s
            /\ \A n \in Images \ {m} : HasStream(doing[n]) => doing[n].stream # s
            BY <1>a, <2>1 DEF StreamsInv
      <2>4. Loaded(m) /\ s \in Streams
            BY <1>a, <2>1, <2>3 DEF LoadedRuns, StorageTyped
      <2>5. CASE /\ Cardinality(files) < MaxOpen
                 /\ files' = files \cup {e} /\ open' = open
            <3>1. e \in [stream : Streams, image : Images] /\ e.stream = s /\ e.image = m
                  BY <2>4
            <3>2. e \notin files
                  BY <2>3, <3>1
            <3> HIDE DEF e, s
            <3>3. IsFiniteSet(files') /\ Cardinality(files') = Cardinality(files) + 1
                  BY <1>a, <2>5, <3>2, FS_AddElement
            <3>4. Cardinality(files') <= MaxOpen
                  BY <1>c, <2>5, <3>3
            <3>5. files' \subseteq [stream : Streams, image : Images]
                  BY <1>a, <2>5, <3>1 DEF StorageTyped
            <3>6. \A d \in files' : d.stream \in open' /\ Loaded(d.image)
                  BY <1>a, <2>3, <2>4, <2>5, <3>1 DEF StreamsInv, OwnersAreUnique
            <3>7. \A c, d \in files' : d.stream = c.stream => d = c
                  BY <1>a, <2>3, <2>5, <3>1 DEF OwnersAreUnique
            <3>8. \A n \in Images : HasStream(doing'[n]) =>
                      doing'[n].stream \in open' /\ \A d \in files' : d.stream # doing'[n].stream
                  BY <1>a, <1>b, <2>2, <2>3, <2>5, <3>1 DEF StreamsInv
            <3>9. \A n, k \in Images :
                      n # k /\ HasStream(doing'[n]) /\ HasStream(doing'[k]) =>
                          doing'[n].stream # doing'[k].stream
                  BY <1>a, <1>b, <2>2 DEF StreamsInv
            <3> QED BY <1>0, <1>a, <2>1, <2>2, <2>5, <3>3, <3>4, <3>5, <3>6, <3>7, <3>8, <3>9
                    DEF StorageTyped
      <2>6. CASE open' = open \ {s} /\ files' = files
            <3> HIDE DEF s
            <3> QED BY <1>0, <1>a, <1>b, <1>c, <2>1, <2>2, <2>3, <2>6
                    DEF StreamsInv, OwnersAreUnique, StorageTyped
      <2> QED BY <1>2, <2>5, <2>6 DEF RegisterStream
<1>3. ASSUME NEW m \in Images, TakeStream(m) PROVE ElfRest'
      <2>1. PICK e \in files :
                /\ files' = files \ {e}
                /\ doing' = [doing EXCEPT ![m] = [step |-> "taken", stream |-> e.stream]]
            BY <1>3 DEF TakeStream
      <2> DEFINE phase == [step |-> "taken", stream |-> e.stream]
      <2>2. phase \in Phase /\ phase.stream = e.stream
            BY <1>a DEF Phase, StorageTyped
      <2> HIDE DEF phase
      <2>3. /\ doing' \in [Images -> Phase] /\ doing'[m] = phase
            /\ \A n \in Images : n # m => doing'[n] = doing[n]
            BY <1>a, <2>1, <2>2, PhaseMoves DEF phase
      <2>4. open' = open /\ images' = images /\ Nothing
            BY <1>3 DEF TakeStream
      <2>5. IsFiniteSet(files') /\ Cardinality(files') <= Cardinality(files)
            BY <1>a, <2>1, FS_Subset
      <2>6. Cardinality(files') <= MaxOpen
            <3>1. Cardinality(files') \in Nat
                  BY <2>5, FS_CardinalityType
            <3> QED BY <1>c, <2>5, <3>1
      <2>7. \A n \in Images : n # m /\ HasStream(doing[n]) => doing[n].stream # e.stream
            BY <1>a DEF StreamsInv
      <2>8. e.stream \in open /\ \A d \in files' : d.stream # e.stream
            BY <1>a, <2>1 DEF OwnersAreUnique
      <2> QED BY <1>0, <1>a, <2>1, <2>2, <2>3, <2>4, <2>5, <2>6, <2>7, <2>8
              DEF StreamsInv, OwnersAreUnique, StorageTyped
<1>4. ASSUME NEW m \in Images, CloseStream(m) PROVE ElfRest'
      <2> DEFINE s == doing[m].stream
      <2>1. /\ doing' = [doing EXCEPT ![m] = Idle] /\ images' = images /\ Nothing
            /\ HasStream(doing[m]) /\ files' = files /\ open' = open \ {s}
            BY <1>4 DEF CloseStream, Step, HasStream
      <2>2. /\ doing' \in [Images -> Phase] /\ doing'[m] = Idle
            /\ \A n \in Images : n # m => doing'[n] = doing[n]
            BY <1>a, <1>b, <2>1, PhaseMoves
      <2>3. /\ s \in open /\ \A d \in files : d.stream # s
            /\ \A n \in Images \ {m} : HasStream(doing[n]) => doing[n].stream # s
            BY <1>a, <2>1 DEF StreamsInv
      <2> HIDE DEF s
      <2> QED BY <1>0, <1>a, <1>b, <1>c, <2>1, <2>2, <2>3
              DEF StreamsInv, OwnersAreUnique, StorageTyped
<1>5. ASSUME NEW m \in Images, TaskEnds(m) PROVE ElfRest'
      <2> DEFINE over == [doing[m] EXCEPT !.step = "over"]
      <2>1. /\ images' = [images EXCEPT ![m].running = FALSE] /\ Nothing
            /\ files' = files /\ open' = open
            /\ doing' = doing \/ doing' = [doing EXCEPT ![m] = over]
            BY <1>5 DEF TaskEnds
      <2>2. \A n \in Images : images'[n].file = images[n].file /\ (HasTask(n)' => HasTask(n))
            <3>1. \A n \in Images : images[n] \in ImageRecord
                  BY <1>a DEF ImagesTyped
            <3>2. images' = [images EXCEPT ![m] = [images[m] EXCEPT !.running = FALSE]]
                  BY <2>1
            <3> QED BY <1>a, <2>1, <3>1, <3>2 DEF ImagesTyped, ImageRecord, HasTask, Nothing
      <2>3. /\ doing' \in [Images -> Phase]
            /\ \A n \in Images : HasStream(doing'[n]) => doing'[n] = doing[n]
            <3>1. over \in Phase /\ ~HasStream(over)
                  BY <1>a DEF StorageTyped, Phase, HasStream
            <3> HIDE DEF over
            <3> QED BY <1>a, <2>1, <3>1 DEF StorageTyped
      <2>4. StorageTyped' /\ IsFiniteSet(files')
            BY <1>a, <2>1, <2>3 DEF StorageTyped, Images
      <2>5. StreamsInv'
            <3>1. \A e \in files' : images'[e.image].file # NoFile
                  BY <1>a, <2>1, <2>2 DEF StreamsInv, StorageTyped, Loaded
            <3> HIDE DEF over
            <3> QED BY <1>a, <2>1, <2>3, <3>1 DEF StreamsInv, OwnersAreUnique, Loaded, Images
      <2> QED BY <2>1, <2>2, <2>4, <2>5, TaskKeeps DEF Nothing
<1> QED BY <1>1, <1>2, <1>3, <1>4, <1>5 DEF Tasks

-----------------------------------------------------------------------------
(* The theorems                                                            *)

LEMMA ElfNextKeeps == ElfInv /\ [ElfNext]_allVars => ElfInv'
<1> SUFFICES ASSUME ElfInv, [ElfNext]_allVars PROVE ElfInv'
    OBVIOUS
<1>1. TypeOK' /\ TableInv'
      BY InvIs, ElfIsManaged, NextTyped, TableNext DEF TableInv
<1>2. ElfRest'
      <2>1. CASE ElfNext
            BY <2>1, BootKeeps, CallsKeep, StartKeeps, TasksKeep DEF ElfNext
      <2>2. CASE UNCHANGED allVars
            <3>1. UNCHANGED table /\ UNCHANGED elfVars
                  BY <2>2 DEF allVars, vars
            <3> QED BY <3>1, InvIs, TableUnchanged, StillKeeps
      <2> QED BY <2>1, <2>2
<1>3. TypeOK' /\ TableInv' /\ ElfRest' => ElfInv'
      BY InvIs, PTL
<1> QED BY <1>1, <1>2, <1>3

LEMMA ElfInvariant == ElfSpec => []ElfInv
BY ElfInitial, ElfNextKeeps, PTL DEF ElfSpec

\* The manager with its images is still the manager of AppManager: loading, unloading
\* and the tasks of the apps are steps that leave it alone.
THEOREM ElfIsManager == ElfSpec => Spec
<1>1. ElfInit => Init
      BY DEF ElfInit
<1> QED BY <1>1, ElfInvariant, ElfIsManaged, PTL DEF ElfSpec, Spec

\* No table of the loader, of the permissions or of the open files is ever exceeded,
\* and each holds what it may (elf_loader.rs, permissions.rs, syscall_table.rs).
THEOREM ElfTypeCorrect == ElfSpec => []ElfTypeOK
BY ElfInvariant, PTL DEF ElfInv

\* Whatever files are on the card and whichever came before under the same id, no image
\* is bound to a symbol that its own signature and manifest do not allow
\* (elf_app_load, resolve_app_symbol, effective_app_permissions).
THEOREM TrustIsKept == ElfSpec => []BoundWithinTrust
BY ElfInvariant, PTL DEF ElfInv, ImagesInv

\* The permissions, the open files and the task of an app end with its image, however
\* launches, evictions, kills and the steps of the tasks are interleaved, and an open
\* file has one owner (elf_app_unload, evict_lru, launch, kill, register_app_stream).
THEOREM NothingStays == ElfSpec => []NothingIsLeftBehind
BY ElfInvariant, InvIsEnough, PTL

\* One ELF app at a time has the screen.
THEOREM OneElfForeground == ElfSpec => []OneForeground
BY ElfIsManager, ForegroundIsOne, PTL

\* As long as the clock has not saturated, an ELF app gives way only to one used later.
THEOREM ElfEvictsOldest ==
    ASSUME Horizon < MaxUptime
    PROVE  ElfSpec => EvictsLeastRecentlyUsed
BY ElfIsManager, EvictsOldest

-----------------------------------------------------------------------------
(* The files of an app                                                     *)

CONSTANTS
    Callers,    \* tasks that run code of an app
    FileNames,  \* names of its files, each a stem and an extension
    Backup,     \* the extension of a file set aside
    MaxWrites   \* bound on the contents written

VARIABLES
    disk,    \* the app's directory
    moves,   \* the replacement a task is in, and its step
    writes,  \* number of contents written
    kept,    \* history: the contents a name was last given
    told,    \* history: what the last call of a task returned
    shared   \* history: stems used by two calls at once, or whose replacement was cut short

\* Names that lead out of the directory are refused before anything is done with them.
Storage == INSTANCE AppStorage WITH
    Tasks <- Callers, Names <- FileNames, Outside <- {}, calls <- moves

\* Nobody else works on files with the stem of a file a call is at.
CallsApart ==
    \A t, u \in Callers :
        \A a \in {moves[t].from, moves[t].to}, b \in {moves[u].from, moves[u].to} :
            t # u /\ ~Storage!Idle(t) /\ ~Storage!Idle(u) /\ a.stem = b.stem => a.stem \in shared

\* The two names of a call differ.
Distinct == \A t \in Callers : ~Storage!Idle(t) => moves[t].from # moves[t].to

\* The files of an app but those that are named like a backup
Plain == {n \in FileNames : n.ext # Backup}

\* While the new file is not there, the old one is aside.
OldIsAside ==
    \A t \in Callers :
        LET n == moves[t].to
        IN  moves[t].step = "move" /\ n \in Plain /\ n.stem \notin shared =>
                /\ disk[n] = 0
                /\ kept[n] = IF moves[t].had THEN disk[Storage!Aside(n)] ELSE 0

\* A replacement is about to give the name its new contents.
Moving(n) == \E t \in Callers : moves[t].step = "move" /\ moves[t].to = n

\* Otherwise every name holds what it was last given.
There ==
    \A n \in Plain : n.stem \in shared \/ Moving(n) \/ disk[n] = kept[n]

\* What is known of the replacement a task is in.
CallRecord == [step : {"none", "clear", "aside", "move", "tidy"}, from : FileNames,
               to : FileNames, had : BOOLEAN]

\* The record of no call.
LEMMA NoCallIsACall == FileNames # {} => Storage!NoCall \in CallRecord /\ Storage!NoCall.step = "none"
  BY DEF Storage!NoCall, CallRecord

\* The places of a name and of its backup.
LEMMA PlacesOfNames ==
    ASSUME NEW n \in FileNames, NEW m \in FileNames
    PROVE  /\ n \in Storage!Places /\ Storage!Aside(n) \in Storage!Places
           /\ n \in Plain => n # Storage!Aside(m)
           /\ n = Storage!Aside(m) => n.stem = m.stem
           /\ Storage!Aside(n) = Storage!Aside(m) <=> n.stem = m.stem
  BY DEF Storage!Places, Storage!Aside, Plain

\* A call goes on with the same names; a step in which each goes on or ends, and none begins.
Goes(t) == moves'[t].from = moves[t].from /\ moves'[t].to = moves[t].to /\ ~Storage!Idle(t)
Onward == \A t \in Callers : moves'[t].step = "none" \/ Goes(t)

\* Calls that go on, end or begin nothing new stay apart (app_fs_replace).
LEMMA CallsStayApart ==
    ASSUME CallsApart, Distinct, Onward, shared \subseteq shared'
    PROVE  CallsApart' /\ Distinct'
<1>1. Distinct'
  BY DEF Distinct, Onward, Goes, Storage!Idle
<1>2. SUFFICES ASSUME NEW t \in Callers, NEW u \in Callers,
                      NEW a \in {moves'[t].from, moves'[t].to},
                      NEW b \in {moves'[u].from, moves'[u].to},
                      t # u, moves'[t].step # "none", moves'[u].step # "none", a.stem = b.stem
               PROVE  a.stem \in shared'
  BY <1>1 DEF CallsApart, Storage!Idle
<1>3. Goes(t) /\ Goes(u)
  BY <1>2 DEF Onward
<1>4. a \in {moves[t].from, moves[t].to} /\ b \in {moves[u].from, moves[u].to}
  BY <1>3 DEF Goes
<1>5. a.stem \in shared
  BY <1>2, <1>3, <1>4 DEF CallsApart, Goes
<1> QED
  BY <1>5

\* A replacement that begins notes the stems that others are at.
LEMMA ReplaceKeepsApart ==
    ASSUME NEW t \in Callers, NEW from \in FileNames, NEW to \in FileNames,
           moves \in [Callers -> CallRecord], FileNames # {},
           CallsApart, Distinct, Storage!Replace(t, from, to)
    PROVE  CallsApart' /\ Distinct'
<1>1. CASE from = to \/ disk[from] = 0
  <2>1. moves' = [moves EXCEPT ![t] = Storage!NoCall] /\ shared' = shared
    BY <1>1 DEF Storage!Replace, Storage!Ends
  <2>2. Onward
    BY <2>1, NoCallIsACall, Zenon DEF Onward, Goes, Storage!Idle
  <2> QED
    BY <2>1, <2>2, CallsStayApart
<1>2. CASE ~(from = to \/ disk[from] = 0)
  <2> DEFINE c == [step |-> "clear", from |-> from, to |-> to, had |-> FALSE]
  <2>1. moves' = [moves EXCEPT ![t] = c] /\ shared' = shared \cup (Storage!Stems(Callers) \cap {from.stem, to.stem})
    BY <1>2 DEF Storage!Replace
  <2>2. moves'[t] = c /\ \A u \in Callers \ {t} : moves'[u] = moves[u]
    BY <2>1
  <2>3. c.step = "clear" /\ c.from = from /\ c.to = to
    OBVIOUS
  <2>4. Distinct'
    BY <1>2, <2>2, <2>3 DEF Distinct, Storage!Idle
  <2>5. ASSUME NEW u \in Callers \ {t}, NEW a \in {from, to}, NEW b \in {moves[u].from, moves[u].to},
               ~Storage!Idle(u), a.stem = b.stem
        PROVE  a.stem \in shared' /\ b.stem \in shared'
    <3>1. b.stem \in Storage!Stems(Callers)
      BY <2>5 DEF Storage!Stems
    <3> QED
      BY <2>1, <2>5, <3>1
  <2>6. SUFFICES ASSUME NEW v \in Callers, NEW u \in Callers,
                        NEW a \in {moves'[v].from, moves'[v].to},
                        NEW b \in {moves'[u].from, moves'[u].to},
                        v # u, moves'[v].step # "none", moves'[u].step # "none", a.stem = b.stem
                 PROVE  a.stem \in shared'
    BY <2>4 DEF CallsApart, Storage!Idle
  <2>7. CASE v = t
    BY <2>2, <2>3, <2>5, <2>6, <2>7 DEF Storage!Idle
  <2>8. CASE u = t
    BY <2>2, <2>3, <2>5, <2>6, <2>8 DEF Storage!Idle
  <2>9. CASE v # t /\ u # t
    <3>1. moves'[v] = moves[v] /\ moves'[u] = moves[u]
      BY <2>2, <2>9
    <3>2. a.stem \in shared
      BY <2>6, <3>1 DEF CallsApart, Storage!Idle
    <3> QED
      BY <2>1, <3>2
  <2> QED
    BY <2>7, <2>8, <2>9
<1> QED
  BY <1>1, <1>2

\* The disk and what was last written, whatever the call.
Contents ==
    /\ disk \in [Storage!Places -> 0 .. MaxWrites] /\ kept \in [FileNames -> 0 .. MaxWrites]
    /\ moves \in [Callers -> CallRecord]

\* A step of one caller that writes one file, or removes it.
LEMMA WritingKeeps ==
    ASSUME NEW t \in Callers, NEW n \in FileNames, NEW w \in 0 .. MaxWrites,
           Contents, OldIsAside, There, Storage!Idle(t),
           disk' = [disk EXCEPT ![n] = w], kept' = [kept EXCEPT ![n] = w], moves' = moves,
           Storage!Touches(n)
    PROVE  OldIsAside' /\ There'
<1>1. shared \subseteq shared' /\ \A u \in Callers : ~Storage!Idle(u) /\ moves[u].to.stem = n.stem => n.stem \in shared'
  BY DEF Storage!Touches, Storage!Stems
<1>2. \A m \in FileNames :
          /\ disk'[m] = (IF m = n THEN w ELSE disk[m]) /\ kept'[m] = (IF m = n THEN w ELSE kept[m])
          /\ m.stem # n.stem => disk'[Storage!Aside(m)] = disk[Storage!Aside(m)]
  BY PlacesOfNames DEF Contents
<1>3. \A u \in Callers : moves[u].to \in FileNames
  BY DEF Contents, CallRecord
<1>4. OldIsAside'
  <2> SUFFICES ASSUME NEW u \in Callers, moves[u].step = "move", moves[u].to \in Plain,
                      moves[u].to.stem \notin shared'
               PROVE  /\ disk'[moves[u].to] = 0
                      /\ kept'[moves[u].to] = IF moves[u].had THEN disk'[Storage!Aside(moves[u].to)] ELSE 0
    BY DEF OldIsAside, Storage!Aside, Plain
  <2>1. moves[u].to.stem # n.stem
    BY <1>1 DEF Storage!Idle
  <2>2. moves[u].to.stem \notin shared
    BY <1>1
  <2> QED
    BY <1>2, <1>3, <2>1, <2>2 DEF OldIsAside
<1>5. There'
  BY <1>1, <1>2 DEF There, Moving, Plain
<1> QED
  BY <1>4, <1>5

\* A step of one caller after which it is not moving, and which leaves alone every name
\* and every backup of a stem that others may be at.
LEMMA LeavingKeeps ==
    ASSUME NEW t \in Callers, Contents,
           CallsApart, OldIsAside, There, shared \subseteq shared',
           \A u \in Callers \ {t} : moves'[u] = moves[u],
           moves'[t].step # "move", ~Storage!Idle(t),
           \A m \in Plain :
               m.stem \notin {moves[t].from.stem, moves[t].to.stem} =>
                   disk'[m] = disk[m] /\ kept'[m] = kept[m] /\ disk'[Storage!Aside(m)] = disk[Storage!Aside(m)],
           \A m \in Plain :
               m.stem \notin shared' /\ m.stem \in {moves[t].from.stem, moves[t].to.stem} => disk'[m] = kept'[m]
    PROVE  OldIsAside' /\ There'
<1>1. \A u \in Callers : moves[u].to \in FileNames
  BY DEF Contents, CallRecord
<1>2. ASSUME NEW u \in Callers, moves'[u].step = "move", moves'[u].to \in Plain,
                      moves'[u].to.stem \notin shared'
      PROVE  /\ u # t /\ moves'[u] = moves[u] /\ moves[u].to.stem \notin shared
             /\ moves[u].to.stem \notin {moves[t].from.stem, moves[t].to.stem}
  <2>1. u # t /\ moves'[u] = moves[u] /\ moves[u].to.stem \notin shared
    BY <1>2
  <2>2. ~Storage!Idle(u)
    BY <1>2, <2>1 DEF Storage!Idle
  <2> QED
    BY <2>1, <2>2 DEF CallsApart
<1>3. OldIsAside'
  <2> SUFFICES ASSUME NEW u \in Callers, moves'[u].step = "move", moves'[u].to \in Plain,
                      moves'[u].to.stem \notin shared'
               PROVE  /\ disk'[moves'[u].to] = 0
                      /\ kept'[moves'[u].to] = IF moves'[u].had THEN disk'[Storage!Aside(moves'[u].to)] ELSE 0
    BY DEF OldIsAside, Storage!Aside
  <2> QED
    BY <1>1, <1>2 DEF OldIsAside
<1>4. There'
  <2> SUFFICES ASSUME NEW m \in Plain, m.stem \notin shared', ~Moving(m)'
               PROVE  disk'[m] = kept'[m]
    BY DEF There
  <2>1. CASE m.stem \in {moves[t].from.stem, moves[t].to.stem}
    BY <2>1
  <2>2. CASE m.stem \notin {moves[t].from.stem, moves[t].to.stem}
    <3>1. ~Moving(m)
      BY <2>2 DEF Moving
    <3> QED
      BY <2>2, <3>1 DEF There
  <2> QED
    BY <2>1, <2>2
<1> QED
  BY <1>3, <1>4

\* What a caller's own names hold, if nobody shares their stems.
LEMMA OwnNames ==
    ASSUME NEW t \in Callers, CallsApart, There, ~Storage!Idle(t), NEW m \in Plain,
           m.stem \notin shared, m.stem \in {moves[t].from.stem, moves[t].to.stem}
    PROVE  disk[m] = kept[m] \/ (moves[t].step = "move" /\ moves[t].to = m)
<1> SUFFICES ASSUME Moving(m) PROVE moves[t].step = "move" /\ moves[t].to = m
  BY DEF There
<1>1. PICK u \in Callers : moves[u].step = "move" /\ moves[u].to = m
  BY DEF Moving
<1>2. u = t
  BY <1>1 DEF CallsApart, Storage!Idle
<1> QED
  BY <1>1, <1>2

\* A rename from one place to another.
LEMMA MoveIs ==
    ASSUME NEW p \in Storage!Places, NEW q \in Storage!Places, p # q, Contents, MaxWrites \in Nat
    PROVE  /\ Storage!Move(p, q) \in [Storage!Places -> 0 .. MaxWrites]
           /\ \A r \in Storage!Places :
                  Storage!Move(p, q)[r] = IF r = p THEN 0 ELSE IF r = q THEN disk[p] ELSE disk[r]
<1>1. Storage!Move(p, q) = [disk EXCEPT ![q] = disk[p], ![p] = 0]
  BY DEF Storage!Move
<1>2. disk \in [Storage!Places -> 0 .. MaxWrites] /\ disk[p] \in 0 .. MaxWrites /\ 0 \in 0 .. MaxWrites
  BY DEF Contents
<1> QED
  BY <1>1, <1>2

\* A call that ends.
LEMMA EndingIs ==
    ASSUME NEW t \in Callers, NEW r, Contents, FileNames # {}, Storage!Ends(t, r)
    PROVE  /\ moves' \in [Callers -> CallRecord] /\ moves'[t].step = "none"
           /\ \A u \in Callers \ {t} : moves'[u] = moves[u]
           /\ Onward
<1>1. moves' = [moves EXCEPT ![t] = Storage!NoCall]
  BY DEF Storage!Ends
<1>2. moves'[t] = Storage!NoCall /\ \A u \in Callers \ {t} : moves'[u] = moves[u]
  BY <1>1 DEF Contents
<1>3. moves' \in [Callers -> CallRecord] /\ moves'[t].step = "none"
  BY <1>1, <1>2, NoCallIsACall DEF Contents
<1>4. Onward
  BY <1>2, <1>3 DEF Onward, Goes, Storage!Idle
<1> QED
  BY <1>2, <1>3, <1>4

\* A call that goes on.
LEMMA GoingIs ==
    ASSUME NEW t \in Callers, NEW s \in {"aside", "tidy"}, Contents, ~Storage!Idle(t), Storage!Goes(t, s)
    PROVE  /\ moves' \in [Callers -> CallRecord] /\ moves'[t].step = s
           /\ \A u \in Callers \ {t} : moves'[u] = moves[u]
           /\ Onward
<1>1. moves' = [moves EXCEPT ![t] = [moves[t] EXCEPT !.step = s]]
  BY DEF Storage!Goes
<1>2. moves'[t] = [moves[t] EXCEPT !.step = s] /\ \A u \in Callers \ {t} : moves'[u] = moves[u]
  BY <1>1 DEF Contents
<1>3. moves[t] \in CallRecord
  BY DEF Contents
<1>4. moves'[t] \in CallRecord /\ moves'[t].step = s /\ Goes(t)
  <2>1. s \in {"none", "clear", "aside", "move", "tidy"}
    OBVIOUS
  <2>2. /\ [moves[t] EXCEPT !.step = s] \in CallRecord /\ [moves[t] EXCEPT !.step = s].step = s
        /\ [moves[t] EXCEPT !.step = s].from = moves[t].from
        /\ [moves[t] EXCEPT !.step = s].to = moves[t].to
    BY <1>3, <2>1 DEF CallRecord
  <2> QED
    BY <1>2, <2>2 DEF Goes
<1>5. moves' \in [Callers -> CallRecord]
  BY <1>1, <1>2, <1>4 DEF Contents
<1>6. Onward
  BY <1>2, <1>4 DEF Onward, Goes, Storage!Idle
<1> QED
  BY <1>2, <1>4, <1>5, <1>6

\* The numbers, the results and the stems noted.
Rest ==
    /\ writes \in 0 .. MaxWrites /\ told \in [Callers -> {0, -1}]
    /\ shared \subseteq {n.stem : n \in FileNames}

\* The invariant of the storage.
StorageInv == Contents /\ CallsApart /\ Distinct /\ OldIsAside /\ There

\* There are files; an app may well give one the extension of the backups.
StorageAssumption == MaxWrites \in Nat /\ FileNames # {}

\* The old backup is removed, or the call ends.
LEMMA ClearBackupKeeps ==
    ASSUME StorageAssumption, StorageInv, NEW t \in Callers, Storage!ClearBackup(t)
    PROVE  StorageInv'
<1> DEFINE aside == Storage!Aside(moves[t].to)
<1>1. moves[t].step = "clear" /\ UNCHANGED <<writes, kept, shared>> /\ ~Storage!Idle(t) /\ moves[t].to \in FileNames
  BY DEF Storage!ClearBackup, Storage!Idle, StorageInv, Contents, CallRecord
<1>2. /\ moves' \in [Callers -> CallRecord] /\ moves'[t].step # "move"
      /\ \A u \in Callers \ {t} : moves'[u] = moves[u]
      /\ Onward
  <2>1. CASE Storage!Goes(t, "aside")
    BY <1>1, <2>1, GoingIs DEF StorageInv
  <2>2. CASE Storage!Ends(t, -1)
    BY <1>1, <2>2, EndingIs DEF StorageInv, StorageAssumption
  <2> QED
    BY <2>1, <2>2 DEF Storage!ClearBackup
<1>3. disk' = disk \/ disk' = [disk EXCEPT ![aside] = 0]
  BY DEF Storage!ClearBackup
<1>4. /\ disk' \in [Storage!Places -> 0 .. MaxWrites]
      /\ \A m \in Plain : disk'[m] = disk[m]
      /\ \A m \in Plain : m.stem # moves[t].to.stem => disk'[Storage!Aside(m)] = disk[Storage!Aside(m)]
  BY <1>1, <1>3, PlacesOfNames DEF StorageInv, Contents, StorageAssumption, Plain
<1>5. \A m \in Plain :
          m.stem \notin shared /\ m.stem \in {moves[t].from.stem, moves[t].to.stem} => disk'[m] = kept'[m]
  BY <1>1, <1>4, OwnNames DEF StorageInv
<1>6. OldIsAside' /\ There'
  BY <1>1, <1>2, <1>4, <1>5, LeavingKeeps DEF StorageInv, StorageAssumption
<1> QED
  BY <1>1, <1>2, <1>4, <1>6, CallsStayApart DEF StorageInv, Contents

\* The backup of a call that succeeded is removed, or stays.
LEMMA TidyKeeps ==
    ASSUME StorageAssumption, StorageInv, NEW t \in Callers, Storage!Tidy(t)
    PROVE  StorageInv'
<1> DEFINE aside == Storage!Aside(moves[t].to)
<1>1. moves[t].step = "tidy" /\ UNCHANGED <<writes, kept, shared>> /\ ~Storage!Idle(t) /\ moves[t].to \in FileNames
  BY DEF Storage!Tidy, Storage!Idle, StorageInv, Contents, CallRecord
<1>2. /\ moves' \in [Callers -> CallRecord] /\ moves'[t].step # "move"
      /\ \A u \in Callers \ {t} : moves'[u] = moves[u]
      /\ Onward
  <2>1. Storage!Ends(t, 0)
    BY DEF Storage!Tidy
  <2> QED
    BY <2>1, EndingIs DEF StorageInv, StorageAssumption
<1>3. disk' = disk \/ disk' = [disk EXCEPT ![aside] = 0]
  BY DEF Storage!Tidy
<1>4. /\ disk' \in [Storage!Places -> 0 .. MaxWrites]
      /\ \A m \in Plain : disk'[m] = disk[m]
      /\ \A m \in Plain : m.stem # moves[t].to.stem => disk'[Storage!Aside(m)] = disk[Storage!Aside(m)]
  BY <1>1, <1>3, PlacesOfNames DEF StorageInv, Contents, StorageAssumption, Plain
<1>5. \A m \in Plain :
          m.stem \notin shared /\ m.stem \in {moves[t].from.stem, moves[t].to.stem} => disk'[m] = kept'[m]
  BY <1>1, <1>4, OwnNames DEF StorageInv
<1>6. OldIsAside' /\ There'
  BY <1>1, <1>2, <1>4, <1>5, LeavingKeeps DEF StorageInv, StorageAssumption
<1> QED
  BY <1>1, <1>2, <1>4, <1>6, CallsStayApart DEF StorageInv, Contents

\* The file that is to be replaced is set aside, or the call ends.
LEMMA SetAsideKeeps ==
    ASSUME StorageAssumption, StorageInv, NEW t \in Callers, Storage!SetAside(t)
    PROVE  StorageInv'
<1> DEFINE to == moves[t].to  aside == Storage!Aside(to)
<1>1. /\ moves[t].step = "aside" /\ UNCHANGED <<writes, kept, shared>> /\ ~Storage!Idle(t)
      /\ to \in FileNames /\ moves[t] \in CallRecord
  BY DEF Storage!SetAside, Storage!Idle, StorageInv, Contents, CallRecord
<1>2. to \in Storage!Places /\ aside \in Storage!Places /\ (to \in Plain => to # aside)
  BY <1>1, PlacesOfNames
<1>3. CASE Storage!Ends(t, -1) /\ UNCHANGED disk
  <2>1. /\ moves' \in [Callers -> CallRecord] /\ moves'[t].step = "none"
        /\ \A u \in Callers \ {t} : moves'[u] = moves[u]
        /\ Onward
    BY <1>3, EndingIs DEF StorageInv, StorageAssumption
  <2>2. \A m \in Plain :
            m.stem \notin shared /\ m.stem \in {moves[t].from.stem, moves[t].to.stem} => disk[m] = kept[m]
    BY <1>1, OwnNames DEF StorageInv
  <2>3. OldIsAside' /\ There'
    BY <1>1, <1>3, <2>1, <2>2, LeavingKeeps DEF StorageInv, StorageAssumption
  <2> QED
    BY <1>1, <1>3, <2>1, <2>3, CallsStayApart DEF StorageInv, Contents
<1>4. CASE /\ disk' = IF disk[to] # 0 THEN Storage!Move(to, aside) ELSE disk
           /\ moves' = [moves EXCEPT ![t].step = "move", ![t].had = disk[to] # 0]
  <2>0. \/ disk' = disk /\ (disk[to] = 0 \/ to = aside)
        \/ to # aside /\ disk' = Storage!Move(to, aside)
    BY <1>4 DEF Storage!Move
  <2>a. Contents
    BY DEF StorageInv
  <2>1. disk' \in [Storage!Places -> 0 .. MaxWrites]
    BY <1>2, <2>0, <2>a, MoveIs DEF Contents, StorageAssumption
  <2>2. to \in Plain => disk'[to] = 0 /\ (disk[to] # 0 => disk'[aside] = disk[to])
    BY <1>2, <1>4, <2>0, <2>a, MoveIs DEF StorageAssumption
  <2>3. \A m \in Plain \ {to} : disk'[m] = disk[m]
    <3>1. \A m \in Plain : m \in Storage!Places /\ m # aside
      BY <1>1, PlacesOfNames DEF Plain
    <3> QED
      BY <1>2, <2>0, <2>a, <3>1, MoveIs DEF StorageAssumption
  <2>4. \A m \in FileNames : m.stem # to.stem => disk'[Storage!Aside(m)] = disk[Storage!Aside(m)]
    <3>1. \A m \in FileNames : m.stem # to.stem =>
              Storage!Aside(m) \in Storage!Places /\ Storage!Aside(m) # aside /\ Storage!Aside(m) # to
      BY <1>1, PlacesOfNames
    <3> QED
      BY <1>2, <2>0, <2>a, <3>1, MoveIs DEF StorageAssumption
  <2>5. moves'[t] = [moves[t] EXCEPT !.step = "move", !.had = disk[to] # 0]
    BY <1>4 DEF StorageInv, Contents
  <2>6. \A u \in Callers \ {t} : moves'[u] = moves[u]
    BY <1>4 DEF StorageInv, Contents
  <2>7. moves'[t] \in CallRecord /\ moves'[t].step = "move" /\ moves'[t].had = (disk[to] # 0) /\ Goes(t)
    <3> DEFINE c == [moves[t] EXCEPT !.step = "move", !.had = disk[to] # 0]
    <3>1. c \in CallRecord /\ c.step = "move" /\ c.had = (disk[to] # 0) /\ c.from = moves[t].from /\ c.to = moves[t].to
      BY <1>1 DEF CallRecord
    <3> QED
      BY <1>1, <2>5, <3>1 DEF Goes
  <2>8. moves' \in [Callers -> CallRecord]
    BY <1>4, <2>6, <2>7 DEF StorageInv, Contents
  <2>9. Onward
    BY <2>6, <2>7 DEF Onward, Goes, Storage!Idle
  <2>10. CallsApart' /\ Distinct'
    BY <1>1, <2>9, CallsStayApart DEF StorageInv
  <2>11. to \in Plain /\ to.stem \notin shared => disk[to] = kept[to]
    BY <1>1, OwnNames DEF StorageInv
  <2>12. OldIsAside'
    <3> SUFFICES ASSUME NEW u \in Callers, moves'[u].step = "move", moves'[u].to \in Plain,
                      moves'[u].to.stem \notin shared
                 PROVE  /\ disk'[moves'[u].to] = 0
                        /\ kept[moves'[u].to] = IF moves'[u].had THEN disk'[Storage!Aside(moves'[u].to)] ELSE 0
      BY <1>1 DEF OldIsAside, Storage!Aside
    <3>1. CASE u = t
      BY <2>2, <2>7, <2>11, <3>1 DEF Goes
    <3>2. CASE u # t
      <4>1. moves'[u] = moves[u] /\ moves[u].to \in FileNames
        BY <2>6, <3>2 DEF StorageInv, Contents, CallRecord
      <4>2. moves[u].to.stem # to.stem
        BY <1>1, <3>2, <4>1 DEF StorageInv, CallsApart, Storage!Idle
      <4> QED
        BY <2>3, <2>4, <4>1, <4>2 DEF StorageInv, OldIsAside
    <3> QED
      BY <3>1, <3>2
  <2>13. There'
    <3> SUFFICES ASSUME NEW m \in Plain, m.stem \notin shared, ~Moving(m)'
                 PROVE  disk'[m] = kept[m]
      BY <1>1 DEF There, Plain
    <3>1. m # to
      BY <2>7 DEF Moving, Goes
    <3>2. ~Moving(m)
      BY <1>1, <2>6 DEF Moving
    <3> QED
      BY <2>3, <3>1, <3>2 DEF StorageInv, There
  <2> QED
    BY <1>1, <2>1, <2>8, <2>10, <2>12, <2>13 DEF StorageInv, Contents
<1> QED
  BY <1>3, <1>4 DEF Storage!SetAside

\* The new file takes the name; or the old one gets it back; or neither rename works.
LEMMA MoveIntoKeeps ==
    ASSUME StorageAssumption, StorageInv, NEW t \in Callers, Storage!MoveInto(t)
    PROVE  StorageInv'
<1> DEFINE from == moves[t].from  to == moves[t].to  aside == Storage!Aside(to)
<1>1. /\ moves[t].step = "move" /\ ~Storage!Idle(t) /\ moves[t] \in CallRecord
      /\ from \in FileNames /\ to \in FileNames /\ from # to
  BY DEF Storage!MoveInto, Storage!Idle, StorageInv, Contents, CallRecord, Distinct
<1>2. /\ to \in Storage!Places /\ aside \in Storage!Places /\ from \in Storage!Places
      /\ \A m \in Plain : m \in FileNames /\ m \in Storage!Places /\ m # aside
      /\ \A m \in Plain : m.stem \notin {from.stem, to.stem} =>
             /\ Storage!Aside(m) \in Storage!Places /\ Storage!Aside(m) # to
             /\ Storage!Aside(m) # from /\ Storage!Aside(m) # aside
  BY <1>1, PlacesOfNames DEF Plain
<1>3. \A m \in Plain :
          m.stem \notin shared /\ m.stem \in {from.stem, to.stem} /\ m # to => disk[m] = kept[m]
  BY <1>1, OwnNames DEF StorageInv
<1>4. CASE /\ disk' = Storage!Move(from, to)
           /\ kept' = [kept EXCEPT ![to] = disk[from], ![from] = 0]
           /\ Storage!Goes(t, "tidy") /\ UNCHANGED shared
  <2>1. /\ moves' \in [Callers -> CallRecord] /\ moves'[t].step = "tidy"
        /\ \A u \in Callers \ {t} : moves'[u] = moves[u]
        /\ Onward
    BY <1>1, <1>4, GoingIs DEF StorageInv
  <2>2. disk' \in [Storage!Places -> 0 .. MaxWrites] /\ disk'[from] = 0 /\ disk'[to] = disk[from]
    BY <1>1, <1>2, <1>4, MoveIs DEF StorageInv, StorageAssumption
  <2>3. /\ \A m \in Plain \ {from, to} : disk'[m] = disk[m]
        /\ \A m \in Plain : m.stem \notin {from.stem, to.stem} =>
               disk'[Storage!Aside(m)] = disk[Storage!Aside(m)]
    BY <1>1, <1>2, <1>4, MoveIs DEF StorageInv, StorageAssumption
  <2>4. /\ kept' \in [FileNames -> 0 .. MaxWrites] /\ kept'[from] = 0 /\ kept'[to] = disk[from]
        /\ \A m \in FileNames \ {from, to} : kept'[m] = kept[m]
    <3>1. disk[from] \in 0 .. MaxWrites /\ 0 \in 0 .. MaxWrites
      BY <1>2 DEF StorageInv, Contents, StorageAssumption
    <3> QED
      BY <1>1, <1>4, <3>1 DEF StorageInv, Contents
  <2>5. \A m \in Plain :
            m.stem \notin shared /\ m.stem \in {from.stem, to.stem} => disk'[m] = kept'[m]
    BY <1>2, <1>3, <2>2, <2>3, <2>4
  <2>6. \A m \in Plain : m.stem \notin {from.stem, to.stem} =>
            disk'[m] = disk[m] /\ kept'[m] = kept[m]
    BY <1>2, <2>3, <2>4
  <2>7. OldIsAside' /\ There'
    BY <1>1, <1>4, <2>1, <2>3, <2>5, <2>6, LeavingKeeps DEF StorageInv, StorageAssumption
  <2> QED
    BY <1>4, <2>1, <2>2, <2>4, <2>7, CallsStayApart DEF StorageInv, Contents
<1>5. CASE disk' = Storage!Undone(moves[t]) /\ Storage!Ends(t, -1) /\ UNCHANGED <<kept, shared>>
  <2>1. /\ moves' \in [Callers -> CallRecord] /\ moves'[t].step = "none"
        /\ \A u \in Callers \ {t} : moves'[u] = moves[u]
        /\ Onward
    BY <1>5, EndingIs DEF StorageInv, StorageAssumption
  <2>2. CASE moves[t].had /\ disk[aside] # 0
    <3>a. Contents
      BY DEF StorageInv
    <3>1. (disk' = disk /\ aside = to) \/ (aside # to /\ disk' = Storage!Move(aside, to))
      BY <1>5, <2>2 DEF Storage!Undone, Storage!Move
    <3>2. disk' \in [Storage!Places -> 0 .. MaxWrites] /\ disk'[to] = disk[aside]
      BY <1>2, <3>a, <3>1, MoveIs DEF StorageAssumption, Contents
    <3>3. /\ \A m \in Plain \ {to} : disk'[m] = disk[m]
          /\ \A m \in Plain : m.stem \notin {from.stem, to.stem} =>
                 disk'[Storage!Aside(m)] = disk[Storage!Aside(m)]
      BY <1>2, <3>a, <3>1, MoveIs DEF StorageAssumption
    <3>4. to \in Plain /\ to.stem \notin shared => disk'[to] = kept[to]
      BY <1>1, <2>2, <3>2 DEF StorageInv, OldIsAside
    <3>5. \A m \in Plain :
              m.stem \notin shared /\ m.stem \in {from.stem, to.stem} => disk'[m] = kept[m]
      BY <1>3, <3>3, <3>4
    <3>6. OldIsAside' /\ There'
      BY <1>1, <1>5, <2>1, <3>3, <3>5, LeavingKeeps DEF StorageInv, StorageAssumption
    <3> QED
      BY <1>5, <2>1, <3>2, <3>6, CallsStayApart DEF StorageInv, Contents
  <2>3. CASE ~(moves[t].had /\ disk[aside] # 0)
    <3>1. disk' = disk
      BY <1>5, <2>3 DEF Storage!Undone
    <3>2. to \in Plain /\ to.stem \notin shared => disk[to] = kept[to]
      BY <1>1, <2>3 DEF StorageInv, OldIsAside
    <3>3. \A m \in Plain :
              m.stem \notin shared /\ m.stem \in {from.stem, to.stem} => disk[m] = kept[m]
      BY <1>3, <3>2
    <3>4. OldIsAside' /\ There'
      BY <1>1, <1>5, <2>1, <3>1, <3>3, LeavingKeeps DEF StorageInv, StorageAssumption
    <3> QED
      BY <1>5, <2>1, <3>1, <3>4, CallsStayApart DEF StorageInv, Contents
  <2> QED
    BY <2>2, <2>3
<1>6. CASE shared' = shared \cup {to.stem} /\ Storage!Ends(t, -1) /\ UNCHANGED <<disk, kept>>
  <2>1. /\ moves' \in [Callers -> CallRecord] /\ moves'[t].step = "none"
        /\ \A u \in Callers \ {t} : moves'[u] = moves[u]
        /\ Onward
    BY <1>6, EndingIs DEF StorageInv, StorageAssumption
  <2>2. \A m \in Plain :
            m.stem \notin shared' /\ m.stem \in {from.stem, to.stem} => disk[m] = kept[m]
    BY <1>3, <1>6
  <2>3. OldIsAside' /\ There'
    BY <1>1, <1>6, <2>1, <2>2, LeavingKeeps DEF StorageInv, StorageAssumption
  <2> QED
    BY <1>6, <2>1, <2>3, CallsStayApart DEF StorageInv, Contents
<1> QED
  BY <1>4, <1>5, <1>6 DEF Storage!MoveInto

\* A file is written or removed by a caller that replaces nothing.
LEMMA WriteKeeps ==
    ASSUME StorageAssumption, StorageInv, Rest, NEW t \in Callers, NEW n \in FileNames,
           Storage!Write(t, n) \/ Storage!RemoveFile(t, n)
    PROVE  StorageInv'
<1>1. /\ moves' = moves /\ Storage!Idle(t) /\ Storage!Touches(n)
      /\ \E w \in 0 .. MaxWrites : disk' = [disk EXCEPT ![n] = w] /\ kept' = [kept EXCEPT ![n] = w]
  <2>1. writes < MaxWrites => writes + 1 \in 0 .. MaxWrites
    BY DEF Rest, StorageAssumption
  <2>2. 0 \in 0 .. MaxWrites
    BY DEF StorageAssumption
  <2> QED
    BY <2>1, <2>2 DEF Storage!Write, Storage!RemoveFile
<1>2. PICK w \in 0 .. MaxWrites : disk' = [disk EXCEPT ![n] = w] /\ kept' = [kept EXCEPT ![n] = w]
  BY <1>1
<1>3. Contents'
  BY <1>1, <1>2 DEF StorageInv, Contents
<1>4. OldIsAside' /\ There'
  BY <1>1, <1>2, WritingKeeps DEF StorageInv, StorageAssumption
<1>5. Onward /\ shared \subseteq shared'
  BY <1>1 DEF Onward, Goes, Storage!Idle, Storage!Touches
<1> QED
  BY <1>3, <1>4, <1>5, CallsStayApart DEF StorageInv

\* A replacement begins, or is refused.
LEMMA ReplaceKeeps ==
    ASSUME StorageAssumption, StorageInv, NEW t \in Callers, NEW from \in FileNames, NEW to \in FileNames,
           Storage!Replace(t, from, to)
    PROVE  StorageInv'
<1>1. CallsApart' /\ Distinct'
  BY ReplaceKeepsApart DEF StorageInv, Contents, StorageAssumption
<1>2. /\ UNCHANGED <<disk, kept>> /\ shared \subseteq shared' /\ moves[t].step = "none"
      /\ \E c \in CallRecord : c.step # "move" /\ moves' = [moves EXCEPT ![t] = c]
  <2>1. [step |-> "clear", from |-> from, to |-> to, had |-> FALSE] \in CallRecord
    BY DEF CallRecord
  <2>2. Storage!NoCall \in CallRecord /\ Storage!NoCall.step # "move"
    BY NoCallIsACall DEF StorageAssumption
  <2> QED
    BY <2>1, <2>2 DEF Storage!Replace, Storage!Ends, Storage!Idle
<1>3. PICK c \in CallRecord : c.step # "move" /\ moves' = [moves EXCEPT ![t] = c]
  BY <1>2
<1>4. moves' \in [Callers -> CallRecord] /\ \A u \in Callers : moves'[u].step = "move" => moves'[u] = moves[u]
  BY <1>3 DEF StorageInv, Contents
<1>5. \A u \in Callers : moves[u].step = "move" => moves'[u] = moves[u]
  BY <1>2, <1>3 DEF StorageInv, Contents
<1>6. OldIsAside'
  BY <1>2, <1>4 DEF StorageInv, OldIsAside, Storage!Aside, Plain
<1>7. There'
  BY <1>2, <1>5 DEF StorageInv, There, Moving, Plain
<1> QED
  BY <1>1, <1>2, <1>4, <1>6, <1>7 DEF StorageInv, Contents

\* A crash ends all calls, and notes the stems of those between their two renames.
LEMMA CrashKeeps ==
    ASSUME StorageAssumption, StorageInv, Storage!Crash
    PROVE  StorageInv'
<1>1. \A t \in Callers : moves'[t] = Storage!NoCall /\ moves'[t].step = "none"
  BY NoCallIsACall DEF Storage!Crash, StorageAssumption
<1>2. moves' \in [Callers -> CallRecord]
  BY NoCallIsACall DEF Storage!Crash, StorageAssumption
<1>3. CallsApart' /\ Distinct' /\ OldIsAside'
  BY <1>1 DEF CallsApart, Distinct, OldIsAside, Storage!Idle
<1>4. \A n \in FileNames : Moving(n) => n.stem \in shared'
  <2> SUFFICES ASSUME NEW t \in Callers, moves[t].step = "move" PROVE moves[t].to.stem \in shared'
    BY DEF Moving
  <2>1. moves[t].to.stem \in Storage!Stems({u \in Callers : moves[u].step = "move"})
    BY DEF Storage!Stems, Storage!Idle
  <2> QED
    BY <2>1 DEF Storage!Crash
<1>5. There'
  BY <1>4 DEF Storage!Crash, StorageInv, There, Plain
<1> QED
  BY <1>2, <1>3, <1>5 DEF Storage!Crash, StorageInv, Contents

\* The numbers stay within their bounds, the stems noted are stems of files.
LEMMA RestKept ==
    ASSUME StorageAssumption, Contents, Rest, Storage!Next
    PROVE  Rest'
<1> USE DEF Rest
<1>1. \A T \in SUBSET Callers : Storage!Stems(T) \subseteq {n.stem : n \in FileNames}
  BY DEF Contents, CallRecord, Storage!Stems
<1>2. ASSUME NEW t \in Callers, NEW n \in FileNames, Storage!Write(t, n) \/ Storage!RemoveFile(t, n) PROVE Rest'
  BY <1>2 DEF Storage!Write, Storage!RemoveFile, Storage!Touches, StorageAssumption
<1>3. ASSUME NEW t \in Callers, NEW n \in FileNames, NEW m \in FileNames, Storage!Replace(t, n, m) PROVE Rest'
  BY <1>3 DEF Storage!Replace, Storage!Ends
<1>4. ASSUME NEW t \in Callers, Storage!ClearBackup(t) \/ Storage!SetAside(t) \/ Storage!Tidy(t) PROVE Rest'
  BY <1>4 DEF Storage!ClearBackup, Storage!SetAside, Storage!Tidy, Storage!Ends, Storage!Goes
<1>5. ASSUME NEW t \in Callers, Storage!MoveInto(t) PROVE Rest'
  <2>1. moves[t].to.stem \in {n.stem : n \in FileNames}
    BY DEF Contents, CallRecord
  <2> QED
    BY <1>5, <2>1 DEF Storage!MoveInto, Storage!Ends, Storage!Goes
<1>6. ASSUME Storage!Crash PROVE Rest'
  BY <1>1, <1>6 DEF Storage!Crash
<1> QED
  BY <1>2, <1>3, <1>4, <1>5, <1>6 DEF Storage!Next

\* The invariant holds at first and after every step.
LEMMA StorageInvInductive ==
    ASSUME StorageAssumption
    PROVE  /\ Storage!Init => StorageInv /\ Rest
           /\ StorageInv /\ Rest /\ [Storage!Next]_(Storage!vars) => StorageInv' /\ Rest'
<1>1. ASSUME Storage!Init PROVE StorageInv /\ Rest
  <2>1. Contents /\ Rest /\ \A t \in Callers : moves[t].step = "none"
    BY <1>1, NoCallIsACall DEF Storage!Init, Contents, Rest, StorageAssumption
  <2>2. CallsApart /\ Distinct /\ OldIsAside
    BY <2>1 DEF CallsApart, Distinct, OldIsAside, Storage!Idle
  <2>3. There
    BY <1>1 DEF Storage!Init, There, Storage!Places, Plain
  <2> QED
    BY <2>1, <2>2, <2>3 DEF StorageInv
<1>2. ASSUME StorageInv, Rest, Storage!Next PROVE StorageInv' /\ Rest'
  <2>1. Rest'
    BY <1>2, RestKept DEF StorageInv
  <2>2. StorageInv'
    BY <1>2, WriteKeeps, ReplaceKeeps, ClearBackupKeeps, SetAsideKeeps, MoveIntoKeeps, TidyKeeps,
       CrashKeeps DEF Storage!Next
  <2> QED
    BY <2>1, <2>2
<1>3. ASSUME StorageInv, Rest, UNCHANGED Storage!vars PROVE StorageInv' /\ Rest'
  BY <1>3 DEF Storage!vars, StorageInv, Rest, Contents, CallsApart, Distinct, OldIsAside, There, Moving, Storage!Idle, Storage!Aside
<1> QED
  BY <1>1, <1>2, <1>3

\* Every file holds one of the contents written and every call is at one of its steps
\* (app_fs_replace, thistle_fs_open, app_fs_remove).
THEOREM StorageTypeCorrect ==
    ASSUME StorageAssumption PROVE Storage!Spec => []Storage!TypeOK
<1>1. StorageInv /\ Rest => Storage!TypeOK
  BY DEF StorageInv, Rest, Contents, CallRecord, Storage!TypeOK
<1> QED
  BY <1>1, StorageInvInductive, PTL DEF Storage!Spec

\* For any number of tasks and of files: what a name was last given is under it, or aside while
\* it is being replaced, unless two calls shared its stem or a replacement was cut short, even
\* when the app has files that are named like backups (replace_storage_path).
THEOREM FilesAreNotLost ==
    ASSUME StorageAssumption PROVE Storage!Spec => []Storage!NothingIsLost
<1>1. StorageInv => Storage!NothingIsLost
  <2> SUFFICES ASSUME StorageInv, NEW n \in Plain, n.stem \notin shared, disk[n] # kept[n]
               PROVE  disk[Storage!Aside(n)] = kept[n]
    BY DEF Storage!NothingIsLost, Plain
  <2>1. PICK t \in Callers : moves[t].step = "move" /\ moves[t].to = n
    BY DEF StorageInv, There, Moving
  <2> QED
    BY <2>1 DEF StorageInv, OldIsAside
<1> QED
  BY <1>1, StorageInvInductive, PTL DEF Storage!Spec

-----------------------------------------------------------------------------
(* The messages between apps                                               *)

CONSTANTS
    Receivers,     \* tasks that receive
    MessageTypes,
    Depth,         \* IPC_QUEUE_DEPTH
    MaxHandlers,   \* IPC_HANDLER_MAX
    MaxSent        \* bound on the messages ever sent

VARIABLES
    queue,     \* numbers of the messages queued
    handlers,  \* types of the handlers registered
    asleep,    \* receivers that wait
    woken,     \* receivers that were notified or whose time is over, not yet running
    sent,      \* number of messages sent
    refused,   \* those that found the queue full
    heard,     \* numbers handed to a handler
    received   \* numbers handed to receivers, in order

Mail == INSTANCE Ipc WITH Types <- MessageTypes

\* The receivers are finitely many.
MailAssumption == Depth \in Nat /\ MaxHandlers \in Nat /\ MaxSent \in Nat /\ IsFiniteSet(Receivers)

\* Taking the first message leaves what was taken and what is queued together as it was.
LEMMA TakingKeepsTheWhole ==
    ASSUME NEW r \in Seq(Nat), NEW q \in Seq(Nat), q # <<>>
    PROVE  Append(r, Head(q)) \o Tail(q) = r \o q
<1>1. Len(q) >= 1 /\ Len(Tail(q)) = Len(q) - 1 /\ Tail(q) \in Seq(Nat) /\ Head(q) \in Nat
  OBVIOUS
<1>2. Append(r, Head(q)) \in Seq(Nat) /\ Len(Append(r, Head(q))) = Len(r) + 1
  BY <1>1
<1>3. Len(Append(r, Head(q)) \o Tail(q)) = Len(r \o q)
  BY <1>1, <1>2
<1>4. ASSUME NEW i \in 1 .. Len(r \o q) PROVE (Append(r, Head(q)) \o Tail(q))[i] = (r \o q)[i]
  BY <1>1, <1>2
<1> QED
  BY <1>1, <1>2, <1>3, <1>4

\* A message queued comes after all that were taken and are queued.
LEMMA AppendingToTheWhole ==
    ASSUME NEW r \in Seq(Nat), NEW q \in Seq(Nat), NEW n \in Nat
    PROVE  r \o Append(q, n) = Append(r \o q, n)
  OBVIOUS

\* A refused message is one that was sent.
RefusedWereSent == refused \subseteq 1 .. sent

\* Nobody sleeps on a message that no woken receiver will fetch.
SleepersHaveNothing == asleep # {} => Len(queue) <= Cardinality(woken)

\* Numbers in the order they were given.
Increasing(s) == \A i, j \in DOMAIN s : i < j => s[i] < s[j]

\* What was taken and what is queued, together, are the messages that were not refused.
Whole ==
    /\ Mail!ToSet(received \o queue) = (1 .. sent) \ refused
    /\ Increasing(received \o queue)

\* The invariant of the messages.
MailInv == Mail!TypeOK /\ RefusedWereSent /\ SleepersHaveNothing /\ Whole

\* The next number comes after all that were not refused.
LEMMA WholeGrows ==
    ASSUME NEW s \in Seq(Nat), NEW n \in Nat, NEW out \in SUBSET Nat, out \subseteq 1 .. n,
           Mail!ToSet(s) = (1 .. n) \ out, Increasing(s)
    PROVE  Mail!ToSet(Append(s, n + 1)) = (1 .. n + 1) \ out /\ Increasing(Append(s, n + 1))
<1> DEFINE a == Append(s, n + 1)
<1>1. /\ DOMAIN s = 1 .. Len(s) /\ Len(s) \in Nat /\ DOMAIN a = 1 .. Len(s) + 1
      /\ a[Len(s) + 1] = n + 1 /\ \A i \in 1 .. Len(s) : a[i] = s[i] /\ s[i] \in Nat
  OBVIOUS
<1>2. \A i \in 1 .. Len(s) : s[i] \in (1 .. n) \ out
  BY <1>1 DEF Mail!ToSet
<1>3. Increasing(a)
  BY <1>1, <1>2 DEF Increasing
<1>4. Mail!ToSet(a) = Mail!ToSet(s) \cup {n + 1}
  <2>1. Mail!ToSet(a) = {a[i] : i \in 1 .. Len(s) + 1} /\ Mail!ToSet(s) = {s[i] : i \in 1 .. Len(s)}
    BY <1>1 DEF Mail!ToSet
  <2>2. 1 .. Len(s) + 1 = (1 .. Len(s)) \cup {Len(s) + 1}
    BY <1>1
  <2> QED
    BY <1>1, <2>1, <2>2
<1>5. (1 .. n + 1) \ out = ((1 .. n) \ out) \cup {n + 1}
  OBVIOUS
<1> QED
  BY <1>3, <1>4, <1>5

\* Waking one receiver makes one more, and its running one less.
LEMMA WokenIsFinite ==
    ASSUME MailAssumption, Mail!TypeOK
    PROVE  /\ IsFiniteSet(woken) /\ Cardinality(woken) \in Nat
           /\ \A r \in Receivers \ woken : Cardinality(woken \cup {r}) = Cardinality(woken) + 1
           /\ \A r \in woken : Cardinality(woken \ {r}) = Cardinality(woken) - 1
<1>1. IsFiniteSet(woken)
  BY FS_Subset DEF MailAssumption, Mail!TypeOK
<1> QED
  BY <1>1, FS_CardinalityType, FS_AddElement, FS_RemoveElement

\* The queue and what was taken, as sequences of numbers.
LEMMA MailIsNumbers ==
    ASSUME MailAssumption, Mail!TypeOK
    PROVE  /\ queue \in Seq(Nat) /\ received \in Seq(Nat) /\ received \o queue \in Seq(Nat)
           /\ Len(queue) \in Nat /\ sent \in Nat
<1>1. Mail!Numbers \subseteq Nat /\ sent \in Nat
  BY DEF Mail!Numbers, Mail!TypeOK, MailAssumption
<1>2. ASSUME NEW s \in Seq(Mail!Numbers) PROVE s \in Seq(Nat) /\ Len(s) \in Nat
  <2>1. Len(s) \in Nat /\ s \in [1 .. Len(s) -> Mail!Numbers]
    OBVIOUS
  <2>2. s \in [1 .. Len(s) -> Nat]
    BY <1>1, <2>1
  <2> QED
    BY <2>1, <2>2
<1>3. queue \in Seq(Nat) /\ received \in Seq(Nat) /\ Len(queue) \in Nat
  BY <1>2 DEF Mail!TypeOK
<1> QED
  BY <1>1, <1>3

\* A message is taken by a receiver.
LEMMA TakeKeeps ==
    ASSUME MailAssumption, MailInv, queue # <<>>, Mail!TakeFirst,
           UNCHANGED <<handlers, sent, refused, heard>>
    PROVE  /\ queue' \in Seq(Mail!Numbers) /\ Len(queue') = Len(queue) - 1 /\ received' \in Seq(Mail!Numbers)
           /\ Whole' /\ RefusedWereSent'
<1>1. /\ queue \in Seq(Mail!Numbers) /\ received \in Seq(Mail!Numbers)
      /\ queue \in Seq(Nat) /\ received \in Seq(Nat)
  BY MailIsNumbers DEF MailInv, Mail!TypeOK
<1>2. queue' = Tail(queue) /\ received' = Append(received, Head(queue))
  BY DEF Mail!TakeFirst
<1>3. received' \o queue' = received \o queue
  BY <1>1, <1>2, TakingKeepsTheWhole
<1>4. queue' \in Seq(Mail!Numbers) /\ Len(queue') = Len(queue) - 1 /\ received' \in Seq(Mail!Numbers)
  BY <1>1, <1>2
<1> QED
  BY <1>3, <1>4 DEF MailInv, Whole, RefusedWereSent

\* A message is queued and one sleeper woken, or it is refused (ipc_send_impl).
LEMMA SendKeeps ==
    ASSUME MailAssumption, MailInv, NEW type \in MessageTypes, Mail!Send(type)
    PROVE  MailInv'
<1> DEFINE n == sent + 1
<1>1. /\ sent \in Nat /\ n \in Mail!Numbers /\ sent' = n /\ UNCHANGED <<handlers, received>>
      /\ queue \in Seq(Nat) /\ received \in Seq(Nat) /\ received \o queue \in Seq(Nat) /\ Len(queue) \in Nat
  BY MailIsNumbers DEF MailInv, Mail!Send, Mail!Numbers, MailAssumption, Mail!TypeOK
<1>2. heard' \subseteq Mail!Numbers /\ sent' \in 0 .. MaxSent
  BY <1>1 DEF MailInv, Mail!TypeOK, Mail!Send, MailAssumption, Mail!Numbers
<1>3. CASE Len(queue) < Depth
  <2>1. queue' = Append(queue, n) /\ refused' = refused /\ Mail!NotifyOne
    BY <1>3 DEF Mail!Send, Mail!Enqueue
  <2>2. queue' \in Seq(Mail!Numbers) /\ Len(queue') = Len(queue) + 1 /\ Len(queue') <= Depth
    BY <1>1, <1>3, <2>1 DEF MailInv, Mail!TypeOK, MailAssumption
  <2>3. received' \o queue' = Append(received \o queue, n)
    BY <1>1, <2>1, AppendingToTheWhole
  <2>4. refused \in SUBSET Nat
    BY DEF MailInv, Mail!TypeOK, Mail!Numbers
  <2>5. Whole'
    <3>1. /\ Mail!ToSet(received \o queue) = (1 .. sent) \ refused
          /\ Increasing(received \o queue) /\ refused \subseteq 1 .. sent
      BY DEF MailInv, Whole, RefusedWereSent
    <3>2. /\ Mail!ToSet(Append(received \o queue, n)) = (1 .. n) \ refused
          /\ Increasing(Append(received \o queue, n))
      BY <1>1, <2>4, <3>1, WholeGrows
    <3> QED
      BY <1>1, <2>1, <2>3, <3>2, Zenon DEF Whole
  <2>6. RefusedWereSent'
    BY <1>1, <2>1 DEF MailInv, RefusedWereSent
  <2>7. CASE asleep = {}
    BY <1>1, <1>2, <2>1, <2>2, <2>5, <2>6, <2>7
       DEF MailInv, Mail!TypeOK, Mail!NotifyOne, SleepersHaveNothing
  <2>8. CASE asleep # {}
    <3>1. PICK r \in asleep : asleep' = asleep \ {r} /\ woken' = woken \cup {r}
      BY <2>1, <2>8 DEF Mail!NotifyOne
    <3>2. r \in Receivers \ woken
      BY DEF MailInv, Mail!TypeOK
    <3>3. Cardinality(woken') = Cardinality(woken) + 1 /\ Cardinality(woken) \in Nat
      BY <3>1, <3>2, WokenIsFinite DEF MailInv
    <3>4. SleepersHaveNothing'
      BY <1>1, <2>2, <2>8, <3>3 DEF MailInv, SleepersHaveNothing
    <3> QED
      BY <1>1, <1>2, <2>1, <2>2, <2>5, <2>6, <3>1, <3>2, <3>4 DEF MailInv, Mail!TypeOK
  <2> QED
    BY <2>7, <2>8
<1>4. CASE ~(Len(queue) < Depth)
  <2>1. refused' = refused \cup {n} /\ UNCHANGED <<queue, asleep, woken>>
    BY <1>4 DEF Mail!Send
  <2>2. (1 .. n) \ refused' = (1 .. sent) \ refused
    BY <1>1, <2>1
  <2>3. Whole'
    BY <1>1, <2>1, <2>2 DEF MailInv, Whole
  <2>4. RefusedWereSent'
    BY <1>1, <2>1 DEF MailInv, RefusedWereSent
  <2> QED
    BY <1>1, <1>2, <2>1, <2>3, <2>4 DEF MailInv, Mail!TypeOK, SleepersHaveNothing
<1> QED
  BY <1>3, <1>4

\* A receiver takes the first message, or goes to sleep (ipc_recv_impl).
LEMMA ReceiveKeeps ==
    ASSUME MailAssumption, MailInv, NEW r \in Receivers, Mail!Receive(r)
    PROVE  MailInv'
<1>1. r \notin asleep \cup woken /\ UNCHANGED <<handlers, woken, sent, refused, heard>>
  BY DEF Mail!Receive
<1>2. CASE queue # <<>> /\ Mail!TakeFirst /\ UNCHANGED asleep
  <2>1. /\ queue' \in Seq(Mail!Numbers) /\ Len(queue') = Len(queue) - 1 /\ received' \in Seq(Mail!Numbers)
        /\ Whole' /\ RefusedWereSent'
    BY <1>1, <1>2, TakeKeeps
  <2>2. Len(queue) \in Nat /\ Cardinality(woken) \in Nat
    BY MailIsNumbers, WokenIsFinite DEF MailInv
  <2>3. SleepersHaveNothing' /\ Len(queue') <= Depth
    BY <1>1, <1>2, <2>1, <2>2 DEF MailInv, SleepersHaveNothing, Mail!TypeOK, MailAssumption
  <2> QED
    BY <1>1, <1>2, <2>1, <2>3 DEF MailInv, Mail!TypeOK
<1>3. CASE queue = <<>> /\ asleep' = asleep \cup {r} /\ UNCHANGED <<queue, received>>
  <2>1. Len(queue) = 0 /\ Cardinality(woken) \in Nat
    BY <1>3, WokenIsFinite DEF MailInv
  <2> QED
    BY <1>1, <1>3, <2>1 DEF MailInv, Mail!TypeOK, Whole, RefusedWereSent, SleepersHaveNothing
<1> QED
  BY <1>2, <1>3 DEF Mail!Receive

\* A woken receiver takes the first message, sleeps again or gives up (wait_timeout_while).
LEMMA WakeUpKeeps ==
    ASSUME MailAssumption, MailInv, NEW r \in Receivers, Mail!WakeUp(r)
    PROVE  MailInv'
<1>1. r \in woken /\ woken' = woken \ {r} /\ UNCHANGED <<handlers, sent, refused, heard>>
  BY DEF Mail!WakeUp
<1>2. Cardinality(woken) \in Nat /\ Cardinality(woken') = Cardinality(woken) - 1 /\ Cardinality(woken') \in Nat
  BY <1>1, WokenIsFinite, FS_Subset, FS_CardinalityType DEF MailInv
<1>3. CASE queue # <<>> /\ Mail!TakeFirst /\ UNCHANGED asleep
  <2>1. /\ queue' \in Seq(Mail!Numbers) /\ Len(queue') = Len(queue) - 1 /\ received' \in Seq(Mail!Numbers)
        /\ Whole' /\ RefusedWereSent'
    BY <1>1, <1>3, TakeKeeps
  <2>2. Len(queue) \in Nat
    BY MailIsNumbers DEF MailInv
  <2>3. SleepersHaveNothing' /\ Len(queue') <= Depth
    BY <1>1, <1>2, <1>3, <2>1, <2>2 DEF MailInv, SleepersHaveNothing, Mail!TypeOK, MailAssumption
  <2> QED
    BY <1>1, <1>3, <2>1, <2>3 DEF MailInv, Mail!TypeOK
<1>4. CASE queue = <<>> /\ asleep' \in {asleep, asleep \cup {r}} /\ UNCHANGED <<queue, received>>
  <2>1. Len(queue') = 0
    BY <1>4
  <2> QED
    BY <1>1, <1>2, <1>4, <2>1 DEF MailInv, Mail!TypeOK, Whole, RefusedWereSent, SleepersHaveNothing
<1> QED
  BY <1>3, <1>4 DEF Mail!WakeUp

\* A sleeper whose time is over is woken.
LEMMA TimeOverKeeps ==
    ASSUME MailAssumption, MailInv, NEW r \in Receivers, Mail!TimeOver(r)
    PROVE  MailInv'
<1>1. /\ r \in asleep /\ asleep' = asleep \ {r} /\ woken' = woken \cup {r}
      /\ UNCHANGED <<queue, handlers, sent, refused, heard, received>>
  BY DEF Mail!TimeOver
<1>2. r \in Receivers \ woken
  BY <1>1 DEF MailInv, Mail!TypeOK
<1>3. Cardinality(woken') = Cardinality(woken) + 1 /\ Cardinality(woken) \in Nat /\ Len(queue) \in Nat
  BY <1>1, <1>2, WokenIsFinite, MailIsNumbers DEF MailInv
<1>4. SleepersHaveNothing'
  BY <1>1, <1>3 DEF MailInv, SleepersHaveNothing
<1> QED
  BY <1>1, <1>2, <1>4 DEF MailInv, Mail!TypeOK, Whole, RefusedWereSent

\* The invariant holds at first and after every step.
LEMMA MailInvInductive ==
    ASSUME MailAssumption
    PROVE  /\ Mail!Init => MailInv
           /\ MailInv /\ [Mail!Next]_(Mail!vars) => MailInv'
<1>1. ASSUME Mail!Init PROVE MailInv
  <2>1. Mail!TypeOK
    BY <1>1 DEF Mail!Init, Mail!TypeOK, MailAssumption, Mail!Numbers
  <2>2. RefusedWereSent /\ SleepersHaveNothing
    BY <1>1 DEF Mail!Init, RefusedWereSent, SleepersHaveNothing
  <2>3. received \o queue = <<>> /\ DOMAIN (received \o queue) = {} /\ (1 .. sent) \ refused = {}
    BY <1>1 DEF Mail!Init
  <2>4. Whole
    BY <2>3 DEF Whole, Increasing, Mail!ToSet
  <2> QED
    BY <2>1, <2>2, <2>4 DEF MailInv
<1>2. ASSUME MailInv, Mail!Next PROVE MailInv'
  <2>1. ASSUME NEW type \in MessageTypes, Mail!RegisterHandler(type) PROVE MailInv'
    BY <1>2, <2>1
       DEF Mail!RegisterHandler, MailInv, Mail!TypeOK, Whole, RefusedWereSent, SleepersHaveNothing, MailAssumption
  <2> QED
    BY <1>2, <2>1, SendKeeps, ReceiveKeeps, WakeUpKeeps, TimeOverKeeps DEF Mail!Next
<1>3. ASSUME MailInv, UNCHANGED Mail!vars PROVE MailInv'
  BY <1>3 DEF Mail!vars, MailInv, Mail!TypeOK, Whole, RefusedWereSent, SleepersHaveNothing
<1> QED
  BY <1>1, <1>2, <1>3

\* Neither the queue nor the list of handlers outgrows its bound (ipc_send_impl,
\* ipc_register_handler_impl).
THEOREM MailTypeCorrect ==
    ASSUME MailAssumption PROVE Mail!Spec => []Mail!TypeOK
  BY MailInvInductive, PTL DEF Mail!Spec, MailInv

\* For any number of receivers and any depth of the queue: messages that were taken come out once,
\* in the order they were sent, those refused never do, and nobody sleeps on a message that no
\* woken receiver will fetch (ipc_send_impl, ipc_recv_impl).
THEOREM MailComesOut ==
    ASSUME MailAssumption PROVE Mail!Spec => []Mail!MessagesComeOut
<1>1. ASSUME MailInv PROVE Mail!MessagesComeOut
  <2>1. Mail!ToSet(received \o queue) = (1 .. sent) \ refused /\ SleepersHaveNothing
    BY <1>1 DEF MailInv, Whole
  <2>2. \A i, j \in DOMAIN (received \o queue) :
            i < j => (received \o queue)[i] < (received \o queue)[j]
    BY <1>1, Zenon DEF MailInv, Whole, Increasing
  <2>3. Mail!Cardinality(woken) = Cardinality(woken)
    BY DEF Mail!Cardinality, Cardinality, Mail!IsFiniteSet, IsFiniteSet
  <2> QED
    BY <2>1, <2>2, <2>3, Zenon DEF SleepersHaveNothing, Mail!MessagesComeOut
<1> QED
  BY <1>1, MailInvInductive, PTL DEF Mail!Spec

=============================================================================
