----------------------------- MODULE DriverBoot -----------------------------
(***************************************************************************)
(* How drivers come to life while the kernel boots: kernel_boot.rs calls   *)
(* board_config.rs, which reads board.json, initialises the buses, loads   *)
(* driver images (driver_loader.rs, signing.rs) or takes compiled-in ones, *)
(* and has driver_manager.rs start everything that hal_registry.rs holds.  *)
(* When the configuration fails, kernel_init falls back to board_init and  *)
(* to the images it finds on the SD card.                                  *)
(*                                                                         *)
(* The boot is one thread; its steps interleave with the replacement of    *)
(* files on the storage.  Buses, relocation and the drivers' own code may  *)
(* fail.  Three builds exist: "release" and "debug" on the device, "sim",  *)
(* which loads host libraries with dlopen and checks no signature.         *)
(***************************************************************************)
EXTENDS Integers, Sequences, FiniteSets, SequencesExt

CONSTANTS
    Drivers,
    NoDriver,
    Builtin,      \* drivers compiled into the kernel
    BoardDrivers, \* those board_init registers
    Displays,     \* those that register a display
    InputDrivers, \* an input device
    Radios,       \* or a radio: the others register a storage
    Listed,       \* the drivers of board.json
    Builds,       \* the builds to check
    MaxLoaded,    \* MAX_LOADED_DRVS
    MaxInputs,    \* HAL_MAX_INPUT_DRIVERS
    MaxStorage    \* HAL_MAX_STORAGE_DRIVERS

ASSUME DriversAssumption ==
    /\ IsFiniteSet(Drivers) /\ NoDriver \notin Drivers
    /\ Builtin \subseteq Drivers /\ BoardDrivers \subseteq Builtin
    /\ Displays \subseteq Drivers /\ InputDrivers \subseteq Drivers /\ Radios \subseteq Drivers
    /\ Listed \subseteq Drivers
    /\ Builds \subseteq {"release", "debug", "sim"}

ASSUME LimitsAssumption == MaxLoaded \in Nat /\ MaxInputs \in Nat /\ MaxStorage \in Nat

VARIABLES
    build,     \* which of the builds runs
    step,      \* where kernel_init is
    todo,      \* the drivers that step has still to go through
    load,      \* how far the loading of Head(todo) is
    files,     \* what the storage has of each driver
    image,     \* the bytes that were read of it
    locked,    \* is the mutex STATE of the loader held?
    config,    \* the driver whose configuration is current_config
    loaded,    \* the slots of the loader in use
    registry,  \* the HAL registry
    started,   \* the drivers whose init was called, in order
    key,       \* has signing_init been called?
    given,     \* history: whose configuration a driver got
    refused    \* history: drivers whose signed image was refused

vars == <<build, step, todo, load, files, image, locked, config, loaded, registry,
          started, key, given, refused>>

loading == <<load, image, locked, config, given>>

\* A file is the vendor's signed image, an image without signature, or other
\* bytes beside the vendor's signature.
Files == {"none", "genuine", "unsigned", "tampered"}
Bytes(file) == IF file = "genuine" THEN "vendor" ELSE "foreign"

EmptyRegistry == [display |-> NoDriver, inputs |-> <<>>, radio |-> NoDriver, storage |-> <<>>]

TypeOK ==
    /\ build \in Builds
    /\ step \in {"config", "board", "register", "buses", "drivers", "start", "fallback",
                 "fallback register", "fallback start", "scan", "services", "done"}
    /\ todo \in Seq(Drivers)
    /\ load \in {"idle", "read", "init", "asking", "configured", "registered"}
    /\ files \in [Drivers -> Files]
    /\ image \in {"none", "vendor", "foreign"}
    /\ locked \in BOOLEAN /\ key \in BOOLEAN
    /\ config \in Drivers \cup {NoDriver}
    /\ loaded \in Seq(Drivers) /\ Len(loaded) <= MaxLoaded
    /\ registry \in [display : Drivers \cup {NoDriver}, radio : Drivers \cup {NoDriver},
                     inputs : Seq(Drivers), storage : Seq(Drivers)]
    /\ Len(registry.inputs) <= MaxInputs /\ Len(registry.storage) <= MaxStorage
    /\ started \in Seq(Drivers)
    /\ given \in [Drivers -> Drivers \cup {NoDriver}]
    /\ refused \subseteq Drivers

Init ==
    /\ build \in Builds
    /\ step = "config" /\ todo = <<>> /\ load = "idle"
    /\ files \in [Drivers -> Files]
    /\ image = "none" /\ locked = FALSE /\ config = NoDriver
    /\ loaded = <<>> /\ registry = EmptyRegistry /\ started = <<>>
    /\ key = FALSE
    /\ given = [d \in Drivers |-> d]
    /\ refused = {}

-----------------------------------------------------------------------------
(* The HAL registry                                                        *)

\* The interface a driver registers.
HalOf == [d \in Drivers |-> IF d \in Displays THEN "display"
                            ELSE IF d \in InputDrivers THEN "input"
                            ELSE IF d \in Radios THEN "radio" ELSE "storage"]

\* (mutant: the number of registered drivers is not checked)
FitsMutant(reg, d) == TRUE

Fits(reg, d) ==
    CASE HalOf[d] = "input" -> Len(reg.inputs) < MaxInputs
      [] HalOf[d] = "storage" -> Len(reg.storage) < MaxStorage
      [] OTHER -> TRUE

\* hal_*_register: a full registry stays as it is (ESP_ERR_NO_MEM), a second
\* display or radio replaces the first.
WithDriver(reg, d) ==
    IF ~Fits(reg, d) THEN reg
    ELSE CASE HalOf[d] = "display" -> [reg EXCEPT !.display = d]
           [] HalOf[d] = "input" -> [reg EXCEPT !.inputs = Append(@, d)]
           [] HalOf[d] = "radio" -> [reg EXCEPT !.radio = d]
           [] HalOf[d] = "storage" -> [reg EXCEPT !.storage = Append(@, d)]

\* The order in which hal_registry_start_all calls init.
Optional(d) == IF d = NoDriver THEN <<>> ELSE <<d>>
StartOrder(reg) == Optional(reg.display) \o reg.inputs \o Optional(reg.radio) \o reg.storage

Registered(reg) == Range(StartOrder(reg))

-----------------------------------------------------------------------------
(* The board's configuration                                               *)

BoardConfigFails ==
    /\ step' = "fallback"
    /\ UNCHANGED <<build, todo, files, loaded, registry, started, key, refused, loading>>

\* board.json is there, or board_detect_and_write has written it.
ReadBoardJson ==
    /\ step = "config"
    /\ step' = "buses"
    /\ UNCHANGED <<build, todo, files, loaded, registry, started, key, refused, loading>>

\* board.json is neither there nor can it be written.
NoBoardJson ==
    /\ step = "config"
    /\ step' = "board"
    /\ UNCHANGED <<build, todo, files, loaded, registry, started, key, refused, loading>>

\* board_init: its buses are up, and it registers its drivers one by one.
BoardInit(next) ==
    /\ step' = next
    /\ todo' \in SetToSeqs(BoardDrivers)
    /\ UNCHANGED <<build, files, loaded, registry, started, key, refused, loading>>

InitBoard == step = "board" /\ BoardInit("register")

\* What the registration returns is ignored.
RegisterBoard ==
    /\ step \in {"register", "fallback register"} /\ todo # <<>>
    /\ registry' = WithDriver(registry, Head(todo))
    /\ todo' = Tail(todo)
    /\ UNCHANGED <<build, step, files, loaded, started, key, refused, loading>>

\* board_init returns, and driver_manager_start_all is called.
BoardDone ==
    /\ step \in {"register", "fallback register"} /\ todo = <<>>
    /\ step' = IF step = "register" THEN "start" ELSE "fallback start"
    /\ todo' = StartOrder(registry)
    /\ UNCHANGED <<build, files, loaded, registry, started, key, refused, loading>>

\* board.json is too large, a bus does not come up, or board_init fails.
ConfigError == step \in {"config", "buses", "board"} /\ BoardConfigFails

InitBuses ==
    /\ step = "buses"
    /\ step' = "drivers"
    /\ todo' \in SetToSeqs(Listed)
    /\ loaded' = <<>>
    /\ UNCHANGED <<build, files, registry, started, key, refused, loading>>

-----------------------------------------------------------------------------
(* Loading a driver                                                        *)

InLoader == step \in {"drivers", "scan"} /\ todo # <<>>

\* (mutant: a driver that cannot be loaded is tried again)
ReturnsMutant ==
    /\ todo' = IF load = "registered" THEN Tail(todo) ELSE todo
    /\ load' = "idle"
    /\ image' = "none"
    /\ locked' = FALSE
    /\ config' = NoDriver

\* The loader returns, with whatever result: its caller goes on.
Returns ==
    /\ todo' = Tail(todo)
    /\ load' = "idle"
    /\ image' = "none"
    /\ locked' = FALSE
    /\ config' = NoDriver

\* board.json lists a driver whose image is nowhere.
UseBuiltin ==
    /\ step = "drivers" /\ todo # <<>> /\ load = "idle"
    /\ files[Head(todo)] = "none"
    /\ registry' = IF Head(todo) \in Builtin THEN WithDriver(registry, Head(todo)) ELSE registry
    /\ todo' = Tail(todo)
    /\ UNCHANGED <<build, step, files, loaded, started, key, refused, loading>>

\* No slot is free, or the file has gone since it was found.
LoadImpossible ==
    /\ InLoader /\ load = "idle"
    /\ Len(loaded) >= MaxLoaded \/ (step = "scan" /\ files[Head(todo)] = "none")
    /\ step = "drivers" => files[Head(todo)] # "none"
    /\ Returns
    /\ UNCHANGED <<build, step, files, loaded, registry, started, key, given, refused>>

\* (mutant: the configuration is set when the previous driver has been loaded)
ReadDriverMutant ==
    /\ InLoader /\ load = "idle"
    /\ files[Head(todo)] # "none"
    /\ Len(loaded) < MaxLoaded
    /\ config' = IF step = "drivers" /\ Len(loaded) > 0 THEN loaded[Len(loaded)] ELSE config
    /\ load' = IF build = "sim" THEN "init" ELSE "read"
    /\ image' = Bytes(files[Head(todo)])
    /\ UNCHANGED <<build, step, todo, files, locked, loaded, registry, started, key, given,
                   refused>>

\* driver_loader_load_with_config sets the configuration, a scan leaves it
\* empty; then the device reads the image, and the simulator runs the library.
ReadDriver ==
    /\ InLoader /\ load = "idle"
    /\ files[Head(todo)] # "none"
    /\ Len(loaded) < MaxLoaded
    /\ config' = IF step = "drivers" THEN Head(todo) ELSE config
    /\ load' = IF build = "sim" THEN "init" ELSE "read"
    /\ image' = Bytes(files[Head(todo)])
    /\ UNCHANGED <<build, step, todo, files, locked, loaded, registry, started, key, given,
                   refused>>

SignatureValid(file) == key /\ image = "vendor" /\ file \in {"genuine", "tampered"}
SignatureAbsent(file) == file \in {"unsigned", "none"}

\* (mutant: a verifier that is not initialised is no reason to refuse)
SignatureAllowsLoadMutant(file) ==
    SignatureValid(file) \/ ~key \/ (build = "debug" /\ SignatureAbsent(file))

\* driver_signature_allows_load
SignatureAllowsLoad(file) ==
    SignatureValid(file) \/ (build = "debug" /\ SignatureAbsent(file))

\* The image is relocated and entered while the loader holds STATE.
RunDriver ==
    /\ InLoader /\ load = "read"
    /\ SignatureAllowsLoad(files[Head(todo)])
    /\ load' = "init"
    /\ locked' = TRUE
    /\ UNCHANGED <<build, step, todo, files, image, config, loaded, registry, started, key,
                   given, refused>>

RefuseDriver ==
    /\ InLoader /\ load = "read"
    /\ ~SignatureAllowsLoad(files[Head(todo)])
    /\ refused' = IF image = "vendor" /\ ~SignatureAbsent(files[Head(todo)])
                  THEN refused \cup {Head(todo)} ELSE refused
    /\ Returns
    /\ UNCHANGED <<build, step, files, loaded, registry, started, key, given>>

\* An unsuitable manifest, no PSRAM, or a relocation that fails.
RelocateFails ==
    /\ InLoader /\ load = "read"
    /\ Returns
    /\ UNCHANGED <<build, step, files, loaded, registry, started, key, given, refused>>

\* driver_init asks for its configuration: thistle_driver_get_config locks STATE.
AskConfig ==
    /\ InLoader /\ load = "init"
    /\ load' = "asking"
    /\ UNCHANGED <<build, step, todo, files, image, locked, config, loaded, registry,
                   started, key, given, refused>>

GetConfig ==
    /\ InLoader /\ load = "asking"
    /\ ~locked
    /\ given' = [given EXCEPT ![Head(todo)] = config]
    /\ load' = "configured"
    /\ UNCHANGED <<build, step, todo, files, image, locked, config, loaded, registry,
                   started, key, refused>>

\* driver_init registers its driver.
RegisterDriver ==
    /\ InLoader /\ load \in {"init", "configured"}
    /\ Fits(registry, Head(todo))
    /\ registry' = WithDriver(registry, Head(todo))
    /\ load' = "registered"
    /\ UNCHANGED <<build, step, todo, files, image, locked, config, loaded, started, key,
                   given, refused>>

\* (mutant: the slot is not counted)
DriverInitSucceedsMutant ==
    /\ InLoader /\ load = "registered"
    /\ Returns
    /\ UNCHANGED <<build, step, files, loaded, registry, started, key, given, refused>>

DriverInitSucceeds ==
    /\ InLoader /\ load = "registered"
    /\ loaded' = Append(loaded, Head(todo))
    /\ Returns
    /\ UNCHANGED <<build, step, files, registry, started, key, given, refused>>

\* driver_init fails, among others because the registry is full; the device
\* then frees the image.  Drivers register last, as the standalone ones do.
DriverInitFails ==
    /\ InLoader /\ load \in {"init", "configured"}
    /\ Returns
    /\ UNCHANGED <<build, step, files, loaded, registry, started, key, given, refused>>

\* All listed drivers are dealt with: driver_manager_start_all.
DriversDone ==
    /\ step = "drivers" /\ todo = <<>>
    /\ step' = "start"
    /\ todo' = StartOrder(registry)
    /\ UNCHANGED <<build, files, loaded, registry, started, key, refused, loading>>

-----------------------------------------------------------------------------
(* Starting, falling back, and the rest of kernel_init                     *)

StartDriver ==
    /\ step \in {"start", "fallback start"} /\ todo # <<>>
    /\ started' = Append(started, Head(todo))
    /\ todo' = Tail(todo)
    /\ UNCHANGED <<build, step, files, loaded, registry, key, refused, loading>>

\* (mutant: the failure is taken for a failure of the configuration)
StartFailsMutant ==
    /\ step \in {"start", "fallback start"} /\ todo # <<>>
    /\ HalOf[Head(todo)] \in {"display", "input"}
    /\ started' = Append(started, Head(todo))
    /\ todo' = <<>>
    /\ step' = IF step = "start" THEN "fallback" ELSE step
    /\ UNCHANGED <<build, files, loaded, registry, key, refused, loading>>

\* A display or input driver whose init fails ends hal_registry_start_all; the
\* callers ignore the result.
StartFails ==
    /\ step \in {"start", "fallback start"} /\ todo # <<>>
    /\ HalOf[Head(todo)] \in {"display", "input"}
    /\ started' = Append(started, Head(todo))
    /\ todo' = <<>>
    /\ UNCHANGED <<build, step, files, loaded, registry, key, refused, loading>>

ConfigDone ==
    /\ step = "start" /\ todo = <<>>
    /\ step' = "services"
    /\ UNCHANGED <<build, todo, files, loaded, registry, started, key, refused, loading>>

\* driver_manager_init calls board_init, and its failure is ignored as well.
Fallback ==
    /\ step = "fallback"
    /\ \/ BoardInit("fallback register")
       \/ /\ step' = "fallback start"
          /\ todo' = StartOrder(registry)
          /\ UNCHANGED <<build, files, loaded, registry, started, key, refused, loading>>

\* driver_loader_scan_and_load takes the images in the order of the directory,
\* which it may be unable to read.
ScanDrivers ==
    /\ step = "fallback start" /\ todo = <<>>
    /\ step' = "scan"
    /\ loaded' = <<>>
    /\ \/ todo' = <<>>
       \/ todo' \in SetToSeqs({d \in Drivers : files[d] # "none"})
    /\ UNCHANGED <<build, files, registry, started, key, refused, loading>>

ScanDone ==
    /\ step = "scan" /\ todo = <<>>
    /\ step' = "services"
    /\ UNCHANGED <<build, todo, files, loaded, registry, started, key, refused, loading>>

\* The app manager, the permissions, and signing_init.
StartServices ==
    /\ step = "services"
    /\ step' = "done"
    /\ key' = TRUE
    /\ UNCHANGED <<build, todo, files, loaded, registry, started, refused, loading>>

\* Someone writes to the storage.
ReplaceFile(d, file) ==
    /\ step # "done"
    /\ files' = [files EXCEPT ![d] = file]
    /\ UNCHANGED <<build, step, todo, loaded, registry, started, key, refused, loading>>

Loader ==
    \/ UseBuiltin \/ LoadImpossible \/ ReadDriver \/ RunDriver \/ RefuseDriver \/ RelocateFails
    \/ AskConfig \/ GetConfig \/ RegisterDriver \/ DriverInitSucceeds \/ DriverInitFails

Boot ==
    \/ ReadBoardJson \/ NoBoardJson \/ InitBoard \/ RegisterBoard \/ BoardDone \/ ConfigError
    \/ InitBuses \/ DriversDone \/ StartDriver \/ StartFails \/ ConfigDone \/ Fallback \/ ScanDrivers \/ ScanDone
    \/ StartServices

Next == Boot \/ Loader \/ \E d \in Drivers, file \in Files : ReplaceFile(d, file)

\* The boot thread runs; nobody has to write to the storage.
Spec == Init /\ [][Next]_vars /\ WF_vars(Boot \/ Loader)

-----------------------------------------------------------------------------
(* Properties                                                              *)

\* Bytes that lie beside a signature which is not theirs never run on the
\* device, whenever the file or the signature is exchanged and whether or not
\* the verifier is ready (driver_signature_allows_load: "malformed signatures
\* and all verifier failures remain fatal").
TamperedNeverRuns ==
    [][load = "read" /\ load' = "init" =>
          image = "vendor" \/ SignatureAbsent(files[Head(todo)])]_vars

\* No driver is started twice, on whichever path it was registered: from its
\* image, from the kernel, or by board_init (hal_registry_start_all).
EachStartedOnce == IsInjective(started)

\* What the registry points at is there: in the kernel, in a slot of the loader,
\* or being loaded (hal_registry.rs: "keeping every function pointer in an
\* issued generation executable").  The simulator never unloads a library.
RegistryIsExecutable ==
    \A d \in Registered(registry) :
        \/ build = "sim" \/ d \in Builtin \cup Range(loaded)
        \/ load = "registered" /\ d = Head(todo)

\* A driver that asks for its configuration gets its own from board.json, or none,
\* never that of the driver before it (driver_loader_load_with_config).
ConfigIsOwn == \A d \in Drivers : given[d] \in {d, NoDriver}

\* Whatever fails half way and is started over, each driver is started once, from
\* code that is there and with its own configuration (kernel_init).
DriversAreSound == EachStartedOnce /\ RegistryIsExecutable /\ ConfigIsOwn

\* The boot ends, whatever fails, unless a driver on the device asks for its
\* configuration (kernel_init).
BootEndsUnlessConfigIsAsked == <>(step = "done" \/ (load = "asking" /\ locked))

\* No image is refused that carries its vendor's signature
\* (driver_signature_allows_load: "Production accepts only a verified signature").
SignedDriversLoad == refused = {}
=============================================================================
