# ThistleOS: specifications and proofs

ThistleOS is an operating system for ESP32 hand-helds: a Recovery OS in partition
`ota_0`, a kernel in Rust in `ota_1` (`components/kernel_rs`), drivers and apps
that are loaded as ELF images from storage, and apps that are compiled in. This
directory holds TLA+ modules of the parts of it whose correctness depends on the
order of things: power losses, files that change, callbacks, threads, interrupts,
retries, messages that are lost. TLC checks them on small instances, TLAPS proves the
most important results for all values of the constants.

All paths below are relative to the repository; a file named without a directory is
one of `components/kernel_rs/src`.

## 1. Inventory

### 1.1 Modelled

| Component | Code | State | Operations | Modules |
|---|---|---|---|---|
| Bundle transaction and boot decision | `recovery/src/bundle_transaction.rs`, `anti_rollback.rs`, `main.rs`; `ota.rs`, `main/main.c` | active, staged and backup files, journal and markers on the SD card; the image in `ota_1`, otadata, the security-version floor in NVS | install, rollback, finalize, recover on boot, choose a partition, confirm | `BundleInstall`, `AtomicGeneration` |
| Recovery portal and downloads | `recovery/src/recovery_web.rs`, `recovery_auth.rs`, `recovery_ota.rs`, `artifact_manifest.rs`, `bounded_io.rs`, `catalog_path.rs` | session, nonces, board, the job and its status, staged files | pages, Wi-Fi, catalogue, selection, plan, download | `RecoveryPortal` |
| App manager | `app_manager.rs` | table of twenty slots, foreground handle, list of manifests | register, launch, switch, suspend, kill, evict | `AppManager` |
| ELF apps, permissions, system calls | `elf_loader.rs`, `permissions.rs`, `manifest.rs`, `syscall_table.rs` | loaded images, their tasks, grants, streams | load, bind, grant, start, stop, unload, fopen and fclose | `ElfApps` on `AppManager` |
| Driver loading and boot | `kernel_boot.rs`, `board_config.rs`, `driver_loader.rs`, `signing.rs`, `driver_manager.rs` | loaded images, the loader's mutex and current configuration, the verifier's key | read `board.json`, initialise buses, load or take a compiled-in driver, start all, fall back, scan | `DriverBoot` |
| HAL registry | `hal_registry.rs` | an ever growing list of generations and a pointer to the current one | register a driver, take a snapshot, read | `HalRegistry`, `AtomicRegistry` |
| Device drivers | `drv_*.rs`, `drv_epaper_gdeq031t10.c`, the render loop of `tk_wm.rs` and `main/main.c` | resources of each driver, flags of interrupts, queues of chips, framebuffers | init, deinit, poll, flush, refresh, sleep, brightness, sensors, sound | `DeviceStart`, `Devices`, `Sensors`, `Panels` |
| Message queue and messenger | `msg_queue.rs`; `components/apps_builtin/messenger` | messages with status, attempts and times; `msg_queue.json` | enqueue, cancel, tick, get ready, mark, save, purge; send, tick, life cycle | `Messenger` |
| App packages and replaced files | `tap_installer.rs`, `appstore_client.rs` | staging directories, generations, `active.json`, payloads with signatures and backups | install, undo, activate | `PackageInstall` |
| App store | `appstore_client.rs`, `tk_appstore.rs` | catalogue buffer, entries, screens | fetch, parse, filter, download, browse, install | `StoreClient` |
| Event bus, IPC | `event.rs`, `ipc.rs` | subscribers; a bounded queue, handlers, sleeping receivers | subscribe, publish, unsubscribe; send, receive, register | `EventBus`, `Ipc` |
| Radios | `wifi_manager.rs`, `net_manager.rs`, `ble_manager.rs`, `ble_scanner.rs` | what the managers believe, the drivers' events, transports, scanned devices | connect, scan, advertise, choose a transport | `Network`, `Bluetooth` |
| Mesh chat | `mesh_manager.rs`, `tk_meshchat.rs`, `components/meshcore/src/meshcore_shim.cpp` | inbox ring, the mesh and its callback, peers, the chat on the screen | start, stop, receive, open, refresh, send | `MeshChat` |
| Contacts and channels | `contact_manager.rs`, `msg_crypto.rs` | address book and its file, channels with passphrase and salt | add, remove, save, load, establish, encrypt, decrypt | `Contacts` |
| Window manager and its apps | `tk_wm.rs`, `tk_launcher.rs`, `tk_flashlight.rs`, `display_server.rs`, `widget_shims.c` | widgets, focus, the press to be dispatched, surfaces | widget calls, input, launch, tick | `Toolkit`, `Launcher`, `Emergency`, `DisplayServer` |
| Toolkit crate | `crates/thistle-tk/src` | widget tree, layout, scroll offsets, text cursor | layout, render, input | `Widgets`, `Toolkit` |
| Settings | `components/apps_builtin/settings`; `wifi_manager.rs`, `ota.rs` | screens, timers, labels, dialogs; `system.json`; the OTA slots | navigate, toggle, connect, save, update from the card | `Settings` |
| Storage of apps | `syscall_table.rs` | files, their temporary and backup names | replace a file | `AppStorage` |
| Burn timer | `burn_timer.rs` | table of timers, queue of notices | set, tick, drain, cancel | `BurnTimer` |
| Libraries without a caller | `notification.rs`, `data_logger.rs`, `gps_track.rs`, `sos_beacon.rs`, `secure_wipe.rs`, `driver_reload.rs` | list, table, beacon, targets, running drivers | post, log, arm, wipe, reload | `Notifications`, `Emergency`, `DriverReload` |

How they meet: Recovery hands the device to the kernel through otadata and the
journal; the kernel confirms the image and removes the journal. `kernel_init` has
`board_config` load drivers, which register themselves in the HAL registry and are
then started from it; the render task polls the input drivers and flushes the widget
tree to the display driver. The app manager calls the life-cycle functions of apps;
those of ELF apps start a task and unload an image. The messenger's timer drives the
message queue. Nearly everything in the kernel is a static guarded by a mutex of its
own; callbacks (`driver_init`, `on_create`, event handlers, press handlers) run with
that mutex held, unless the code takes pains to avoid it.

What is hard in each, and what makes it correct:

* **Bundle transaction.** A power loss or an SD error may fall between any two of
  the renames, writes and removals; `remove_dir_all` is not one operation; the
  rollback may fail as well; the kernel may be aborted by the bootloader. Correct
  is: the device uses the old files with the old firmware or the new ones with the
  new, a confirmed bundle stays, no older firmware is selected again, and an open
  journal is resolved.
* **Recovery portal.** Pages are served by one thread and the work is done by
  another; requests are lost and reordered, the user changes the board meanwhile, a
  catalogue is cut short or unsigned. Correct is: what is installed is one whole,
  fresh, signed bundle for the board that was asked for, or for the one the page
  switched to, and the status is that of a job there is.
* **App manager and ELF apps.** Calls come in any sequence; launch moves up to three
  apps at once and uses an index after something else may have emptied it; an app's
  task is deleted wherever it is. Correct is: one app runs, the foreground handle
  names it, callbacks come in a legal order, an eviction takes the app not used for
  the longest time, no app is linked against more than it is trusted with, and nothing
  of an app outlives its image.
* **Driver boot.** Files may be exchanged between check and use, a driver may fail
  at each step after it has registered pointers, configuration may fail half-way
  and be followed by a fallback, and foreign code runs under a mutex. Correct is:
  bytes that do not belong to their signature never run, a driver starts once, the
  registry points at code that is there, and the boot ends.
* **HAL registry.** Readers take no lock. Correct is: registrations are atomic and
  none is lost, a generation does not change once it was published, and a reader
  never pairs a driver with the configuration of another.
* **Device drivers.** Any step of an init may fail after resources were taken;
  interrupts come between the steps of a poll; a refresh fails late; two tasks use a
  structure without a lock. Correct is: nothing leaks, a lifted finger and every key
  are reported, the panel shows the last picture.
* **Message queue and messenger.** A message is queued and sent at once as well, so
  the queue must learn of the success; the tick works on copies; the file is
  rewritten when the messenger leaves the screen, and a crash may leave it
  truncated. Correct is: no transport takes a message twice between two restarts,
  nothing is tried too often or after it was over, and every message is settled.
* **Packages and files.** Two renames are not one; FatFs does not rename over a file.
  Correct is: payload and signature stay a pair, a failed install restores, the active
  release only advances.
* **Events, IPC, radios, mesh.** Callbacks of other tasks change the state a call is
  waiting on; queues overflow; handlers call back. Correct is: everybody is told once
  and in order, and at rest the manager believes what the chip does.
* **User interface.** The widget that was pressed may be gone when its function is
  called; an index outlives the list it points into; a press handler may not launch an
  app under the window manager's lock. Correct is: a press does what its button said,
  the focus is on something that is shown, and what is installed is what was shown.

### 1.2 Not modelled

| Component | Code | Why not |
|---|---|---|
| LVGL user interface | `components/ui` | drawing through LVGL; its app switcher makes calls of the app manager |
| Other built-in apps | `components/apps_builtin` without messenger and settings | show what modelled services return |
| Drivers in C | `components/drv_*` but gdeq031t10, `components/board_*` | sx1262 and a7682e are register protocols; the others are superseded by Rust drivers of the same names. Of the e-paper panel gdeq031t10 it is the C driver that runs and that is modelled: `board_builtin_drivers.c:155` registers it, and the getter of the Rust one is renamed (`drv_epaper_gdeq031t10.rs:1199-1207`) |
| Ciphers and parsers | `crypto.rs`, JSON and ZIP parsing, number formats, fonts and glyphs, the markup compiler | data conversions; the models choose their outcome |
| `thistle_shell.rs`, `ota_apply_from_http`, `ota_rollback`, user-data erasing | | no caller, or a stub |
| C shims and HAL headers, the Arduino shim, the MeshCore app, vendored ELF loader | | forwarding, or third-party |
| Simulator, SDKs, tools, tests, WebAssembly | | not the running system; the simulator's driver loader and file system are builds of `DriverBoot` and `PackageInstall` |

`PROJECT.json` lists every component with its files, the lines each definition
translates, and the hazards of the code with the properties that cover them.

## 2. The modules

A component of the core has a module for the code, one for what it promises to the
others where that can be said by an abstract specification, an `MC` module when TLC
needs constants that a `.cfg` cannot hold, and a module of proofs. The services beside
the core have a module each and one `MC` module together (2.9).

### 2.1 BundleInstall, AtomicGeneration

*State.* A file of the card is represented by the version of the bundle that wrote
it, 0 when it is absent: `dest`, `staged`, `backup`. `journal` and `marks` are the
files of `.thistle-bundle-transaction`; `slot`, `imageOk`, `otaState` and `selected`
are `ota_1` and otadata; `floor` is the value in NVS. `pc`, `idx`, `cand`, `kind` and
`ctx` say where the program is.

*Actions.* Each is one file-system or flash operation, in the order in which the
code has them: `StageFile`, `WriteJournal`, `BackupFile` and `ActivateFile` (the two
renames of `install`), `MarkFilesActive`, `BeginFirmware`/`EndFirmware`,
`MarkFirmwareWritten`, `StoreFloor`, `SelectOta1`; `RemoveDestination`,
`RestoreEntry`, `RemoveTransaction` for `rollback`; `RemoveEntry` for one entry that
`remove_dir_all` deletes, in any order. `Crash` may come after each of them,
`OperationFails`, `PrepareFails`, `CleanupFails`, `MarkValidFails` and
`RecoverInterruptedBundleFails` are the error paths. `RecoverInterruptedBundle`,
`CheckOta1`, `ApplySdFirmware` and `StartPortal` are the boot of Recovery,
`KernelInit` and `MarkValid` that of the kernel. The bootloader
(`BootFromOtadata`) is external: it boots `ota_1` when it is selected and sound, and
an image that was pending when the device restarted is aborted.

*Environment.* `ImageFaults` lets a confirmed image go bad in flash, `NvsErases`
lets the kernel find NVS full or of a newer format, which erases it
(`kernel_boot.rs:90`).

*Abstract.* `AtomicGeneration` has the files that may be relied on and the confirmed
firmware, and changes them in one step. The refinement mapping reads the files as
those before the transaction for as long as there is a journal and the image is not
confirmed.

### 2.2 AppManager

`slots`, `slotCount`, `foreground`, `nextHandle` are the table, `manifests` the
second static. A call holds the mutex from beginning to end, callbacks included, so
it is one action (`Launch`, `Suspend`, `Kill`, `EvictLru`); `register` is two, since
it adds the manifest under another mutex (`Register`, `ListManifest`). `switch_to`
is `launch` by handle and adds no behaviour. `LowHeap` and `CreateFails` say whether the
eviction inside `launch` and the error path of `on_create` may be taken; every run takes
them. `live` records which callbacks an app has received, and `InOrder` which orders are
legal.

Two histories name what the code gets wrong (3.1). `misled` has the apps that gave way to
a launch that failed, and were called Running again although they had been paused or
destroyed. `stray` is the foreground handle whose slot the launch of that very app has
emptied. `ForegroundIsAlive` and `CallbackProtocol` hold of all others, in every sequence
of calls.

Not represented: the events that are published (the bus has its own mutex and the
handlers of the firmware show toasts), and an app that calls the manager from a
callback, which would wait for itself.

### 2.3 DriverBoot

One thread with `step` (where `kernel_init` is), `todo` (the drivers that step has
still to go through) and `load` (how far the loader is with the first of them). The
storage changes at any time (`ReplaceFile`): image and signature are one value, so
that the model may exchange them between the reading of the image (`ReadDriver`) and
the check of the signature and the run (`RunDriver`). Three builds are checked:
`release`, `debug` (accepts unsigned images) and `sim` (`dlopen`, no check).
`AskConfig` is a driver that calls back into the loader from `driver_init`, and
`GetConfig` the answer, which needs the mutex (`locked`): on the device the loader
holds it, the simulator's loader does not. A board without a `board.json` registers its
compiled-in drivers one by one (`BoardInit`, `RegisterBoard`, `BoardDone`), in the boot
proper and in the fallback; a driver it has no place for is dropped, as the board's
`board_init` ignores what the registration returns. `Displays`, `InputDrivers` and
`Radios` tell what a driver registers as (`HalOf`). `given` and `refused` are histories.

### 2.4 HalRegistry, AtomicRegistry

`heap` is the sequence of generations that were ever allocated, `current` the published
one. A registration is `Call`, `Lock`, `Clone`, `WriteDriver`, `WriteConfig`, `WriteCount`
(or `Refused`), `Publish`, `Unlock`: every write to the clone is a step. A refused call
publishes its unchanged clone, as `RegistryWriteGuard::drop` does. Readers load the
pointer once and read fields one at a time. Kinds with one place (display, radio, ...)
overwrite, kinds with a list (input, storage) append: `Singles` names the former,
`Capacity` has the places of each. A request is a driver with the kind it is registered
as. `AtomicRegistry` has one step per call. Memory is taken to be sequentially consistent:
the code publishes with release and loads with acquire, and everything a reader reads of a
generation was written before it was published.

### 2.5 Messenger

The exported functions of `msg_queue.rs` are operators on the queue, the actions are the
program that calls them: `SendMessage` queues, `DirectSend` or `DirectSendFails`
tries at once, `KernelTick`, `GetReady` and `Dispatch...` are the tick, `Hide`,
`Destroy` and `Saved` the life cycle, `Crash` the restart. `SaveBegins` truncates the
file, `SaveEnds` completes it. `OtherCall` is the rest of the exported interface
(cancel, set defaults, purge). A transport takes a message, refuses it or is not
available; nothing else of the transports is in the model. `get_ready` may return any
batch of active messages in the order of the queue (`Ready`, `InOrder`): the time of the
next attempt is left out, since its only caller asks with the end of time and nothing is
ever delayed (3.1). The life-cycle callbacks
and the timer both run on the UI task, so they do not interleave.

### 2.6 DeviceStart, Devices

`DeviceStart` has every driver as data: an init function is the sequence of its
fallible steps, with what a step takes (device on a bus, panel, ISR, task, channel)
and what its error path gives back. `StartAll`, `InitStep`, `InitFails`,
`InitReturns`, `StopAll`, `Deinit` are `hal_registry.rs` going through the drivers of
one of eight boards; `held` is what is taken.

`Devices` adds the interrupt handlers and the polls: how each driver decides to read its
chip and when it clears its flag (`PollOf`), the steps of a touch poll (`TouchPoll`,
`TouchReads`, `TouchReports`), and the key queue of the tca8418 with its own
(`Tca8418Poll`, `...Drains`, `...Clears`); an interrupt may come between any two.

And it adds a picture's way from the widget tree to the e-paper panel: `Draw`, `Render`
(draws and flushes), and the request that `tk_wm_do_refresh` takes back before it asks the
driver (`Asked`). The driver is the one in C, `drv_epaper_gdeq031t10.c`. It sends nothing
when the framebuffer is what it sent before (`RefreshSkips`), sends only the differences
when the mode is fast, and otherwise everything (`Refresh`); an error of any command before
the one that refreshes ends the call with the panel and `fb_old` as they were
(`RefreshFails`). No command is answered, so that a panel in its deep sleep (`deaf`) takes
a refresh silently. `missed` remembers that a refresh failed. The driver's init forgets
everything (`GdeqStarts`) and may or may not wake the panel, whose reset need not be wired.

`Next` composes the three. The chip's edge while a finger stays on is repeated,
which the data sheets say and the code relies on.

### 2.7 PackageInstall

The install button of the store does one of two things to the card: it replaces a
driver, a window manager or a firmware image together with its signature
(`BackUp`, `CommitSignature`, `CommitPayload`, `RemoveBackups`, and the undo
`RemoveSignature`, `Restore`), or it unpacks an app into a staging directory, renames
that to `generations/<release>` and points `active.json` at it (`MakeStage`, `Extract`,
`Recheck`, `Publish`, `Point`, `Discard`). One action is one operation on the card;
`ReplaceFails`, `UnpackFails` and `Crash` may fall between any two. The file
system is FatFs, where a rename does not replace, or POSIX. A file is the release
that wrote it.

### 2.8 ElfApps

Extends `AppManager`: its calls run callbacks with the manager's mutex held, so each
call and what it does to images is one action (`LaunchElf`, `LaunchElfFails`,
`EndElf`, `SuspendElf`), but for the end of `elf_app_start`: the task is created, and may
run and even return, before `running` is set (`starting`, `StartReturns`,
`elf_loader.rs:624-643`). `images` are the loader's slots, `grants` and `held` the
sixteen slots of `permissions.rs`, `files` the table of open files. At boot
`SkipFile`, `LoadFails`, `LoadApp`, `RegisterApp` go through the files that were found.
Tasks run between calls: `OpenFile`/`RegisterStream` and `TakeStream`/`CloseStream`
are the two halves of `fopen` and `fclose`, `TaskEnds` the return of `app_main`; a task is
deleted wherever it is.

The 110 names of `SYSCALL_TABLE` (`syscall_table.rs:1594-2081`) are told apart only as far
as a permission or a visibility does, so that an image imports families of them:

| Family | Symbols | Guard (`PermissionOf`) |
|---|---|---|
| `storage` | files | permission storage |
| `gps` | position | permission gps |
| `radio`, `mesh` | radio, mesh | permission radio |
| `ipc` | messages | permission ipc; the only ones for an unsigned app |
| `plain` | widgets, log, memory, events, battery, ciphers | none |
| `hal`, `rtos` | registry of the hardware, scheduler | for drivers, never for an app |

### 2.9 The services: MCServices

What is beside the core has no state in common with it or with each other: each
file has a static, or a mutex, of its own. `MCServices` has an instance of each module
and a variable `service` that names the one whose calls a behaviour makes; the others
stay as they were at the start (`Alone`). The run is therefore the union of the
runs of 38 small specifications, and its properties are those of the service at hand.
The constants of the instances are in the `WITH` clauses of `MCServices`.

| Module | Services | State and actions |
|---|---|---|
| `RecoveryPortal` | portal | requests in flight (`Handle`, `LoseRequest`), `session`, `job`, `staged`, `installed`; the main loop of `main.rs` connects and installs |
| `Network` | network | `radio` (the chip) and `events` (its queue) against `state` (the manager), `caller` (a waiting connect), `transports` |
| `Bluetooth` | bluetooth, scanner | `conns`, `onAir` (the host, which advertises or not whatever is connected) against `state`, `handle` (the manager, which knows of one connection); the toggle of the settings in three steps; the scanner's slots |
| `Contacts` | contacts | book and `file`; `channels` with passphrase and salt; `air`, the messages under way |
| `MeshChat` | mesh | the inbox ring; a start (`Claim`, `Register`, `StartCore`, or `NoRadio` and `UndoClaim`) and a stop (`Release`, `DeleteCore`, `Sweep`) of an app or the chat, which give the mutex up between their steps; the chat's look at the inbox (`CountInbox`, `GetMessage`, `ClearRead`), into which deliveries fall; the shim, which hears only if it had a mesh when the callback came (`core`) |
| `EventBus` | events | `subscribers` by slot; the bus's mutex `holder`, `event` being handed round; a handler that calls the bus |
| `Ipc` | ipc | `queue`, receivers `asleep` and `woken`, each end of a condition variable a step |
| `Toolkit` | toolkit | `nodes` with children and free list, `focus`, `pending` (a press noted under the lock and called after it) |
| `Widgets` | layout, scrolling, controls, field, label, strip | boxes, offsets, the slider under a finger, cursor against text |
| `Launcher` | launcher | which tree is in front, view, focus, the noted action |
| `DisplayServer` | display | managers, surfaces by id and by place |
| `StoreClient` | store, shop | chunks, buffer, parse, filter; a download with its checks; the screens: widgets and the indexes they carry, entries, an install on the render task |
| `AppStorage` | files | the names of one stem, and the renames of a replacement |
| `Settings` | settings, credentials, update | screens, timers and labels; dialogs and `system.json`; the OTA slots |
| `BurnTimer` | burning | timers, ring of notices, the messenger's messages by place |
| `Notifications` | notifications | a full list and what leaves it |
| `Emergency` | beacon, wipe, torch, logs, track | beacon with its sequence; targets, their marks and passes of a wipe; columns, rows, a pending row; mode and light of the flashlight and the clock of its ticks |
| `DriverReload` | reload | a table of its own of running drivers |
| `Sensors` | gps, clock, battery, motion, light | the GPS task writes a fix field by field and `get_position` copies it field by field, each between any two steps of the other (`CopyLat`, `CopyLon`, `CopyRest`); registers of clock and motion sensor |
| `Panels` | panel, sound | what a chip shows against what the driver believes, with refused commands |

Some properties except a case the code gets wrong; the exception is a variable that
remembers that the case has occurred (`late`, `lateColumn`, `dropped`, `missed`, `kept`,
`shared`, `calm`, `raced`, `strayed`, `spoiled`, `switched`, `misled`, `stray`, ...), is
declared with a comment, and stands for an entry of 3.1. What such a property shows is
that nothing else goes wrong; it does not catch the case itself.

## 3. What is checked

| Run | Module | States | Properties | Shows |
|---|---|---|---|---|
| `bundle_atomic` | `BundleInstall` | 728,862 | `GenerationIsWhole`, `KernelRunsOnWholeBundle`, `ConfirmedBundleStays`, `NeverReselectsOldImage`, `ImplementsAtomicGeneration` | a bundle is installed as one atomic step whatever fails, as long as flash keeps what it stored and NVS is not erased |
| `bundle_faults` | `BundleInstall` | 325,817 | `JournalIsResolved` | with faults of the flash as well, a journal is resolved once faults stop |
| `elf_apps` | `MCElfApps` | 700,586 | `ForegroundIsAlive`, `CallbackProtocol`, `ElfTypeOK`, `OneForeground`, `BoundWithinTrust`, `NothingIsLeftBehind`, `EvictsLeastRecentlyUsed` | any sequence of calls, with a low heap and with an `on_create` that fails, keeps the foreground alive and the callbacks in order, but for the cases named in 2.2; images, permissions, tasks and files follow the apps |
| `driver_boot` | `DriverBoot` | 293,888 | `TypeOK`, `DriversAreSound`, `TamperedNeverRuns`, `BootEndsUnlessConfigIsAsked` | every path through the boot, in three builds, with files that change |
| `devices` | `Devices` | 138,828 | `TypeOK`, `NothingIsLeaked`, `OldPictureIsShown`, `InputIsReported`, `ScreenCatchesUp` | eight boards with failing steps, interrupts between the steps of a poll, failing refreshes |
| `messenger` | `Messenger` | 325,143 | `TypeOK`, `DeliveryIsBounded`, `OverIsOver`, `Settles` | sends, refusals, cancellations, torn files and restarts in any order |
| `registry` | `HalRegistry` | 137,924 | `ReadsAreCoherent`, `ImplementsAtomicRegistry` | two registering tasks and a reader |
| `packages` | `PackageInstall` | 6,306,346 | `TypeOK`, `ArtifactsAreSound`, `ActiveAdvances` | installs with three faults or power losses anywhere: pairs stay pairs, failed installs restore, the active release advances |
| `services` | `MCServices` | 1,717,631 | `ServicesTypeOK`, `RadiosAreBelieved`, `SecretsAreKept`, `MessagesArrive`, `ScreensAreSound`, `FilesAreWhole`, `RecordsAreWhole`, `EndsAreReached`, `LeastWantedGoes` | the 38 services of 2.9, each by itself |
| `driver_signed` | `DriverBoot` | | `SignedDriversLoad` | violated, see 3.1 |
| `package_upgrade` | `PackageInstall` | | `InstallActivates` | violated, see 3.1 |
| `services_gps` | `MCServices` | | `PositionIsOfOneSentence` | violated, see 3.1 |

For every property there is a plausible bug of the code, as a changed definition of
the model, that the run finds (`mutants` in `PROJECT.json`). Several properties are the
conjunction of smaller ones: `DriversAreSound` of a single start, an executable
registry and each driver's own configuration; `DeliveryIsBounded` of `SentOncePerBoot`,
`TriesAreBounded` and `SentMeansTaken`; `ArtifactsAreSound` of `PairMatches`,
`FailedInstallRestores` and `ArtifactSurvives`; `InputIsReported` of `ListenerAgrees`,
`LiftIsReported` and `KeysAreRead`; those of `services` of one or more per service, named
in `MCServices`. The types of `BundleInstall` and `HalRegistry`,
`FloorMonotone` and `PublishedIsImmutable` are proved (4) and not checked again.

### 3.1 Disagreements

Three runs show where the code does not do what it, or its documentation, says. Each
checks one property and ends with a counterexample.

* `driver_signed`: the drivers are loaded before `signing_init`; every signature
  is then answered by `ESP_ERR_INVALID_STATE`, which is fatal. In a release build a
  correctly signed driver on the storage is refused, and hides the compiled-in one.
* `package_upgrade`: on the device's card the second release of an app is never
  activated: `active.json` exists and FatFs does not rename over it
  (`tap_installer.rs:281`). A retry finds the generation and returns `Exists`.
* `services_gps`: `drv_gps_mia_m10q.rs:182-184` says that "last_position updates mirror C
  portENTER_CRITICAL semantics". The receive task writes the fields one by one (389-397) and
  `get_position` copies them from another task (714), neither with a lock: the copy has the
  latitude of one sentence and the longitude of another, and says that it is valid.

Met while modelling, and not made into runs. Where a property would be violated, it has
an exception that names the case.

*Recovery and updates*
* `finalize` interrupted in `remove_dir_all`, with the marker `firmware-written` gone and
  the journal still there, looks like an unfinished transaction. When the confirmed image
  later goes bad, Recovery rolls the bundle back from the backups that are left, and the
  card holds files of two generations (`GenerationIsWhole` with `ImageFaults`).
* `recovery/src/main.rs:76`: an error of `boot_ota1` ends `main`, where
  `docs/recovery.html:71` has Recovery offer to install a working image.
* `kernel_boot.rs:90`: NVS is erased when it is full, and the floor of
  `anti_rollback.rs` with it. The floor's properties are stated for `NvsErases = FALSE`.
* The update from the settings writes the slot that `esp_ota_get_next_update_partition`
  names. For a kernel in `ota_1` that is `ota_0`, Recovery, which `README.md:70` calls
  immutable. And `settings_ui.c:1215` says "Missing signature is OK for dev builds",
  while `ota_apply_from_sd` refuses a missing signature.
* The portal: a dry run does not look for a board's profile; one entry without a valid
  manifest fails the fetch for every board; boards of an unsigned catalogue are offered;
  a page loaded after a finished install counts down and reboots; a selection between
  the request and the main loop's poll switches the board (`switched`); a lost network
  is not noticed.

*Drivers and boot*
* A driver that calls `thistle_driver_get_config` from `driver_init`, as the SDK says it
  should, waits for the mutex that its loader holds.
* `driver_sdk/include/thistle_driver.h` and `docs/driver-development.html` promise symbols
  (`gpio_...`, `spi_...`, `i2c_...`, `xTaskCreate`, `esp_timer_get_time`) that
  `SYSCALL_TABLE` does not have; the loader returns -ENOSYS, so
  `standalone_drivers/kbd_tca8418` cannot be loaded.
* `drv_touch_ft3x68.rs`: the device is not given back when the interrupt cannot be set
  up (320), and the condition of the poll is inverted (372), so a lifted finger may not
  be reported. Both are exceptions of `NothingIsLeaked` and `LiftIsReported`.
* `drv_kbd_tca8418.rs:601`: a key between the drain and the clearing of the flag waits
  for the next one (`late`).
* `tk_wm.rs:471`: the request for a refresh is taken back before the refresh, whose failure
  nobody sees; the picture is not shown until something is drawn again (`missed`). The
  e-paper driver asks its panel nothing, so that one in its deep sleep takes refreshes
  silently and is believed to show them (`deaf`).
* qmi8658 and ltr553 can be initialised twice; xpt2046 takes the bus as its own; co5300 never
  frees its bus; `start_all`'s result is ignored and `stop_all` is called by tests only.
* GPS: disable and deinit delete the task in the middle of a write (`torn`), and a fix that was
  half written stays valid; a callback and its data may be of two registrations. Battery: a
  calibration that fails once is dropped for good (`taken.dropped`), a failed sample reads as
  0 mV with `ESP_OK`. Motion: a failure between two registers leaves two rates, and
  `hz_to_odr` (`drv_accel_qmi8658.rs:67`: "nearest supported ODR at or above hz") takes
  the greatest rate not above it.
* Panels: brightness set while an LCD sleeps lights a dark screen; st7789 ignores refused
  sleep commands; co5300 remembers a refused brightness; a sleeping e-paper panel takes
  refreshes silently and the driver believes them (`synced`); without a reset pin it
  never wakes. Sound: a refused disable leaves the channel enabled, and play then fails
  until deinit.

*Apps*
* `app_manager.rs:482`: with a low heap `launch` may evict the very app it is about to
  start, and goes on with an empty slot. `app_manager.rs:507`, "Restore previous
  foreground.": after a failed `on_create` the previous app is set to Running, although
  it was destroyed, or for an ELF app unloaded, and is paused or destroyed once more later.
  These are the exceptions `stray` and `misled` of `ForegroundIsAlive` and
  `CallbackProtocol`.
* `elf_loader.rs:643`: `running` is set after the task was created. An app whose task has
  returned by then is taken for running for ever: it is not started again, and its unload
  deletes a task that is gone.
* `app_manager.rs:363`: the search for the oldest app starts from `u32::MAX`, at which
  `kernel_uptime_ms` saturates: from the fiftieth day on, an app that was used since is
  never evicted.
* `permissions.rs:156`: slots are never freed, so after sixteen ids nothing is granted;
  ids are not checked to be different. `PERM_NETWORK`, `PERM_AUDIO`, `PERM_SYSTEM` guard
  no symbol. `manifest.rs` matches substrings and does not know "all", which
  `permissions.rs` does. `kernel_version()` is "0.1.0" and `VERSION_STRING` "0.5.0".
* A task deleted while it holds a mutex blocks everybody; one deleted between two halves
  of `fclose` leaves its stream open. Handlers of an unloaded app stay registered.
  Suspending an app does not stop its task.
* Replacing an artifact by an unsigned release leaves the old signature beside it. A
  failed undo can leave a mixed pair. Nothing is cleaned or restored at boot. On the device
  nothing reads `active.json`.
* `syscall_table.rs:876`: all names of a stem share a backup, and after a crash between
  the two renames the next replacement deletes the only version (`shared`). No function
  refuses a name with the extension of the backups (872); the next replacement of its stem
  removes such a file, and `NothingIsLost` speaks of the others.

*Messages*
* `enqueue` returns errors as positive numbers, and the messenger takes 0x101 or 0x102 for
  the id of a message (ids reach 257 after 256 messages). `msg_queue.rs:823` stamps messages
  with 0 and compares with the uptime. `msg_queue.rs:881`: `get_ready` is called with the end
  of time, so nothing is ever delayed.
* The event bus: `event.rs` promises "registration order", a reused slot is called in its
  place; handlers that call the bus wait for themselves (`stuck`). IPC: the destination
  is ignored, handlers are never removed, and a message refused for a full queue was
  handed to the handlers.
* Burn timer: its first tick restarts at 0, so what was set before burns at once; a full
  queue of notices drops one (`dropped`).
* `mesh_manager.rs:272-273` says that callbacks "must be registered BEFORE meshcore_init so
  that packets arriving as soon as the radio starts are not silently dropped"; the shim
  keeps a callback only if it has a mesh (`meshcore_shim.cpp:404`), which `meshcore_init`
  makes. So the first start runs without the callback and no message ever arrives
  (`core` = "deaf"), unless a start overtakes a stop and finds the mesh that is about to be
  deleted; the inbox of `MeshChat` is filled in such behaviours.
* The chat of the mesh: `rs_mesh_send` answers 0 for a failed send and 1 or 2 for one that was
  sent; `tk_meshchat.rs:749` takes 0 for `ESP_OK`, so that it echoes exactly what was not
  sent. A look at the inbox takes the mutex for the count, for each message and for the
  clearing (434-458): a message that comes in between is cleared without having been shown,
  or moves the head of a full ring, and another one is skipped (`raced`). What finds no line
  in a full chat is cleared too, and so are the messages of other peers.
* Contacts: an unreadable file is an empty book, which the next save writes; text is not
  unescaped; a failed encryption falls back to plain text; ciphertext is cut at a NUL.
* Field logs: a column added while a row is pending is an access out of bounds
  (`lateColumn`).

*Radios*
* `net_connect_best` connects Wi-Fi with a null SSID and always fails, though
  `net_manager.h:50` says it connects the best transport; a chip whose init fails at boot
  never becomes a transport; a stale loss of an earlier link fails a new connect; a
  refusing chip leaves FAILED while the link is up (`refused`).
* Bluetooth: ADVERTISING is written after the host was told, over a connection that came
  between or was there before, and the loss of one connection writes OFF over another
  (`overwritten`); the state is OFF while advertising again after a loss, so
  "Enable" fails; the end of a timed scan is not noticed, since the scan's callback tests
  for event 0 where NimBLE sends 7.
* Settings: `wifi_pwd_connect_cb` (`settings_ui.c:459`) reads the password after its text
  area was deleted (`spoiled`); a password of more than 64 bytes joins and is not saved;
  a second row tapped beside an open dialog shares its context; credentials saved with
  the card in are not used without it; a torn `system.json` is never repaired.

*Screens*
* `tk_wm.rs:1175` says focus must not stay on a hidden tile; launching an app hides the
  shell and leaves the focus on its dock (`EnterHitsTheSeen` of
  `Launcher` does not hold). Nothing opens the
  folder; a failed launch leaves the launcher hidden.
* `tk_flashlight.rs:9` promises "... --- ... in Morse"; the off phase never elapses, so the light
  only flashes.
* Widgets: nobody produces `CharInput`, so no text can be typed; the codes of `%&'(` are
  arrows; a shorter text leaves the cursor behind its end and drawing panics, and so do
  multi-byte and full fields (`strayed`); every later line of a label takes two words; an
  open drop-down cannot be chosen from; scroll offsets are ignored by the hit test and
  never brought back (`shrunk`); `set_progress(-1)` draws a full bar. A finger lifted
  elsewhere leaves its button pressed (`undrawn`); removal reorders siblings; a create
  that fails returns the root's id.
* The store: a chunk that does not fit is left out while a later one fits (`holed`); a
  nested object cuts an entry; the filter comes after the cut at `max_entries`; ratings are
  read where they should be written (`appstore_client.rs:2119`). Its screens are left
  behind on destroy (`kept`), and only the first four entries can be reached.
* The display server finds a surface by place where it gave an id (`reused`). The labels of
  the settings: the GPS row disagrees with the driver after a failed enable; the
  Wi-Fi status is not refreshed.
* The wipe reports on a list that may have changed; `driver_reload` forgets running drivers
  when they are registered or initialised again (`unknown`), and its ids restart.

### 3.2 Bounds

* *BundleInstall*: three files (a first, a middle and a last one in every loop, each
  with or without an original), versions up to 3 (an old firmware, a candidate, and
  one above it), three faults (an install that fails, a rollback that fails, and a
  recovery that is interrupted). `bundle_faults` has two files and versions up to 2,
  as liveness is checked there. The proofs need none of these bounds.
* *ElfApps* (with *AppManager*): four apps, one of them the launcher and one without a file,
  for three slots: a launch moves three apps, and one is always without a place. Files with
  the same id, an unsigned one and one without a manifest; two images, two permission slots,
  one open file; two moments of the clock tell which app was used earlier. The pointers
  of open files are symmetric.
* *DriverBoot*: a display and a keyboard that are compiled in and listed, and a touch
  screen that exists as an image only; lists of one input driver, so that
  registration is refused as well, two slots in the loader. Files change as often as
  the model likes.
* *Devices*: the boards of `sdcard_layout/config/boards`, the T-Deck Pro in two halves whose
  parts do not meet; two starts, two failures, two keys, two pictures beside those of init.
* *Messenger*: two messages and one that may be refused for its size, a queue with two
  active messages, batches of two, one retry, a time to live of two and an uptime of
  two, one restart. Ids and error codes are kept apart (9 and 10), as they are on a device
  that has queued fewer than 256 messages.
* *HalRegistry*: two displays, of which the later takes over, two input drivers for
  two places, two tasks, one reader and three calls: a third call starts when the
  other two are at any point. `Requests` may be repeated, so a full list is reached.
* *PackageInstall*: two releases, archives of two files, two staging numbers and three
  faults: an install, its undo and the next install may each fail.
* *Services*: tables of two or three places and one thing more than fits; two of
  everything that may be confused (peers, people, tasks, senders); clocks up to the first
  moment at which things differ. The portal has one page, two boards and five catalogues,
  three nonces and two requests in flight. `MeshChat` has a ring of two places, a chat of
  two lines, two peers and three messages, so that the ring overflows while it is looked
  at; the receiver of the GPS is sent two lines. `Panels` has two rows, `Widgets` four
  children of two widths, `Settings` three networks, one of them open.

Deadlock is reported for `BundleInstall`, `HalRegistry` and `PackageInstall`. Elsewhere
the system may stop: a boot ends, a clock or a counter is at its bound, a handler waits
for itself.

### 3.3 Fairness

* `BundleInstall`: `WF(Device)`, a processor with power executes its program, and
  `WF(PowerCycle)`, a Recovery whose `main` has returned is switched off and on by its
  user. Faults, installs and reboots are never forced.
* `DriverBoot`: `WF(Boot \/ Loader)`, one thread that runs. The step in which a driver
  waits for its own mutex is not enabled, so fairness does not conceal the deadlock.
* `Messenger`: `WF(UiTask)`, LVGL calls its timers and finishes its callbacks, and
  `WF(Clock)`, time passes. Users and transports are under no obligation.
* `Devices`: the render task polls every input in each of its rounds, whatever their flags
  say, hence `SF` of the touch poll and of the keyboard's, and `WF` of what a poll goes on
  with, of a chip that repeats its edge under a finger, and of `Render \/ RefreshSkips \/
  Refresh`.
* The others have safety and action properties only.

## 4. What is proved

The proofs are checked by TLAPS 1.4.5 for every value of the constants that meets the
assumptions of the modules (`BoundsAssumption`, `AppsAssumption`,
`RegistryAssumption`, ...), which say that bounds are numbers and sets are apart.

| Theorem | Module | States | Assumes |
|---|---|---|---|
| `TypeCorrect` | `BundleInstallProofs` | `TypeOK` | |
| `GenerationsAreWhole` | | `GenerationIsWhole` | `ImageFaults = FALSE` |
| `KernelFilesAreWhole` | | `KernelRunsOnWholeBundle` | `ImageFaults = FALSE` |
| `InstallIsAtomic` | | `ImplementsAtomicGeneration` | `ImageFaults = FALSE` |
| `ConfirmedStays` | | `ConfirmedBundleStays` | `ImageFaults = FALSE` |
| `FloorNeverFalls`, `OldImagesStayOut` | | `FloorMonotone`, `NeverReselectsOldImage` | `NvsErases = FALSE` |
| `TypeCorrect` | `AppManagerProofs` | `TypeOK` | |
| `ForegroundIsOne` | | `OneForeground` | |
| `CallbacksInOrder` | | `CallbackProtocol` | |
| `ForegroundLives` | | `ForegroundIsAlive` | |
| `EvictsOldest` | | `EvictsLeastRecentlyUsed` | `Horizon < MaxUptime` |
| `TypeCorrect` | `HalRegistryProofs` | `TypeOK` | |
| `ReadersAreCoherent` | | `ReadsAreCoherent` | |
| `GenerationsAreImmutable` | | `PublishedIsImmutable` | |
| `Linearizable` | | `ImplementsAtomicRegistry` | |
| `TypeCorrect` | `PackageInstallProofs` | `TypeOK` | |
| `ReleasesAdvance` | | `ActiveAdvances` | |
| `ArtifactsStaySound` | | `ArtifactsAreSound` | |
| `TypeCorrect` | `DriverBootProofs` | `TypeOK` | |
| `DriversSound` | | `DriversAreSound` | |
| `TamperedNeverRun` | | `TamperedNeverRuns` | |
| `TypeCorrect` | `MessengerProofs` | `TypeOK` | |
| `NothingIsSentTwice` | | `SentOncePerBoot`, `TriesAreBounded` | |
| `DeliveryBounded` | | `DeliveryIsBounded` | `CodesAreNoIds` |
| `OverStaysOver` | | `OverIsOver` | `CodesAreNoIds` |
| `ElfIsManager` | `ElfAppsProofs` | `ElfSpec` implements the `Spec` of `AppManager` | |
| `ElfTypeCorrect` | | `ElfTypeOK` | |
| `TrustIsKept` | | `BoundWithinTrust` | |
| `NothingStays` | | `NothingIsLeftBehind` | |
| `OneElfForeground` | | `OneForeground` | |
| `ElfEvictsOldest` | | `EvictsLeastRecentlyUsed` | `Horizon < MaxUptime` |
| `TypeCorrect` | `DevicesProofs` | `TypeOK` | |
| `NothingLeaks` | | `NothingIsLeaked` | |
| `ListenerIsTold` | | `ListenerAgrees`, the safety part of `InputIsReported` | |
| `OldPictureShown` | | `OldPictureIsShown` | |

The services have states of their own; their theorems stand in the module of the component
they serve, each about the specification named with it.

| Theorem | Module | States | Assumes |
|---|---|---|---|
| `StorageTypeCorrect`, `FilesAreNotLost` | `ElfAppsProofs` | `TypeOK`, `NothingIsLost` of `AppStorage` | `MaxWrites` is a number, there is a name |
| `MailTypeCorrect`, `MailComesOut` | | `TypeOK`, `MessagesComeOut` of `Ipc` | finitely many receivers |
| `LinkIsBelieved` | `DevicesProofs` | `BeliefSettles` of `Network` | |
| `CompanionIsKnown` | | `LinkIsKnown` of `Bluetooth` | |
| `DisplayIsSound` | | `ServerIsSound` of `DisplayServer` | `"none"` is no manager |
| `RunningDriversAreKnown` | | `RunningIsKnown` of `DriverReload` | |
| `LogsAreRectangular` | | `LogIsRectangular` of `Emergency` | `MaxColumns` is a number |
| `AlarmTellsItsEnd` | | `BeaconTellsItsEnd` of `Emergency` | `MaxSequence` is a number |
| `WipeReportsWhatItDid` | | `WipeIsSound` of `Emergency` | `MaxPasses` is a positive number |
| `LightGoesOutForGood` | | `LightGoesOut` of `Emergency` | |
| `LeastWantedNoteGoes` | | `LeastWantedGoes` of `Notifications` | `MaxNow` is a number |
| `UpdatesAreSafe` | `BundleInstallProofs` | `UpdateIsSafe` of `Settings` | |
| `CredentialsAreKept` | | `CredentialsSurvive` of `Settings` | `CredentialsAssumption` |
| `DownloadsAreWhole` | `PackageInstallProofs` | `DownloadIsWhole` of `StoreClient` | |
| `ShopInstallsWhatItShows` | | `InstallsWhatWasShown`, `OneScreen` of `StoreClient` | |
| `PortalTellsTheTruth` | | `StatusIsOfAJob`, `InstallsWhatWasAsked`, `ConnectionIsBelieved`, `DoneMeansInstalled` of `RecoveryPortal` | `"none"` is no board and no network |
| `LauncherFocusIsSeen` | `AppManagerProofs` | `FocusIsSeen` of `Launcher` | there is an app, none called `"launcher"` or `"none"` |
| `PanelsShowWhatTheyAreSent` | `DriverBootProofs` | `PanelShowsThePicture` of `Panels` | `Rows` is a number |
| `SoundPlaysAsSet` | | `SoundIsSound` of `Panels` | volumes and samples are numbers |
| `FixesAreOfOneSentence` | | `FixIsOfOneSentence`, `ToldFixesAreWhole` of `Sensors` | |
| `ClockTellsWhatItWasSet` | | `ClockKeepsTime` of `Sensors` | `TimesAssumption` |
| `MotionRatesAgree` | | `RatesAgree` of `Sensors` | rates are numbers |
| `BatteryTellsItsCharge` | | `BatteryIsSound` of `Sensors` | samples are numbers |

The assumptions of the first table are those the code needs: without them TLC finds the
properties violated (3.1), with one exception: of `KernelRunsOnWholeBundle` TLC finds no
violation with image faults either, in the instance of `bundle_faults`; it is proved
without them. Those of the second say that bounds are numbers and that a value which
stands for nothing is not one of the things.
`Horizon < MaxUptime` says that the clock of milliseconds has not saturated, which takes
49 days. `CodesAreNoIds` says that fewer messages are ever queued than the smallest
number `enqueue` returns as an error (257): from then on the messenger takes an error
for the id of a message, and marks that one as sent.

**BundleInstall.** `GenerationIsWhole` is not inductive: it says nothing of the time
during which a journal exists. `TransactionInv` adds what each stage must keep.
`StageInv`: before the journal is written nothing active has moved. `ActivateInv`:
the entries before the index are new, those behind it are as they were, the one at
the index may be between its two renames. `RollbackInv`: until the image is
confirmed every entry can be restored from what the card holds (`Restorable`), and
the rollback, which goes from the last to the first, has restored those above the
index. `SelectedInv`, `RecoveryInv` and `SelectedFilesInv` tie otadata to the place
in the program: Recovery works on an unselected `ota_1` unless it waits for the
reboot, and whatever is selected beside a journal runs over active files. Each part
is a lemma with a step per action. `AtomicStep` shows that each step is one of
`AtomicGeneration` or leaves both variables alone. `FloorInv` is a second, smaller
invariant: all that was ever selected is at or below the floor.

**AppManager.** `HandlesAreFresh` (no slot has a handle that is still to be given)
makes `OneForeground` inductive. `PhasesMatch` ties the callbacks an app has received
to the state of its slot, and an app without a slot to "none"; with it each call is
shown to move every app along an arrow of `InOrder` (`Legal`), a launch in
three moves: one app leaves the screen, one is evicted, one comes. The apps of `misled` but
the launcher are `Lost`: nothing is said of them any more, and nothing they receive
disturbs the others. The launcher is only paused when it gives way, so that after a failed
launch its slot runs while it is paused (`InStep`), and it is in step again once it is
launched. `ForegroundRuns`: the app in the foreground, if there is one, runs, and the
handle leads to a slot unless it is `stray`; the launch that empties its own slot is the
only step that leaves such a handle, since every later one takes another.

`EvictsOldest` rests on another invariant, `EvictionInv`: a suspended app is never the
foreground one (`SuspendedIsAway`) and none was used later than now (`UsedBefore`), so
that every suspended app can be evicted in the table as it is and as a launch leaves it.

**HalRegistry.** The invariant follows the writer: it holds the mutex, its clone is
the last generation of the heap and one newer than the current one, and differs from
the current one in the fields that its program counter has passed (`CloneIsLast`,
`ClonesProgress`). A lemma of its own (`HeapStep`) says that no step changes a
generation up to the current one. What a reader has loaded therefore stays true.
For `Linearizable` the step `Publish` is where a call takes effect.

**PackageInstall.** What the installer promises speaks of the end of an installation;
the invariant says what holds at each step before it. `QuietInv`, `PayloadInv` and
`SignatureInv` follow the replacement from one rename to the next. `UndoInv` says that
each part the replacement found is in its place or aside (`InPlaceOrAside`), until the
undo has dealt with it or has failed, and `BeforeInv` that what the undo goes back
to was a pair. Without the former a restore on a POSIX directory could overwrite the
artifact that `ArtifactSurvives` speaks of. For `ActiveAdvances`, `ReleaseInv`: a
release that passed the check is absent and newer than the active one until it
is published, as a whole.

**DriverBoot.** A driver is registered by the step that takes it off its list, so that
what is still listed is not registered yet (`OnceInv`), and the fallback starts over only
while nothing is registered (`CodeInv`); that makes `EachStartedOnce` inductive,
although `board.json`, the board and the fallback may name the same driver. `CodeInv`
says as well that what is registered is compiled in or in a slot of the loader, and that
slots are given up only when the registry points at none of them. `StartInv` follows
`start_all`: what it has called and what it has still to call are apart.
`LoadInv` ties the loader's current configuration to the driver it works on.

**Messenger.** `TypeOK` contains that no two messages of the queue have one id, which a
restart from a torn file might break: `DiskIsSound` says the same of the file. `TriesInv`
and `BatchInv` follow the tick: what its batch still holds is in the queue, active, and
may be tried once more. `PayloadInv` and `AcceptedInv` say that a payload is in one
message, and that no transport has taken what still waits. `IdsInv` bounds the ids by the
number of messages that were given to `send_message`; with it and `CodesAreNoIds`,
`TakenInv` keeps `SentMeansTaken`.

**ElfApps.** `ElfInv` adds to the manager's own invariant what ties the images to it.
`HandlesInv`: every app in a slot but a launcher has callbacks of an image, so that an
image that runs (`RunningInv`) is reached through its app. `GrantsInv` says more than
`NothingIsLeftBehind`: each single permission of an identity was granted to an image that
is loaded, which is what makes revoking the permissions of one image enough
(`UnloadKeeps`). `StreamsInv` says where a stream is: in one entry of the table, or in the
hands of one task that has opened it and not yet entered it, or taken it and not yet closed
it. What a call of the manager does to its slots is said by two facts, `Kept` and `Stays`:
no slot is filled, and an app in memory stays there unless the call destroys it. The one
place where order matters is a launch with a low heap, which first evicts and then starts:
the app to be started is not in memory, so that it is not the one evicted
(`CreatedIsThere`). `ElfIsManager` shows that every step is one of `AppManager` or leaves
it alone, and the theorems about the manager follow for the manager with its images.

**Devices.** `NothingIsLeaked` is about drivers that start_all is not at; `HoldingsAreKnown`
adds what the one it is at holds, no more than the steps done so far took. That the error
path of the next step gives all of it back is a fact about each driver's table, and so is
that a deinit function gives back whatever was taken (`Keeps`, driver by driver). It needs
that a driver is not ready before start_all comes to it, which `ReadyInOrder` follows
through start_all and stop_all, and `BoardsAssumption`: a driver is at one place of the
board. `ft3x68` is left out, because its table has a step that gives nothing back. The
theorems hold for every board, also those no profile lists.

**AppStorage.** A replacement has two renames. The invariant says where the contents are
between them (`OldIsAside`: the old file under the backup's name, nothing under its own)
and otherwise (`There`: every name holds what it was last given). Both speak of
stems that no two calls share; `CallsApart` says that two calls which are at one stem
have noted it in `shared`, and that no other call changes what is set aside. A file whose
own extension is that of the backups is taken for a backup, and clearing the backup
removes it. No function refuses such a name: it is among the names, of the run and of the
theorem, and the property and the invariant speak of the others (`Plain`).

**Ipc.** `Whole`: the messages taken and those still queued, together, are those sent and
not refused, in increasing order. `SleepersHaveNothing`: while somebody sleeps, no more
messages are queued than receivers have been woken and not yet run. That is why one
`notify_one` for each message is enough, and it needs the count of a finite set.

**Wi-Fi, Bluetooth, display.** The manager's belief lags behind the chip by the events that
wait, so `BeliefSettles` is not inductive. `EventsInv` says that the last event which
waits, or the one the handler has in its hands, tells how the link is; `BeliefInv` what
is left when none does. For Bluetooth the property is inductive once nothing of the
radio lives before the start (`StartedInv`); the connections are a set, of which the
manager names one. For the display server, `DisplayInv` adds that while no
place was given out again a surface's number is that of its place.

**Drivers that are replaced.** `RunningIsKnown` is inductive for a table that `register`
looks for a free slot of. That there is a first free slot is the existence of a least
number (`LeastNumber`), which the prover has no induction for; it follows from the
well-foundedness of the pairs of numbers of which the first is smaller.

**Logs, emergency, notifications.** `TableInv`: a row is as wide as its table and each of its
values of its column's type, unless a column came late. `PlanInv`: the targets of a wipe
stand in the order of their priority, and the client has the first one that is
pending in hand, under its own index; an index means what it did while no target is
added. `BeaconInv` says which number a beacon that is still silent starts with, `TorchInv`
which of light, screen and flashes each mode may leave on. `NotesInv`: ids stand in
the list in the order in which they were given, so that what is at the first index of the
first class that is not empty (`IsEvicted`) was wanted less than all the others.

**The update from the card.** `UpdateIsSafe` speaks of a device that starts. `SlotsInv` says of
each slot that the bootloader may start that its image is sound, or that it is being
written over while the other one is selected and confirmed. `TrialInv`: only the slot
selected last is to be confirmed. `BeforeInv`: while it is, the one before it is
where the bootloader goes. Together they show that no power loss selects half an image.

**Credentials.** `ContextInv` ties the context of a dialog to the dialog on top, `TargetInv` what
is joined to what the page shows, and `KeptInv` what a file would be read as to what
was last saved in it, also while it is being written. `OthersInv`: the rest of a file is
that of some configuration the device began with.

**Store and portal.** A download (`StreamInv`) has written what it received, no more than was
declared, which is no more than the limit. Of the store's screens `DetailInv` says that the
index a button carries leads to the entry shown, and `ScreenInv` that one screen is on the
tree. `JobInv` follows a request of the portal from the page to the main loop: unless the
board was switched in between, it is for the board that was asked for. The page, the job
and the connection need nothing of each other, so that each step disturbs one of them.

**Launcher.** Before `on_create` nothing is shown; from then on the focus is inductive.

**Panels and sound.** `PictureInv` relates three copies of a picture by what the driver
believes: framebuffer, panel and, on e-paper, the memory of the picture before
(`FB_OLD`), which a fast refresh starts from, row by row and mirrored. `SoundInv` is the
property and its types: volume is arithmetic, for every sample and every percentage.

**Sensors.** The task of the GPS writes a position field by field; `FixInv` says which
fields are those of the line so far and `LineInv` that the line is one whole sentence,
until a position is told. `CopyInv` follows `get_position`, which copies one field after
the other between any two steps of the task: while nothing is half written, the fields it
has are those that are still there, or belong to a position that init has cleared since. A
copy that was made while something was half written (`calm` is false) may be of two
sentences, as `services_gps` shows, and the theorem does not speak of it. `ClockInv` goes
through BCD and the masks of the registers, which is arithmetic on every digit.
`BatteryInv` counts what exists against what the driver knows of. That more voltage is
never less charge is `MoreIsNotLess`: on each of the ten pieces of the curve by what
rounded division does (`Segment1` to `Segment10`), across them because the pieces meet.

That the days which `nmea_to_timestamp` adds up in two loops are those of the Gregorian
rule is not needed by any theorem. TLC evaluates it for the first and the twenty-eighth
of every month of the hundred years a sentence can name (`DatesAreGregorian`, `MCServices`).

### 4.1 Only model-checked

* Liveness: `JournalIsResolved`, `BootEndsUnlessConfigIsAsked`, `Settles`,
  `ScreenCatchesUp`, and of `InputIsReported` that lifted fingers and keys are reported.
  The prover does not do fairness.
* The invariants of `services` as such (`RadiosAreBelieved` to `EndsAreReached`). They are
  conjunctions of one promise for each service, and stand in a module that reaches the
  recursive operators of `Toolkit`, where the prover has no SMT; most of the promises
  are proved one by one, in the table above.
* What is computed by recursion or by a fold over a sequence, since the prover has no
  induction over data: the walk of the tree and the layout (`Toolkit`, `Widgets`), the
  lists that are filtered or sorted (`EveryoneIsTold` of `EventBus`, `CleanMeansSaved` and
  `ChannelsAreOwn` of `Contacts`, `ChatIsOfItsPeer` of `MeshChat`, `EntriesAreItems` of
  `StoreClient`, `InstalledIsABundle` and `PlanIsNoStricter` of `RecoveryPortal`,
  `BurnsWhatItShould` of `BurnTimer`, `DevicesAreCounted` of `Bluetooth`, `ShownInOrder` of
  `Notifications`, `ScreensAgree` of `Settings`), and what a display chip does with its list
  of commands (`ScreenIsAsBelieved` of `Panels`). Where a least element or one
  element's place is enough, as for slots and evicted notifications, the proofs do
  without it.

### 4.2 What is left

The lists above, with filters written as functions on indices; the types of the services
(`ServicesTypeOK`), of which the invariants prove what they need.

## 5. Abstractions

* Contents are reduced to what properties tell apart: a file is the version that wrote
  it, an image is the vendor's or somebody else's, a message is a value that is sent
  once. Parsing, hashing, JSON and the texts of logs are left out.
* Time is a counter that moves at any moment. `kernel_uptime_ms` saturates in the
  model as it does in the code.
* The bootloader, FreeRTOS, the file system, LVGL and the transports are external and
  modelled by what the code asks of them. A rename is atomic; a file that is
  written and then replaced by a rename is complete; a file that is truncated and
  written anew is not.
* Where an access out of bounds panics (`Emergency`, `Widgets`) the model notes it and goes
  on; a poisoned mutex is outside the models.
* A mutex that no handler or callback asks for twice is one action with what it guards;
  it is a step of its own where a holder calls other code (`EventBus`, `DriverBoot`,
  `HalRegistry`, `Toolkit`).

## 6. Running

    tlc -workers 2 -config BundleInstall_atomic.cfg BundleInstall
    tlc -workers 2 -config MCServices_services.cfg MCServices
    tlapm BundleInstallProofs.tla

and so for the others; `PROJECT.json` names the module and the configuration of each
run.
