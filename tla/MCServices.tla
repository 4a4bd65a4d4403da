------------------------------ MODULE MCServices ------------------------------
(***************************************************************************)
(* The services of the kernel, the window manager and its apps, side by    *)
(* side, as instances small enough for TLC.  They have no state in common  *)
(* (each has a static or a mutex of its own), so a run of all of them is   *)
(* a run of each: a behaviour calls the functions of one, "service", and   *)
(* leaves the others as they were at the start.                            *)
(***************************************************************************)
EXTENDS Integers, Sequences

Catalogs ==
    {<<[id |-> "a", rating |-> 1], [id |-> "b", rating |-> 2], [id |-> "c", rating |-> 1]>>,
     <<[id |-> "b", rating |-> 0]>>}

Names == {[stem |-> "log", ext |-> x] : x \in {"txt", "new", "thistle-backup"}}

\* A catalogue of bundles that is whole, and what may be wrong with one.
Artifact(type, id, boards, version) ==
    [type |-> type, id |-> id, boards |-> boards, arch |-> "s3", version |-> version,
     signed |-> TRUE, canonical |-> TRUE, agrees |-> TRUE,
     size |-> 2, declared |-> 2, sent |-> 2, genuine |-> TRUE]

Whole ==
    <<Artifact("firmware", "os", {"a", "b"}, 2), Artifact("board", "a", {"a"}, 1),
      Artifact("board", "b", {"b"}, 1)>>
CutShort ==
    <<Artifact("board", "a", {"a"}, 1),
      [Artifact("firmware", "os", {"a"}, 2) EXCEPT !.declared = -1, !.sent = 1]>>
Doubled ==
    <<Artifact("firmware", "os", {"a"}, 2), Artifact("board", "a", {"a"}, 1),
      Artifact("driver", "d", {"a"}, 1), Artifact("driver", "d", {"a"}, 1)>>
Outdated == <<Artifact("firmware", "os", {"a"}, 1), Artifact("board", "a", {"a"}, 1)>>
Unsigned == Append(Whole, [Artifact("driver", "d", {"b"}, 1) EXCEPT !.signed = FALSE])

\* What the receiver sends, and what the clock is set to.
Angle(deg, min, dir) == [deg |-> deg, min |-> min, dir |-> dir]
When(yy, month, day, second) == [yy |-> yy, month |-> month, day |-> day, second |-> second]
Sentence(kind, lat, lon, speed, time, ok) ==
    [kind |-> kind, lat |-> lat, lon |-> lon, speed |-> speed, time |-> time, ok |-> ok]
Sentences ==
    {Sentence("rmc", Angle(48, 30, "N"), Angle(11, 15, "E"), 5, When(24, 3, 1, 10), TRUE),
     Sentence("rmc", Angle(33, 59, "S"), Angle(70, 40, "W"), 9, When(99, 12, 31, 86399), TRUE),
     Sentence("rmc", Angle(0, 0, "N"), Angle(0, 0, "E"), 0, When(0, 0, 0, 0), FALSE),
     Sentence("gga", Angle(0, 0, "N"), Angle(0, 0, "E"), 4, When(0, 0, 0, 0), FALSE)}

Evening(year, month, day) ==
    [year |-> year, month |-> month, day |-> day, hour |-> 23, second |-> 59]
Times == {Evening(1999, 12, 31), Evening(2000, 2, 29), Evening(2099, 10, 9), Evening(2100, 1, 1)}

\* The networks in reach, what system.json may be, and the updates there may be on a card.
Network(ssid, open, key) == [ssid |-> ssid, open |-> open, key |-> key]
InReach ==
    <<Network("home", FALSE, "k1"), Network("cafe", TRUE, ""),
      Network("work", FALSE, "k2")>>
NoWifi == [is |-> "none", on |-> "odd", ssid |-> "", pw |-> ""]
WifiOf(on, ssid) == [is |-> "object", on |-> on, ssid |-> ssid, pw |-> ""]
Config(nested, inner, outer) ==
    [is |-> "whole", nested |-> nested, inner |-> inner, outer |-> outer]
Configs ==
    {[Config(FALSE, NoWifi, NoWifi) EXCEPT !.is = "missing"],
     Config(TRUE, WifiOf("no", ""), WifiOf("yes", "cafe")),
     Config(TRUE, NoWifi, WifiOf("yes", "home")), Config(FALSE, NoWifi, WifiOf("yes", "cafe"))}
Images ==
    {[image |-> "new", sig |-> "good"], [image |-> "large", sig |-> "good"],
     [image |-> "spoilt", sig |-> "bad"], [image |-> "spoilt", sig |-> "none"],
     [image |-> "new", sig |-> "short"]}

VARIABLES
    service,  \* the service whose calls are looked at
    burnNow, timers, expired, burnCount, wiped, timed, revoked, dropped,
    contacts, bookNextId, bookReady, bookDirty, file, unread, channels,
    bookCount, salts, air,
    radio, events, netHandlers, handling, netState, netReady, caller, netRefused,
    transports, others,
    conns, onAir, passkey, bleState, handle, callback, bleRunning, toggle,
    overwritten, bleReceived, devices, deviceCount, scanning, filter,
    subscribers, holder, event, busTold, stuck, due, published,
    meshUp, ring, head, meshCount, core, heard, at, meshScreen, meshLines, listedFor,
    peer, shown, work, last, raced,
    queue, msgsHandlers, asleep, woken, msgsSent, msgsRefused, msgsHeard,
    msgsReceived,
    nodes, free, tkFocus, callbacks, tkPending, wanted, tkDirty, undrawn,
    created, shellShown, view, front, screens, homeFocus, pendingAction, hit,
    homeNow, clock,
    list, notesNextId,
    columns, rows, building, lateColumn, aborted, track,
    status, sequence, sosSent, targets, hand, sosWritten, moved,
    onDevice, slots, reloadNextId, reloadRunning, unknown, lookup,
    fetch, storeSent, buffer, holed, storeEntries, stream, storeWritten,
    shopAlive, shopEntries, shopScreen, widgets, installing, installDone,
    disk, calls, writes, kept, filesTold, shared,
    up, wm, dsReady, surfaces, dsNextId, reused,
    torchAlive, mode, white, bright, step, lit, since, flashes,
    session, wifi, link, connecting, board, bundle, job, staged, asked, switched,
    installed, page, inFlight, power,
    gps, rx, line, fix, cb, given, torn, copy, lines, rtc, regs, rtcWanted,
    battery, taken, reading, imu, odr, rated, light, lux,
    kind, pin, panelUp, chip, memory, fb, old, ram, panelMode, level, believed,
    drawn, synced, audio, channel, panelHeard, faults,
    box, kids, placed, offset, shrunk, control, finger, text, cursor, strayed,
    words, oneLine, strip,
    root, listShown, subPage, covered, detail, current, timersOn, labels, setRows, hal,
    gpsState, waiting, misused,
    docs, cardIn, offers, dialogs, ctx, phase, target, setKept, spoiled,
    card, appSlots, otadata, running, before, stage

Burn == INSTANCE BurnTimer WITH
    Convs <- {"a"}, MaxTimers <- 2, MaxExpired <- 2, Batch <- 1, History <- 2,
    Delays <- {1}, MaxNow <- 2, MaxMessages <- 3, now <- burnNow,
    count <- burnCount
Book == INSTANCE Contacts WITH
    People <- {"ann", "bob"}, Quoted <- {"bob"}, Phones <- {"x"},
    Passphrases <- {"p", "q"}, MaxContacts <- 2, MaxChannels <- 2, MaxIds <- 2,
    MaxSalts <- 2, nextId <- bookNextId, ready <- bookReady, dirty <- bookDirty,
    count <- bookCount
Net == INSTANCE Network WITH
    Others <- {"modem", "vpn"}, Overlays <- {"vpn"}, MaxTransports <- 2,
    MaxEvents <- 2, handlers <- netHandlers, state <- netState,
    ready <- netReady, refused <- netRefused
Ble == INSTANCE Bluetooth WITH
    Peers <- {"p", "q"}, Addrs <- {"x", "y", "z"}, MaxDevices <- 2, MaxRssi <- 2,
    state <- bleState, running <- bleRunning, received <- bleReceived
Bus == INSTANCE EventBus WITH
    Tasks <- {"render", "wifi"}, Types <- {"wifi", "app"},
    Handlers <- {"toast", "elf"}, Nested <- {"elf"}, Slots <- 3,
    MaxPublished <- 2, told <- busTold
Msgs == INSTANCE Ipc WITH
    Receivers <- {"a", "b", "c"}, Types <- {"x", "y"}, Depth <- 2,
    MaxHandlers <- 1, MaxSent <- 4, handlers <- msgsHandlers, sent <- msgsSent,
    refused <- msgsRefused, heard <- msgsHeard, received <- msgsReceived
Mesh == INSTANCE MeshChat WITH
    Peers <- {"p", "q"}, InboxSize <- 2, MaxWidgets <- 2, MaxMessages <- 3,
    count <- meshCount, screen <- meshScreen, lines <- meshLines
Tk == INSTANCE Toolkit WITH
    MaxNodes <- 3, MaxChildren <- 2, Capacity <- 2, Callbacks <- {"f"},
    focus <- tkFocus, pending <- tkPending, dirty <- tkDirty
Home == INSTANCE Launcher WITH
    Apps <- {"a", "b"}, MaxTime <- 1, focus <- homeFocus, now <- homeNow
Notes == INSTANCE Notifications WITH
    Sources <- {"a", "b"}, Capacity <- 2, MaxPosts <- 3, MaxNow <- 1,
    nextId <- notesNextId
Sos == INSTANCE Emergency WITH
    MaxSequence <- 2, MaxTargets <- 2, MaxPasses <- 2, MaxTime <- 4, sent <- sosSent,
    written <- sosWritten, alive <- torchAlive,
    Types <- {"int", "text"}, MaxColumns <- 2, MaxRows <- 2, MaxPoints <- 2,
    MaxSeconds <- 1
Reload == INSTANCE DriverReload WITH
    Paths <- {"p", "q"}, Hals <- {"radio", "gps"}, MaxDrivers <- 2, MaxIds <- 3,
    nextId <- reloadNextId, running <- reloadRunning
Store == INSTANCE StoreClient WITH
    MaxItems <- 3, Foreign <- {2}, Tools <- {1, 2}, Room <- 5, MaxEntries <- 2,
    MaxSize <- 2, sent <- storeSent, entries <- storeEntries,
    written <- storeWritten,
    Ids <- {"a", "b", "c"}, CachedCatalogs <- Catalogs, PerPage <- 2,
    alive <- shopAlive, screen <- shopScreen
Files == INSTANCE AppStorage WITH
    Tasks <- {"main", "ui"}, Names <- Names, Backup <- "thistle-backup",
    Outside <- {}, MaxWrites <- 2, told <- filesTold
Ds == INSTANCE DisplayServer WITH
    Managers <- {"tk", "lvgl"}, MaxSurfaces <- 2, MaxIds <- 3, ready <- dsReady,
    nextId <- dsNextId
Portal == INSTANCE RecoveryPortal WITH
    Pages <- {"p"}, Known <- {"a"}, Listed <- {"a", "b"}, Networks <- {"home"},
    Catalogs <- {Whole, CutShort, Doubled, Outdated, Unsigned}, Chip <- "s3",
    Floor <- 1, MaxNonce <- 3, MaxInFlight <- 2
Gps == INSTANCE Sensors WITH
    Sentences <- Sentences, Callbacks <- {"f"}, Times <- Times,
    Samples <- {0, 1861, 1862, 2109, 2358, 2449, 2560, 2606},
    Rates <- {1, 62, 63, 500, 8000},
    Lights <- {<<0, 0>>, <<10, 0>>, <<65535, 0>>, <<100, 100>>, <<0, 5>>},
    MaxLines <- 2, wanted <- rtcWanted, power <- battery
Panel == INSTANCE Panels WITH
    Kinds <- {"st7789", "ili9341", "ssd1306", "co5300", "gdeq"}, Rows <- 2,
    Percents <- {0, 40, 100, 255}, Sounds <- {-32768, -1, 0, 1, 32767},
    MaxFaults <- 2, up <- panelUp, mode <- panelMode, heard <- panelHeard
Look == INSTANCE Widgets WITH
    Width <- 120, Height <- 100, Sizes <- {-2, 40}, Weights <- {2},
    Spans <- {0, 44, 120}, Values <- {-1, 33, 300}, Room <- 3,
    Texts <- {<<>>, <<1>>, <<1, 1>>, <<2, 1>>},
    Phrases <- UNION {[1 .. n -> {30, 59, 120}] : n \in 0 .. 4},
    Displays <- {<<128, 64>>, <<240, 135>>, <<320, 240>>}
Set == INSTANCE Settings WITH
    Drivers <- <<"display", "keyboard", "gps", "power">>, MaxRows <- 3,
    Networks <- InReach, MaxOffers <- 2, MaxDialogs <- 2, Typed <- {"k1", "long"},
    Configs <- Configs, Updates <- Images,
    Fits <- [ota_0 |-> {"new", "spoilt"}, ota_1 |-> {"new", "large", "spoilt"}],
    rows <- setRows, kept <- setKept, slots <- appSlots

\* Every date of the hundred years a sentence can name is the day of the calendar it should
\* be (nmea_to_timestamp), at the ends of a month.
ASSUME DatesAreGregorian ==
    \A yy \in 0 .. 99, month \in 1 .. 12, day \in {1, 28} : Gps!IsGregorian(When(yy, month, day, 5))

burnVars == <<burnNow, timers, expired, burnCount, wiped, timed, revoked, dropped>>
bookVars == <<contacts, bookNextId, bookReady, bookDirty, file, unread, channels,
             bookCount, salts, air>>
netVars == <<radio, events, netHandlers, handling, netState, netReady, caller,
             netRefused, transports, others>>
bleVars == <<conns, onAir, passkey, bleState, handle, callback, bleRunning,
             toggle, overwritten, bleReceived, devices, deviceCount, scanning,
             filter>>
busVars == <<subscribers, holder, event, busTold, stuck, due, published>>
msgsVars == <<queue, msgsHandlers, asleep, woken, msgsSent, msgsRefused,
             msgsHeard, msgsReceived>>
meshVars == <<meshUp, ring, head, meshCount, core, heard, at, meshScreen, meshLines,
             listedFor, peer, shown, work, last, raced>>
tkVars == <<nodes, free, tkFocus, callbacks, tkPending, wanted, tkDirty,
             undrawn>>
homeVars == <<created, shellShown, view, front, screens, homeFocus, pendingAction,
             hit, homeNow, clock>>
notesVars == <<list, notesNextId>>
logsVars == <<columns, rows, building, lateColumn, aborted, track>>
sosVars == <<status, sequence, sosSent, targets, hand, sosWritten, moved>>
reloadVars == <<onDevice, slots, reloadNextId, reloadRunning, unknown, lookup>>
storeVars == <<fetch, storeSent, buffer, holed, storeEntries, stream, storeWritten>>
shopVars == <<shopAlive, shopEntries, shopScreen, widgets, installing, installDone>>
filesVars == <<disk, calls, writes, kept, filesTold, shared>>
dsVars == <<up, wm, dsReady, surfaces, dsNextId, reused>>
torchVars == <<torchAlive, mode, white, bright, step, lit, since, flashes>>
portalVars == <<session, wifi, link, connecting, board, bundle, job, staged, asked,
                switched, installed, page, inFlight, power>>
gpsVars == <<gps, rx, line, fix, cb, given, torn, copy, lines>>
rtcVars == <<rtc, regs, rtcWanted>>
batteryVars == <<battery, taken, reading>>
imuVars == <<imu, odr, rated>>
lightVars == <<light, lux>>
panelVars == <<kind, pin, panelUp, chip, memory, fb, old, ram, panelMode, level,
               believed, drawn, synced>>
soundVars == <<audio, channel, panelHeard>>
faultVars == <<faults>>
lookVars == <<box, kids, placed, offset, shrunk, control, finger, text, cursor,
              strayed, words, oneLine, strip>>
screenVars == <<root, listShown, subPage, covered, detail, current, timersOn, labels,
                setRows, hal, gpsState, waiting, misused>>
wifiVars == <<docs, cardIn, offers, dialogs, ctx, phase, target, setKept, spoiled>>
updateVars == <<card, appSlots, otadata, running, before, stage>>

Services == {
    "burning", "contacts", "network", "bluetooth", "scanner", "events", "ipc", "mesh",
    "toolkit", "launcher", "notifications", "logs", "track", "beacon", "wipe", "reload",
    "store", "shop", "files", "display", "torch", "portal",
    "gps", "clock", "battery", "motion", "light",
    "panel", "sound",
    "layout", "scrolling", "controls", "field", "label", "strip",
    "settings", "credentials", "update"}

Looks == {"layout", "scrolling", "controls", "field", "label", "strip"}

Init ==
    /\ service \in Services
    /\ Burn!Init
    /\ Book!Init
    /\ Net!Init
    /\ Ble!Init
    /\ Bus!Init
    /\ Msgs!Init
    /\ Mesh!Init
    /\ Tk!Init
    /\ Home!Init
    /\ Notes!Init
    /\ Sos!LogInit
    /\ Sos!Init
    /\ Reload!Init  /\ (service = "reload" \/ ~onDevice)
    /\ Store!Init
    /\ Store!ShopInit
    /\ Files!Init
    /\ Ds!Init
    /\ Portal!Init
    /\ Gps!Init
    /\ Panel!Init   /\ (service = "panel" \/ (kind = "gdeq" /\ pin))
    /\ Look!Init
    /\ (service = "scrolling") = (Len(kids) = 4)
    /\ service = "controls" \/ control.kind = "label"
    /\ service = "strip" \/ strip.mode = "full"
    /\ Set!Init
    /\ docs["card"].nested /\ docs["card"] # docs["flash"]
    /\ service = "credentials" \/ (docs["flash"].is = "missing" /\ docs["card"].inner.is = "none")
    /\ docs["card"].inner.is = "object" \/ service # "credentials"
    /\ cardIn = (service = "credentials")
    /\ service = "update" \/ appSlots["ota_1"] = "none"

\* What a call of one service leaves alone.
Alone ==
    /\ UNCHANGED service
    /\ IF service = "burning" THEN TRUE ELSE UNCHANGED burnVars
    /\ IF service = "contacts" THEN TRUE ELSE UNCHANGED bookVars
    /\ IF service = "network" THEN TRUE ELSE UNCHANGED netVars
    /\ IF service \in {"bluetooth", "scanner"} THEN TRUE ELSE UNCHANGED bleVars
    /\ IF service = "events" THEN TRUE ELSE UNCHANGED busVars
    /\ IF service = "ipc" THEN TRUE ELSE UNCHANGED msgsVars
    /\ IF service = "mesh" THEN TRUE ELSE UNCHANGED meshVars
    /\ IF service = "toolkit" THEN TRUE ELSE UNCHANGED tkVars
    /\ IF service = "launcher" THEN TRUE ELSE UNCHANGED homeVars
    /\ IF service = "notifications" THEN TRUE ELSE UNCHANGED notesVars
    /\ IF service \in {"logs", "track"} THEN TRUE ELSE UNCHANGED logsVars
    /\ IF service \in {"beacon", "wipe"} THEN TRUE ELSE UNCHANGED sosVars
    /\ IF service = "reload" THEN TRUE ELSE UNCHANGED reloadVars
    /\ IF service = "store" THEN TRUE ELSE UNCHANGED storeVars
    /\ IF service = "shop" THEN TRUE ELSE UNCHANGED shopVars
    /\ IF service = "files" THEN TRUE ELSE UNCHANGED filesVars
    /\ IF service = "display" THEN TRUE ELSE UNCHANGED dsVars
    /\ IF service = "torch" THEN TRUE ELSE UNCHANGED torchVars
    /\ IF service = "portal" THEN TRUE ELSE UNCHANGED portalVars
    /\ IF service = "gps" THEN TRUE ELSE UNCHANGED gpsVars
    /\ IF service = "clock" THEN TRUE ELSE UNCHANGED rtcVars
    /\ IF service = "battery" THEN TRUE ELSE UNCHANGED batteryVars
    /\ IF service = "motion" THEN TRUE ELSE UNCHANGED imuVars
    /\ IF service = "light" THEN TRUE ELSE UNCHANGED lightVars
    /\ IF service = "panel" THEN TRUE ELSE UNCHANGED panelVars
    /\ IF service = "sound" THEN TRUE ELSE UNCHANGED soundVars
    /\ IF service \in {"panel", "sound"} THEN TRUE ELSE UNCHANGED faultVars
    /\ IF service \in Looks THEN TRUE ELSE UNCHANGED lookVars
    /\ IF service = "settings" THEN TRUE ELSE UNCHANGED screenVars
    /\ IF service = "credentials" THEN TRUE ELSE UNCHANGED wifiVars
    /\ IF service = "update" THEN TRUE ELSE UNCHANGED updateVars

Next ==
    \/ service = "burning" /\ Burn!Next /\ Alone
    \/ service = "contacts" /\ Book!Next /\ Alone
    \/ service = "network" /\ Net!Next /\ Alone
    \/ service = "bluetooth" /\ Ble!LinkNext /\ Alone
    \/ service = "scanner" /\ Ble!ScanNext /\ Alone
    \/ service = "events" /\ Bus!Next /\ Alone
    \/ service = "ipc" /\ Msgs!Next /\ Alone
    \/ service = "mesh" /\ Mesh!Next /\ Alone
    \/ service = "toolkit" /\ Tk!Next /\ Alone
    \/ service = "launcher" /\ Home!Next /\ Alone
    \/ service = "notifications" /\ Notes!Next /\ Alone
    \/ service = "logs" /\ Sos!LoggerNext /\ Alone
    \/ service = "track" /\ Sos!TrackNext /\ Alone
    \/ service = "beacon" /\ Sos!BeaconNext /\ Alone
    \/ service = "wipe" /\ Sos!WipeNext /\ Alone
    \/ service = "reload" /\ Reload!Next /\ Alone
    \/ service = "store" /\ Store!Next /\ Alone
    \/ service = "shop" /\ Store!ShopNext /\ Alone
    \/ service = "files" /\ Files!Next /\ Alone
    \/ service = "display" /\ Ds!Next /\ Alone
    \/ service = "torch" /\ Sos!TorchNext /\ Alone
    \/ service = "portal" /\ Portal!Next /\ Alone
    \/ service = "gps" /\ Gps!GpsNext /\ Alone
    \/ service = "clock" /\ Gps!RtcNext /\ Alone
    \/ service = "battery" /\ Gps!BatteryNext /\ Alone
    \/ service = "motion" /\ Gps!ImuNext /\ Alone
    \/ service = "light" /\ Gps!LightNext /\ Alone
    \/ service = "panel" /\ Panel!DisplayNext /\ Alone
    \/ service = "sound" /\ Panel!AudioNext /\ Alone
    \/ service = "layout" /\ Look!LayoutNext /\ Alone
    \/ service = "scrolling" /\ Look!ScrollNext /\ Alone
    \/ service = "controls" /\ Look!ControlNext /\ Alone
    \/ service = "field" /\ Look!FieldNext /\ Alone
    \/ service = "label" /\ Look!LabelNext /\ Alone
    \/ service = "strip" /\ Look!StripNext /\ Alone
    \/ service = "settings" /\ Set!ScreenNext /\ Alone
    \/ service = "credentials" /\ Set!WifiNext /\ Alone
    \/ service = "update" /\ Set!UpdateNext /\ Alone

vars == <<service, burnVars, bookVars, netVars, bleVars, busVars, msgsVars,
          meshVars, tkVars, homeVars, notesVars, logsVars, sosVars, reloadVars, storeVars,
          shopVars, filesVars, dsVars, torchVars, portalVars,
          gpsVars, rtcVars, batteryVars, imuVars, lightVars,
          panelVars, soundVars, faultVars,
          lookVars,
          screenVars, wifiVars, updateVars>>

Spec == Init /\ [][Next]_vars

\* The receiver alone.
GpsSpec == Init /\ service = "gps" /\ [][Next]_vars

-----------------------------------------------------------------------------
\* The types of the state of every service.  Each property is one of the service at hand;
\* the others are as they were at the start.
ServicesTypeOK ==
    /\ service \in Services
    /\ service = "burning" => Burn!TypeOK
    /\ service = "contacts" => Book!TypeOK
    /\ service = "network" => Net!TypeOK
    /\ service \in {"bluetooth", "scanner"} => Ble!TypeOK
    /\ service = "events" => Bus!TypeOK
    /\ service = "ipc" => Msgs!TypeOK
    /\ service = "mesh" => Mesh!TypeOK
    /\ service = "toolkit" => Tk!TypeOK
    /\ service = "launcher" => Home!TypeOK
    /\ service = "notifications" => Notes!TypeOK
    /\ service \in {"logs", "track"} => Sos!LogTypeOK
    /\ service \in {"beacon", "wipe", "torch"} => Sos!TypeOK
    /\ service = "reload" => Reload!TypeOK
    /\ service = "store" => Store!TypeOK
    /\ service = "shop" => Store!ShopTypeOK
    /\ service = "files" => Files!TypeOK
    /\ service = "display" => Ds!TypeOK
    /\ service = "portal" => Portal!TypeOK
    /\ service \in {"gps", "clock", "battery", "motion", "light"} => Gps!TypeOK
    /\ service \in {"panel", "sound"} => Panel!TypeOK
    /\ service \in Looks => Look!TypeOK
    /\ service \in {"settings", "credentials", "update"} => Set!TypeOK

\* What the managers of the radios believe is what the chips do once they are at rest
\* (wifi_manager.rs, ble_manager.rs; main.rs of Recovery), and the scanner's count is that
\* of its slots.
RadiosAreBelieved ==
    /\ service = "network" => Net!BeliefSettles
    /\ service = "bluetooth" => Ble!LinkIsKnown
    /\ service = "scanner" => Ble!DevicesAreCounted
    /\ service = "portal" => Portal!ConnectionIsBelieved

\* A clean address book is the one in the file, and a message is opened by nobody but who
\* shares the channel with its sender (contact_manager.rs, msg_crypto.rs); the Wi-Fi
\* credentials last saved are those the next boot joins with (wifi_manager.rs).
SecretsAreKept ==
    /\ service = "contacts" => Book!CleanMeansSaved /\ Book!ChannelsAreOwn
    /\ service = "credentials" => Set!CredentialsSurvive

\* Messages of the event bus, the IPC queue and the mesh come out once, in order and where
\* they belong (event.rs, ipc.rs, mesh_manager.rs, tk_meshchat.rs).
MessagesArrive ==
    /\ service = "events" => Bus!EveryoneIsTold
    /\ service = "ipc" => Msgs!MessagesComeOut
    /\ service = "mesh" => Mesh!ChatIsOfItsPeer

\* The widgets are a tree, laid out without overlap and painted where they are hit; a press
\* calls the function its button had, and the focus is on a button that is shown, the app's
\* on a tree of its own; and a panel shows what it was sent, lit as it was set (tree.rs,
\* layout.rs, render.rs, input.rs, tk_wm.rs, tk_launcher.rs, tk_appstore.rs,
\* drv_lcd_*.rs, drv_oled_ssd1306.rs, drv_display_co5300.rs, drv_epaper_gdeq031t10.c).  Of
\* the screens of the settings one is shown, and no label that is gone is written
\* (settings_ui.c).
ScreensAreSound ==
    /\ service = "toolkit" => Tk!TreeIsSound /\ Tk!PressIsAnswered
    /\ service = "launcher" => Home!FocusIsSeen
    /\ service = "shop" => Store!OneScreen
    /\ service = "display" => Ds!ServerIsSound
    /\ service = "panel" => Panel!ScreenIsAsBelieved /\ Panel!PanelShowsThePicture
    /\ service = "layout" => Look!LayoutIsSound
    /\ service = "scrolling" => Look!LayoutIsSound /\ Look!ScrollStaysInContent
    /\ service = "controls" => Look!PaintStaysAtHome /\ Look!SliderFollowsFinger
    /\ service = "field" => Look!FieldCanBeDrawn
    /\ service = "label" => Look!WordsAreKept
    /\ service = "strip" => Look!StripIsOnAnApp
    /\ service = "settings" => Set!ScreensAgree

\* Entries of the store are items of its catalogue, a download that succeeds is whole, what
\* is installed was shown, no file of an app is lost by replacing it, and Recovery installs
\* whole bundles for the board they were asked for (appstore_client.rs, tk_appstore.rs,
\* syscall_table.rs, recovery_ota.rs); the device starts whole signed images, also when an
\* update from the card is cut short (ota.rs).
FilesAreWhole ==
    /\ service = "store" => Store!EntriesAreItems /\ Store!DownloadIsWhole
    /\ service = "shop" => Store!InstallsWhatWasShown
    /\ service = "files" => Files!NothingIsLost
    /\ service = "portal" => Portal!InstalledIsABundle /\ Portal!InstallsWhatWasAsked /\ Portal!PlanIsNoStricter
    /\ service = "update" => Set!UpdateIsSafe

\* Records are told apart and complete: notifications in the order of their urgency, rows
\* of a log as wide as its table, running drivers in theirs, a position that was copied
\* while nothing was half written of one sentence, a time as it was set, more charge for
\* more voltage, two sensors at one rate, a channel of sound in one configuration
\* (notification.rs, data_logger.rs, driver_reload.rs, drv_gps_mia_m10q.rs,
\* drv_rtc_pcf8563.rs, drv_power_tp4065b.rs, drv_accel_qmi8658.rs,
\* drv_audio_pcm5102a.rs).
RecordsAreWhole ==
    /\ service = "notifications" => Notes!ShownInOrder
    /\ service = "logs" => Sos!LogIsRectangular
    /\ service = "reload" => Reload!RunningIsKnown
    /\ service = "gps" => Gps!FixIsOfOneSentence /\ Gps!ToldFixesAreWhole
    /\ service = "clock" => Gps!ClockKeepsTime
    /\ service = "battery" => Gps!BatteryIsSound
    /\ service = "motion" => Gps!RatesAgree
    /\ service = "sound" => Panel!SoundIsSound

\* The beacon says when it is over, a wipe reports what it did, a message burns when it
\* should, the light goes out, and the portal shows a download just while there is one
\* (sos_beacon.rs, secure_wipe.rs, burn_timer.rs, tk_flashlight.rs, recovery_web.rs).
EndsAreReached ==
    /\ service = "beacon" => Sos!BeaconTellsItsEnd
    /\ service = "wipe" => Sos!WipeIsSound
    /\ service = "burning" => Burn!BurnsWhatItShould
    /\ service = "torch" => Sos!LightGoesOut
    /\ service = "portal" => Portal!StatusIsOfAJob /\ Portal!DoneMeansInstalled

\* What leaves the full list of notifications is wanted least (evict_if_needed).
LeastWantedGoes == Notes!LeastWantedGoes

\* What get_position gives is of one sentence, as drv_gps_mia_m10q.rs says of its updates:
\* "last_position updates mirror C portENTER_CRITICAL semantics".
PositionIsOfOneSentence == service = "gps" => Gps!PositionIsOfOneSentence
=============================================================================
