------------------------------ MODULE Settings ------------------------------
(***************************************************************************)
(* The Settings app (src/components/apps_builtin/settings/settings_ui.c)   *)
(* and what it starts in the kernel:                                       *)
(*   - its screens: the main list, a page over it, a driver's details over *)
(*     the page, with labels that timers refresh;                          *)
(*   - its Wi-Fi page: the dialog for a password, and the credentials that *)
(*     are saved in system.json and used at the next boot                  *)
(*     (components/kernel_rs/src/wifi_manager.rs, kernel_boot.rs);         *)
(*   - the update from the card (components/kernel_rs/src/ota.rs,          *)
(*     signing.rs, main/main.c).                                           *)
(* Callbacks and timers run on the task of LVGL; another task may destroy  *)
(* the app while one of them waits for the radio.                          *)
(***************************************************************************)
EXTENDS Integers, Sequences, FiniteSets, SequencesExt

CONSTANTS
    Drivers,   \* types of the drivers the HAL may have, in the order of the list
    MaxRows,   \* MAX_DRIVER_ROWS
    Networks,  \* networks in reach, as the radio lists them: ssid, open, key
    MaxOffers, \* WIFI_SCAN_MAX_RESULTS
    MaxDialogs, \* bound: dialogs open at once
    Typed,     \* passwords the user may type
    Configs,   \* what system.json may be at the start
    Updates,   \* what may be on the card as an update: image, sig
    Fits       \* for each OTA slot, the images that have room in it

VARIABLES
    root,      \* s_root: "none", "shown" or "hidden"
    listShown, \* s_main_list is not hidden
    subPage,   \* s_sub_screen: "none" or its title
    covered,   \* s_sub_screen is hidden by a detail screen
    detail,    \* s_detail_screen: "none" or the type of the driver
    current,   \* s_current_screen
    timersOn,  \* the timers that exist
    labels,    \* the groups of labels that have pointers
    rows,      \* the rows of the list of drivers
    hal,       \* drivers registered
    gpsState,  \* s_gps_enabled, what the receiver is, and if the two were driven apart
    waiting,   \* a callback of the Wi-Fi page waits for the radio
    misused    \* a label was written that had been deleted

screenVars == <<root, listShown, subPage, covered, detail, current, timersOn, labels, rows,
                hal, gpsState, waiting, misused>>

VARIABLES
    docs,      \* system.json on the card and in flash
    cardIn,    \* the card is in
    offers,    \* rows of the scan list
    dialogs,   \* networks named by the dialogs on the page, the last one covers the others
    ctx,       \* s_wifi_pwd_ctx: the ssid, and if its dialog and text area are set
    phase,     \* what the task does: "off", "page", "joining", "saving", "writing"
    target,    \* the network to join: as shown, as joined, the password meant and used, if that
               \* is in freed memory, and the file it came from or goes to
    kept,      \* for each place the credentials last saved there
    spoiled    \* a password was read from freed memory and was not there any more

wifiVars == <<docs, cardIn, offers, dialogs, ctx, phase, target, kept, spoiled>>

VARIABLES
    card,      \* the files of the update
    slots,     \* what each app slot holds
    otadata,   \* for each OTA slot its number in otadata, 0 without one, and its state
    running,   \* the slot that runs, "none" when the device is off
    before,    \* the image that ran before the one that is not confirmed yet
    stage      \* ota_apply_from_sd: "idle", "checked", or the open file and the target

updateVars == <<card, slots, otadata, running, before, stage>>

-----------------------------------------------------------------------------
(* The screens.                                                            *)

Pages == {"WiFi", "Bluetooth", "Appearance", "Drivers", "About"}
NoDriver == "none"

\* The widget a group of labels is on.
Exists(group) ==
    CASE group = "values" -> root # "none"
      [] group = "wifi" -> subPage = "WiFi"
      [] group = "ble" -> subPage = "Bluetooth"
      [] OTHER -> detail = group

\* settings_ui_create: a main timer left over is replaced.
Create ==
    /\ root = "none"
    /\ root' = "shown" /\ listShown' = TRUE
    /\ labels' = labels \cup {"values"}
    /\ current' = "main" /\ subPage' = "none" /\ detail' = NoDriver /\ covered' = FALSE
    /\ timersOn' = timersOn \cup {"main"}
    /\ UNCHANGED <<rows, hal, gpsState, waiting, misused>>

SetShown(state) ==
    /\ root \notin {"none", state}
    /\ root' = state
    /\ UNCHANGED <<listShown, subPage, covered, detail, current, timersOn, labels, rows, hal,
                   gpsState, waiting, misused>>
Show == SetShown("shown")
Hide == SetShown("hidden")

\* settings_ui_destroy, on whatever task destroys the app.
Destroy ==
    /\ root # "none"
    /\ timersOn' = {} /\ labels' = {}
    /\ root' = "none" /\ listShown' = FALSE /\ subPage' = "none" /\ detail' = NoDriver
    /\ covered' = FALSE /\ current' = "main" /\ rows' = <<>>
    /\ UNCHANGED <<hal, gpsState, waiting, misused>>

\* create_sub_screen
NewPage(title) == subPage' = title /\ covered' = FALSE /\ current' = title

OpenWifi == NewPage("WiFi") /\ labels' = labels \cup {"wifi"} /\ UNCHANGED rows
OpenBluetooth == NewPage("Bluetooth") /\ labels' = labels \cup {"ble"} /\ UNCHANGED rows
OpenAppearance == NewPage("Appearance") /\ UNCHANGED <<labels, rows>>
OpenAbout == NewPage("About") /\ UNCHANGED <<labels, rows>>

\* add_driver_row: no row without a place in the pool of payloads.
RowsOf(registered) ==
    LET list == SelectSeq(Drivers, LAMBDA d : d \in registered)
    IN  SubSeq(list, 1, IF Len(list) < MaxRows THEN Len(list) ELSE MaxRows)
OpenDrivers == NewPage("Drivers") /\ rows' = RowsOf(hal) /\ UNCHANGED labels

\* item_clicked_cb
ItemClicked(title) ==
    /\ root = "shown" /\ listShown /\ ~waiting
    /\ listShown' = FALSE
    /\ \/ title = "WiFi" /\ OpenWifi
       \/ title = "Bluetooth" /\ OpenBluetooth
       \/ title = "Appearance" /\ OpenAppearance
       \/ title = "Drivers" /\ OpenDrivers
       \/ title = "About" /\ OpenAbout
    /\ UNCHANGED <<root, detail, timersOn, hal, gpsState, waiting, misused>>

\* back_to_main
BackToMain ==
    /\ root = "shown" /\ subPage # "none" /\ ~covered /\ ~waiting
    /\ subPage' = "none" /\ listShown' = TRUE /\ current' = "main" /\ rows' = <<>>
    /\ labels' = labels \ {"wifi", "ble"}
    /\ UNCHANGED <<root, covered, detail, timersOn, hal, gpsState, waiting, misused>>

\* The details of a driver: two types have labels that a timer refreshes.
OpenGpsDetail == labels' = labels \cup {"gps"} /\ timersOn' = timersOn \cup {"gps"}
OpenPowerDetail == labels' = labels \cup {"power"} /\ timersOn' = timersOn \cup {"power"}
OpenDisplayDetail == UNCHANGED <<labels, timersOn>>
OpenPlainDetail == UNCHANGED <<labels, timersOn>>
RowClicked(i) ==
    /\ root = "shown" /\ subPage = "Drivers" /\ ~covered /\ i \in DOMAIN rows
    /\ covered' = TRUE /\ detail' = rows[i] /\ current' = "detail"
    /\ CASE rows[i] = "gps" -> OpenGpsDetail
         [] rows[i] = "power" -> OpenPowerDetail
         [] rows[i] = "display" -> OpenDisplayDetail
         [] OTHER -> OpenPlainDetail
    /\ UNCHANGED <<root, listShown, subPage, rows, hal, gpsState, waiting, misused>>

\* back_to_drivers
BackToDrivers ==
    /\ root = "shown" /\ detail # NoDriver
    /\ timersOn' = timersOn \ {"gps", "power"}
    /\ labels' = labels \ (timersOn \cap {"gps", "power"})
    /\ detail' = NoDriver /\ covered' = FALSE /\ current' = "Drivers"
    /\ UNCHANGED <<root, listShown, subPage, rows, hal, gpsState, waiting, misused>>

\* What the callback of a timer writes to: settings_main_update_timer with
\* ble_update_labels, gps_timer_cb, power_timer_cb.
MainWrites == CASE current = "Bluetooth" -> {"ble"} [] current = "main" -> {"values"} [] OTHER -> {}
GpsWrites == IF "gps" \in hal THEN {"gps"} ELSE {}
PowerWrites == IF "power" \in hal THEN {"power"} ELSE {}
Writes(timer) ==
    labels \cap CASE timer = "main" -> MainWrites
                  [] timer = "gps" -> GpsWrites
                  [] OTHER -> PowerWrites

Tick(timer) ==
    /\ timer \in timersOn /\ ~waiting
    /\ misused' = (misused \/ \E g \in Writes(timer) : ~Exists(g))
    /\ UNCHANGED <<root, listShown, subPage, covered, detail, current, timersOn, labels, rows,
                   hal, gpsState, waiting>>

\* wifi_scan_clicked_cb and the two callbacks that connect write labels, wait for the radio
\* and write them again if the pointers are still set.
RadioCall ==
    /\ root = "shown" /\ subPage = "WiFi" /\ ~waiting
    /\ waiting' = TRUE
    /\ misused' = (misused \/ ("wifi" \in labels /\ ~Exists("wifi")))
    /\ UNCHANGED <<root, listShown, subPage, covered, detail, current, timersOn, labels, rows,
                   hal, gpsState>>
RadioAnswers ==
    /\ waiting /\ waiting' = FALSE
    /\ misused' = (misused \/ ("wifi" \in labels /\ ~Exists("wifi")))
    /\ UNCHANGED <<root, listShown, subPage, covered, detail, current, timersOn, labels, rows,
                   hal, gpsState>>

\* gps_toggle_cb: what enable or disable return is ignored.
GpsToggle(works) ==
    /\ root = "shown" /\ detail = "gps"
    /\ gpsState' = [flag |-> ~gpsState.flag,
                    on |-> IF works THEN ~gpsState.flag ELSE gpsState.on,
                    apart |-> gpsState.apart \/ ~works]
    /\ UNCHANGED <<root, listShown, subPage, covered, detail, current, timersOn, labels, rows,
                   hal, waiting, misused>>

\* thistle_gps_enable: an app may turn the receiver on too.
AppTurnsGpsOn ==
    /\ "gps" \in hal
    /\ gpsState' = [gpsState EXCEPT !.on = TRUE, !.apart = @ \/ ~gpsState.flag]
    /\ UNCHANGED <<root, listShown, subPage, covered, detail, current, timersOn, labels, rows,
                   hal, waiting, misused>>

\* A driver is loaded while the app is open.
DriverLoaded(d) ==
    /\ d \in Range(Drivers) \ hal
    /\ hal' = hal \cup {d}
    /\ UNCHANGED <<root, listShown, subPage, covered, detail, current, timersOn, labels, rows,
                   gpsState, waiting, misused>>

ScreenNext ==
    \/ Create \/ Show \/ Hide \/ Destroy \/ BackToMain \/ BackToDrivers
    \/ \E title \in Pages : ItemClicked(title)
    \/ \E i \in 1 .. MaxRows : RowClicked(i)
    \/ \E timer \in {"main", "gps", "power"} : Tick(timer)
    \/ RadioCall \/ RadioAnswers \/ AppTurnsGpsOn
    \/ \E works \in BOOLEAN : GpsToggle(works)
    \/ \E d \in Range(Drivers) : DriverLoaded(d)

ScreenStart ==
    /\ root = "none" /\ listShown = FALSE /\ subPage = "none" /\ covered = FALSE
    /\ detail = NoDriver /\ current = "main" /\ timersOn = {} /\ labels = {} /\ rows = <<>>
    /\ hal = {} /\ gpsState = [flag |-> FALSE, on |-> FALSE, apart |-> FALSE]
    /\ waiting = FALSE /\ misused = FALSE

\* No timer or late answer writes to a label that is gone with its screen; of the list, the
\* page and the details one is to be seen, the one the state believes, with the rows of the
\* drivers; the switch of the GPS says what the receiver does, unless a call failed or an
\* app turned it on (settings_ui.c).
ScreensAgree ==
    /\ ~misused
    /\ root # "none" =>
          /\ Cardinality({s \in {"list", "page", "detail"} :
                CASE s = "list" -> listShown
                  [] s = "page" -> subPage # "none" /\ ~covered
                  [] OTHER -> detail # NoDriver}) = 1
          /\ current = CASE listShown -> "main" [] detail # NoDriver -> "detail" [] OTHER -> subPage
          /\ rows # <<>> => subPage = "Drivers"
    /\ gpsState.apart \/ gpsState.flag = gpsState.on

-----------------------------------------------------------------------------
(* The Wi-Fi page and the credentials.                                     *)

Places == {"card", "flash"}
NoWifi == [is |-> "none", on |-> "odd", ssid |-> "", pw |-> ""]
Missing == [is |-> "missing", nested |-> FALSE, inner |-> NoWifi, outer |-> NoWifi]
Nothing == [ssid |-> "", pw |-> ""]
NoTarget == [shown |-> "", ssid |-> "", meant |-> "", pw |-> "", freed |-> FALSE, place |-> ""]
NoContext == [ssid |-> "", live |-> FALSE]

\* system_json_path
Path == IF cardIn /\ docs["card"].is # "missing" THEN "card" ELSE "flash"

\* The object the credentials are read from and written to: of thistle_os if there is one.
Wifi(doc) == IF doc.nested THEN doc.inner ELSE doc.outer
Other(doc) == IF doc.nested THEN doc.outer ELSE doc.inner

\* valid_wifi_credentials; a password that is too long is the only wrong one here.
Valid(pw) == pw # "long"

\* update_wifi_object
Updated(doc, ssid, pw) ==
    LET new == [is |-> "object", on |-> "yes", ssid |-> ssid, pw |-> pw]
    IN  IF doc.nested THEN [doc EXCEPT !.inner = new] ELSE [doc EXCEPT !.outer = new]

\* parse_wifi_credentials: credentials, or Nothing to join.
Parsed(doc) ==
    LET wifi == Wifi(doc)
    IN  IF doc.is = "whole" /\ wifi.is = "object" /\ wifi.on = "yes" /\ wifi.ssid # "" /\ Valid(wifi.pw)
        THEN [ssid |-> wifi.ssid, pw |-> wifi.pw] ELSE Nothing

\* back_to_main and the page opened again.
PageLeft ==
    /\ phase = "page" /\ <<dialogs, offers>> # <<<<>>, {}>>
    /\ dialogs' = <<>> /\ offers' = {}
    /\ UNCHANGED <<docs, cardIn, ctx, phase, target, kept, spoiled>>

\* wifi_scan_clicked_cb, wifi_manager_scan: the first MaxOffers networks of the radio's list.
Scan(works) ==
    /\ phase = "page"
    /\ offers' = IF works THEN {Networks[i] : i \in {n \in DOMAIN Networks : n <= MaxOffers}} ELSE {}
    /\ UNCHANGED <<docs, cardIn, dialogs, ctx, phase, target, kept, spoiled>>

\* show_wifi_password_dialog: one context for all dialogs.
ShowDialog(net) ==
    /\ dialogs' = Append(dialogs, net.ssid)
    /\ ctx' = [ssid |-> net.ssid, live |-> TRUE]
    /\ UNCHANGED <<phase, target>>

\* wifi_network_clicked_cb; rows beside a dialog can be tapped.
NetworkClicked(net) ==
    /\ phase = "page" /\ net \in offers
    /\ IF net.open
       THEN /\ phase' = "joining"
            /\ target' = [NoTarget EXCEPT !.shown = net.ssid, !.ssid = net.ssid]
            /\ UNCHANGED <<dialogs, ctx>>
       ELSE Len(dialogs) < MaxDialogs /\ ShowDialog(net)
    /\ UNCHANGED <<docs, cardIn, offers, kept, spoiled>>

\* The device goes off, or restarts: the context is lost with the dialogs.
Off ==
    /\ phase' = "off" /\ dialogs' = <<>> /\ offers' = {} /\ ctx' = NoContext /\ target' = NoTarget

\* wifi_pwd_cancel_cb, wifi_pwd_connect_cb: the button of the dialog on top, the dialog of
\* the context.  A dialog below another has lost it: Cancel does nothing, Connect reads the
\* text of no text area.
CancelClicked ==
    /\ phase = "page" /\ dialogs # <<>> /\ ctx.live
    /\ dialogs' = Front(dialogs) /\ ctx' = [ctx EXCEPT !.live = FALSE]
    /\ UNCHANGED <<docs, cardIn, offers, phase, target, kept, spoiled>>

\* The password typed is a pointer into the text area, which goes before it is used.
ConnectClicked(text, used) ==
    /\ phase = "page" /\ dialogs # <<>>
    /\ IF ctx.live
       THEN /\ used \in {text, "junk"}
            /\ target' = [shown |-> Last(dialogs), ssid |-> ctx.ssid, freed |-> TRUE,
                          meant |-> text, pw |-> used, place |-> ""]
            /\ phase' = "joining"
            /\ dialogs' = Front(dialogs) /\ ctx' = [ctx EXCEPT !.live = FALSE]
            /\ UNCHANGED offers
       ELSE used = "junk" /\ Off
    /\ UNCHANGED <<docs, cardIn, kept, spoiled>>

\* wifi_manager_connect takes the first 64 characters of a password; "long" is one that
\* begins with the key.
Joins(net) == net.ssid = target.ssid /\ (net.open \/ target.pw \in {net.key, "long"})

\* The call returns.  Only the two callbacks of the page save, with the password as it is now.
JoinEnds(joined, used) ==
    /\ phase = "joining" /\ used \in {target.pw, "junk"}
    /\ joined => \E net \in Range(Networks) : Joins(net)
    /\ IF joined /\ target.place = ""
       THEN used = "junk" => target.freed
       ELSE used = target.pw
    /\ phase' = IF joined /\ target.place = "" THEN "saving" ELSE "page"
    /\ target' = IF joined /\ target.place = "" THEN [target EXCEPT !.pw = used] ELSE NoTarget
    /\ UNCHANGED <<docs, cardIn, offers, dialogs, ctx, kept, spoiled>>

\* wifi_manager_save_credentials, up to fs::write, which empties the file first.
Save ==
    /\ phase = "saving"
    /\ IF Valid(target.pw) /\ docs[Path].is = "whole" /\ Wifi(docs[Path]).is = "object"
       THEN /\ phase' = "writing"
            /\ target' = [target EXCEPT !.place = Path]
            /\ docs' = [docs EXCEPT ![Path].is = "torn"]
       ELSE phase' = "page" /\ target' = NoTarget /\ UNCHANGED docs
    /\ UNCHANGED <<cardIn, offers, dialogs, ctx, kept, spoiled>>

\* The write ends, or fails half-way; or the file could not be opened for writing.
NotOpened ==
    /\ phase = "writing"
    /\ docs' = [docs EXCEPT ![target.place].is = "whole"]
    /\ phase' = "page" /\ target' = NoTarget
    /\ UNCHANGED <<cardIn, offers, dialogs, ctx, kept, spoiled>>
Written(works) ==
    /\ phase = "writing" /\ (target.place = "card" /\ ~cardIn => ~works)
    /\ docs' = IF works
               THEN [docs EXCEPT ![target.place] =
                       [Updated(docs[target.place], target.ssid, target.pw) EXCEPT !.is = "whole"]]
               ELSE docs
    /\ kept' = IF works
               THEN [kept EXCEPT ![target.place] = [ssid |-> target.ssid, pw |-> target.meant]]
               ELSE kept
    /\ spoiled' = (spoiled \/ (works /\ target.pw # target.meant))
    /\ phase' = "page" /\ target' = NoTarget
    /\ UNCHANGED <<cardIn, offers, dialogs, ctx>>

PowerLost == phase # "off" /\ Off /\ UNCHANGED <<docs, cardIn, kept, spoiled>>

\* kernel_boot.rs, wifi_manager_auto_connect, if the radio has started.
Boot(started) ==
    /\ phase = "off"
    /\ LET found == Parsed(docs[Path])
       IN  IF started /\ found # Nothing
           THEN /\ phase' = "joining"
                /\ target' = [shown |-> found.ssid, ssid |-> found.ssid, meant |-> found.pw,
                              pw |-> found.pw, freed |-> FALSE, place |-> Path]
           ELSE phase' = "page" /\ UNCHANGED target
    /\ UNCHANGED <<docs, cardIn, offers, dialogs, ctx, kept, spoiled>>

CardMoved ==
    /\ cardIn' = ~cardIn
    /\ UNCHANGED <<docs, offers, dialogs, ctx, phase, target, kept, spoiled>>

WifiNext ==
    \/ PageLeft \/ CancelClicked \/ Save \/ NotOpened \/ PowerLost \/ CardMoved
    \/ \E net \in Range(Networks) : NetworkClicked(net)
    \/ \E used \in Typed \cup {"", "junk"} :
          \/ \E text \in Typed : ConnectClicked(text, used)
          \/ \E joined \in BOOLEAN : JoinEnds(joined, used)
    \/ \E works \in BOOLEAN : Scan(works) \/ Written(works) \/ Boot(works)

WifiStart ==
    /\ docs \in [Places -> Configs] /\ cardIn \in BOOLEAN
    /\ offers = {} /\ dialogs = <<>> /\ ctx = NoContext /\ phase = "off" /\ target = NoTarget
    /\ kept = [p \in Places |-> Nothing] /\ spoiled = FALSE

\* What was last saved in a whole file is what the user joined with and what the next boot
\* joins, in the object that is read, and no other one is changed; what is joined from a
\* dialog is the network the dialog names.  A password that was gone from the freed text
\* area before it was saved is out of it (settings_ui.c, wifi_manager.rs).
CredentialsSurvive ==
    /\ \A p \in Places :
          docs[p].is = "whole" =>
             /\ kept[p] # Nothing => spoiled \/ Parsed(docs[p]) = kept[p]
             /\ \E c \in Configs : c.nested = docs[p].nested /\ Other(c) = Other(docs[p])
    /\ phase = "joining" /\ target.place = "" => target.ssid = target.shown
    /\ phase = "joining" /\ target.place # "" /\ ~spoiled =>
          kept[target.place] \in {Nothing, [ssid |-> target.ssid, pw |-> target.pw]}

-----------------------------------------------------------------------------
(* The update from the card.                                               *)

Ota == {"ota_0", "ota_1"}
OtherSlot(slot) == IF slot = "ota_0" THEN "ota_1" ELSE "ota_0"
NoFile == [image |-> "none", sig |-> "none"]
Idle == [is |-> "idle", file |-> NoFile, to |-> "factory"]
Genuine == {"kernel", "recovery"} \cup {f.image : f \in {g \in Updates : g.sig = "good"}}

\* The bootloader: the last slot selected, unless its image has been given up; an image not
\* confirmed since the boot before is.
Boots(states, last) ==
    LET good(s) == states[s] \in {"new", "pending", "valid"}
    IN  IF good(last) THEN last ELSE IF good(OtherSlot(last)) THEN OtherSlot(last) ELSE "factory"
GivenUp(states) == [s \in Ota |-> IF states[s] = "pending" THEN "aborted" ELSE states[s]]
Starts == Boots(GivenUp(otadata.state), otadata.last)
Tried(states, slot) ==
    [s \in Ota |-> IF s = slot /\ states[s] = "new" THEN "pending" ELSE states[s]]

\* The running image is one that ota_init finds pending.
Unconfirmed == running \in Ota /\ otadata.state[running] = "pending"

StartUp ==
    /\ running = "none"
    /\ running' = Starts
    /\ otadata' = [otadata EXCEPT !.state = Tried(GivenUp(otadata.state), Starts)]
    /\ UNCHANGED <<card, slots, before, stage>>

ShutDown ==
    /\ running # "none" /\ running' = "none" /\ stage' = Idle
    /\ UNCHANGED <<card, slots, otadata, before>>

\* app_main after five healthy seconds: ota_mark_valid.
MarkValid ==
    /\ Unconfirmed
    /\ otadata' = [otadata EXCEPT !.state[running] = "valid"]
    /\ UNCHANGED <<card, slots, running, before, stage>>

\* install_update_cb up to the call of ota_apply_from_sd: a missing signature may pass here.
InstallClicked ==
    /\ running # "none" /\ stage = Idle
    /\ card.image = "none" \/ card.sig # "bad"
    /\ stage' = [Idle EXCEPT !.is = "checked"]
    /\ UNCHANGED <<card, slots, otadata, running, before>>

\* ota_apply_from_sd opens the file and begins with the slot after the running one, which
\* is erased.  esp_ota_begin refuses while the running image is not confirmed.
Target == IF running = "ota_0" THEN "ota_1" ELSE "ota_0"
Begin ==
    /\ stage.is = "checked"
    /\ IF card.image # "none" /\ card.sig \in {"good", "bad"} /\ ~Unconfirmed /\ card.image \in Fits[Target]
       THEN /\ stage' = [is |-> "open", file |-> card, to |-> Target]
            /\ slots' = [slots EXCEPT ![Target] = "torn"]
       ELSE stage' = Idle /\ UNCHANGED slots
    /\ UNCHANGED <<card, otadata, running, before>>

\* verify_exact_reader_with: the bytes that are written are those that are verified; the
\* file cannot be read on when the card was taken out.
Streamed(works) ==
    /\ stage.is = "open"
    /\ works => card = stage.file
    /\ IF works /\ stage.file.sig = "good"
       THEN /\ stage' = [stage EXCEPT !.is = "written"]
            /\ slots' = [slots EXCEPT ![stage.to] = stage.file.image]
       ELSE stage' = Idle /\ UNCHANGED slots
    /\ UNCHANGED <<card, otadata, running, before>>

\* esp_ota_end has accepted the image; esp_ota_set_boot_partition, esp_restart.
Selected(works) ==
    /\ stage.is = "written"
    /\ stage' = Idle
    /\ IF works
       THEN /\ otadata' = [last |-> stage.to, state |-> [otadata.state EXCEPT ![stage.to] = "new"]]
            /\ before' = slots[running] /\ running' = "none"
       ELSE UNCHANGED <<otadata, before, running>>
    /\ UNCHANGED <<card, slots>>

CardChanged(file) ==
    /\ card # file /\ card' = file
    /\ UNCHANGED <<slots, otadata, running, before, stage>>

UpdateNext ==
    \/ StartUp \/ ShutDown \/ MarkValid \/ InstallClicked \/ Begin
    \/ \E works \in BOOLEAN : Streamed(works) \/ Selected(works)
    \/ \E file \in Updates \cup {NoFile} : CardChanged(file)

\* A device as flashed, and one whose kernel Recovery has installed.
UpdateStart ==
    /\ card = NoFile /\ running = "none" /\ stage = Idle /\ before = "kernel"
    /\ \/ /\ slots = [factory |-> "kernel", ota_0 |-> "recovery", ota_1 |-> "none"]
          /\ otadata = [last |-> "ota_1", state |-> [s \in Ota |-> "none"]]
       \/ /\ slots = [factory |-> "kernel", ota_0 |-> "recovery", ota_1 |-> "kernel"]
          /\ otadata = [last |-> "ota_1", state |-> [ota_0 |-> "none", ota_1 |-> "valid"]]

\* Whatever is done to the card and whenever the power goes, the device starts an image
\* that is whole and was signed, and one that is not confirmed yet is given up for the one
\* that ran before (settings_ui.c, ota.rs, main.c).
UpdateIsSafe ==
    /\ slots[Starts] \in Genuine
    /\ running # "none" => slots[running] \in Genuine
    /\ Unconfirmed => slots[Starts] = before

-----------------------------------------------------------------------------
Init == ScreenStart /\ WifiStart /\ UpdateStart

\* The three parts have no state in common.
Next ==
    \/ ScreenNext /\ UNCHANGED <<wifiVars, updateVars>>
    \/ WifiNext /\ UNCHANGED <<screenVars, updateVars>>
    \/ UpdateNext /\ UNCHANGED <<screenVars, wifiVars>>

vars == <<screenVars, wifiVars, updateVars>>
Spec == Init /\ [][Next]_vars

\* The types of the state.
TypeOK ==
    /\ root \in {"none", "shown", "hidden"} /\ {listShown, covered, waiting, misused} \subseteq BOOLEAN
    /\ subPage \in Pages \cup {"none"} /\ detail \in Range(Drivers) \cup {NoDriver}
    /\ current \in Pages \cup {"main", "detail"} /\ timersOn \subseteq {"main", "gps", "power"}
    /\ labels \subseteq {"values", "wifi", "ble", "gps", "power"} /\ Len(rows) <= MaxRows
    /\ phase \in {"off", "page", "joining", "saving", "writing"} /\ offers \subseteq Range(Networks)
    /\ \A p \in Places : docs[p].is \in {"missing", "torn", "whole"} /\ kept[p].pw # "junk"
    /\ running \in {"none", "factory"} \cup Ota /\ stage.is \in {"idle", "checked", "open", "written"}
=============================================================================
