--------------------------- MODULE RecoveryPortal ---------------------------
(***************************************************************************)
(* Recovery's portal: the page that a browser shows (recovery_web.rs), the *)
(* handlers of its requests, which run in the task of the web server, the  *)
(* main loop that connects and installs (main.rs), and the download of a   *)
(* bundle (recovery_ota.rs, artifact_manifest.rs).  What installs the      *)
(* files that were downloaded is BundleInstall.                            *)
(***************************************************************************)
EXTENDS Integers, Sequences, FiniteSets

CONSTANTS
    Pages,     \* the browsers that show the page
    Known,     \* the boards of this chip in KNOWN_BOARDS
    Listed,    \* those of the catalogue of boards
    Networks,  \* the networks a user may enter
    Catalogs,  \* the catalogues of artifacts the server may have, as sequences
    Chip,
    Floor,     \* the security version of the firmware that was installed last
    MaxNonce,  \* bound on the requests of a page
    MaxInFlight \* bound on the requests that are under way

VARIABLES
    session,   \* RecoverySession: whether it is active, and the last nonce it took
    wifi,      \* RecoveryState: the request for a network, and whether one is connected
    link,      \* the network Wi-Fi is connected to
    connecting, \* the network the main loop connects to
    board,     \* RecoveryState: the board that is selected
    bundle,    \* RecoveryState: the request for a bundle, the status and the items
    job,       \* the download in progress
    staged,    \* what is in the directory of downloads
    asked,     \* history: the board that was selected when the bundle was asked for
    switched,  \* history: it was selected anew before the main loop saw the request
    installed, \* history: the last bundle that was installed
    page,      \* what each browser shows
    inFlight,  \* the requests that are under way
    power      \* "restarting": a second later it is "off"

state == <<session, wifi, link, connecting, board, bundle>>
work == <<job, staged, asked, switched, installed>>
vars == <<session, wifi, link, connecting, board, bundle, job, staged, asked,
          switched, installed, page, inFlight, power>>

Boards == Known \cup Listed
Types == {"firmware", "board", "driver", "wm"}
Statuses == {"idle", "downloading", "complete", "error"}
NoJob == [phase |-> "none", board |-> "none", todo |-> <<>>]
Closed == [token |-> FALSE, nonce |-> 1, chosen |-> "none", shows |-> "closed"]

Up == power # "off"

TypeOK ==
    /\ session \in [active : BOOLEAN, last : 0..MaxNonce]
    /\ wifi \in [request : Networks \cup {"none"}, connected : BOOLEAN]
    /\ link \in Networks \cup {"none", "lost"} /\ connecting \in Networks \cup {"none"}
    /\ board \in Boards \cup {"none"} /\ asked \in Boards \cup {"none"}
    /\ bundle \in [request : BOOLEAN, status : Statuses, items : Nat]
    /\ job.phase \in {"none", "catalog", "files", "install"}
    /\ page \in [Pages -> [token : BOOLEAN, nonce : 1..(MaxNonce + 1), chosen : Boards \cup {"none"},
                           shows : {"closed", "choice", "asking", "polling", "done"}]]
    /\ switched \in BOOLEAN /\ power \in {"on", "restarting", "off"}

Init ==
    /\ session = [active |-> TRUE, last |-> 0]
    /\ wifi = [request |-> "none", connected |-> FALSE] /\ link = "none" /\ connecting = "none"
    /\ board = "none" /\ bundle = [request |-> FALSE, status |-> "idle", items |-> 0]
    /\ job = NoJob /\ staged = <<>> /\ asked = "none" /\ switched = FALSE
    /\ installed = [board |-> "none", artifacts |-> <<>>]
    /\ page = [p \in Pages |-> Closed] /\ inFlight = {} /\ power = "on"

-----------------------------------------------------------------------------
\* The page.  authFetch numbers the requests as they are made; the browser may send them
\* over several connections, so that they arrive in another order.
Request(p, kind, argument, n) ==
    [page |-> p, kind |-> kind, argument |-> argument, nonce |-> n, token |-> page[p].token]

AuthFetch(p, kind, argument, after) ==
    /\ page[p].nonce <= MaxNonce /\ Cardinality(inFlight) < MaxInFlight
    /\ inFlight' = inFlight \cup {Request(p, kind, argument, page[p].nonce)}
    /\ page' = [page EXCEPT ![p] = [after EXCEPT !.nonce = page[p].nonce + 1]]
    /\ UNCHANGED <<state, work, power>>

\* GET / hands out the token and a nonce; the page then asks for the status and for the
\* boards, and selects again the board that is selected.
ShowsJob ==
    CASE bundle.status = "downloading" -> "polling"
      [] bundle.status = "complete" -> "done"
      [] OTHER -> "choice"

Loaded ==
    [token |-> session.active, nonce |-> session.last + 1, chosen |-> board, shows |-> ShowsJob]

LoadPage(p) ==
    /\ Up /\ session.last < MaxNonce /\ Cardinality(inFlight) < MaxInFlight
    /\ IF board = "none"
       THEN page' = [page EXCEPT ![p] = Loaded] /\ UNCHANGED inFlight
       ELSE /\ inFlight' = inFlight \cup
                   {[page |-> p, kind |-> "select", argument |-> board,
                     nonce |-> session.last + 1, token |-> session.active]}
            /\ page' = [page EXCEPT ![p] = [Loaded EXCEPT !.nonce = session.last + 2]]
    /\ UNCHANGED <<state, work, power>>

\* While Wi-Fi is connected, initBoards, checkInitialStatus, setWifiDone and refreshBoards
\* call one another: the page asks for the boards and the status again and again, takes the
\* device's board for what the user picked, and selects it once more.
RefreshBoards(p) ==
    /\ Up /\ page[p].shows # "closed" /\ wifi.connected /\ board # "none"
    /\ AuthFetch(p, "select", board,
                 [page[p] EXCEPT !.chosen = board,
                                 !.shows = IF ShowsJob = "choice" THEN @ ELSE ShowsJob])

\* What catalog_board_options_json may give: the boards of this chip, if there are any.
CatalogOptions == IF wifi.connected THEN {Listed} \ {{}} ELSE {}

\* /api/boards: those of the catalogue, if it comes and lists any, or the known ones.
Offers == {Known} \cup CatalogOptions

PickBoard(p) ==
    /\ Up /\ page[p].shows # "closed"
    /\ \E offer \in Offers : \E b \in offer : page' = [page EXCEPT ![p].chosen = b]
    /\ UNCHANGED <<state, work, inFlight, power>>

ConnectWifi(p) ==
    /\ page[p].shows # "closed"
    /\ \E n \in Networks : AuthFetch(p, "wifi", n, page[p])

\* selectBoard and planInstall both select what was picked.
SelectBoard(p) ==
    /\ page[p].shows # "closed" /\ page[p].chosen # "none"
    /\ AuthFetch(p, "select", page[p].chosen, page[p])

StartInstall(p) ==
    /\ page[p].shows = "choice"
    /\ AuthFetch(p, "download", "none", [page[p] EXCEPT !.shows = "asking"])

\* /api/bundle/status, every second
PollBundle(p) ==
    /\ Up /\ page[p].shows = "polling" /\ bundle.status \in {"complete", "error"}
    /\ page' = [page EXCEPT ![p].shows = IF bundle.status = "complete" THEN "done" ELSE "choice"]
    /\ UNCHANGED <<state, work, inFlight, power>>

\* confirmReboot, and the end of the countdown of setInstallDone
AskReboot(p) ==
    /\ page[p].shows # "closed"
    /\ AuthFetch(p, "reboot", "none", page[p])

-----------------------------------------------------------------------------
\* RecoverySession::authorize
Refusal(r) ==
    IF ~session.active THEN "expired"
    ELSE IF ~r.token THEN "unauthorized"
    ELSE IF r.nonce <= session.last THEN "replay"
    ELSE "none"

\* The answer to a download is what the page goes on with; a lost one is an error to it.
Answered(r, ok) ==
    IF r.kind = "download" /\ page[r.page].shows = "asking"
    THEN page' = [page EXCEPT ![r.page].shows = IF ok THEN "polling" ELSE "choice"]
    ELSE UNCHANGED page

Refuse(r) ==
    /\ Refusal(r) # "none"
    /\ Answered(r, FALSE)
    /\ UNCHANGED <<session, wifi, link, connecting, board, bundle, work, power>>

\* authorize_mutation
Authorize(r) == Refusal(r) = "none" /\ session' = [session EXCEPT !.last = r.nonce]

HandleWifi(r) ==
    /\ r.kind = "wifi" /\ Authorize(r)
    /\ wifi' = [request |-> r.argument, connected |-> FALSE]
    /\ UNCHANGED <<link, connecting, board, bundle, work, page, power>>

\* catalog_contains_board; the catalogue may not come.
IsListed(b) == wifi.connected /\ b \in Listed

BoardIsSelectable(b) == b \in Known \/ IsListed(b)

HandleSelect(r) ==
    /\ r.kind = "select" /\ Authorize(r)
    /\ \/ /\ BoardIsSelectable(r.argument) /\ board' = r.argument
          /\ switched' = (switched \/ (bundle.request /\ r.argument # board))
       \/ r.argument \notin Known /\ UNCHANGED <<board, switched>>
    /\ UNCHANGED <<wifi, link, connecting, bundle, job, staged, asked, installed, page, power>>

HandleDownload(r) ==
    /\ r.kind = "download" /\ Authorize(r)
    /\ \/ /\ board # "none" /\ bundle.status # "downloading"
          /\ bundle' = [bundle EXCEPT !.request = TRUE, !.status = "downloading"]
          /\ asked' = board /\ switched' = FALSE
          /\ \E heard \in BOOLEAN : Answered(r, heard)
       \/ /\ board = "none" \/ bundle.status = "downloading"
          /\ UNCHANGED <<bundle, asked, switched>> /\ Answered(r, FALSE)
    /\ UNCHANGED <<wifi, link, connecting, board, job, staged, installed, power>>

\* The session ends, and a thread restarts the device a second later, whatever it is doing.
HandleReboot(r) ==
    /\ r.kind = "reboot" /\ Refusal(r) = "none"
    /\ session' = [active |-> FALSE, last |-> r.nonce] /\ power' = "restarting"
    /\ UNCHANGED <<wifi, link, connecting, board, bundle, work, page>>

Restart ==
    /\ power = "restarting" /\ power' = "off"
    /\ UNCHANGED <<state, work, page, inFlight>>

Handle(r) ==
    /\ Up /\ inFlight' = inFlight \ {r}
    /\ Refuse(r) \/ HandleWifi(r) \/ HandleSelect(r) \/ HandleDownload(r) \/ HandleReboot(r)

\* The network loses a request, and the page shows an error.
LoseRequest(r) ==
    /\ inFlight' = inFlight \ {r} /\ Answered(r, FALSE)
    /\ UNCHANGED <<state, work, power>>

\* Thirty minutes after the start, the session is over for good.
Expire ==
    /\ Up /\ session.active /\ session' = [session EXCEPT !.active = FALSE]
    /\ UNCHANGED <<wifi, link, connecting, board, bundle, work, page, inFlight, power>>

-----------------------------------------------------------------------------
\* The main loop, one thing at a time: a network first, then a bundle.
Idle == Up /\ connecting = "none" /\ job = NoJob

TakeWifiRequest ==
    /\ Idle /\ wifi.request # "none"
    /\ connecting' = wifi.request /\ wifi' = [wifi EXCEPT !.request = "none"]
    /\ UNCHANGED <<session, link, board, bundle, work, page, inFlight, power>>

\* do_wifi_connect: the new configuration ends the connection there was; a station that
\* gets its address after the wait is over goes unnoticed.
WifiConnected ==
    /\ Up /\ connecting # "none"
    /\ \/ link' = connecting /\ wifi' = [wifi EXCEPT !.connected = TRUE]
       \/ link' \in {connecting, "none"} /\ wifi' = [wifi EXCEPT !.connected = FALSE]
    /\ connecting' = "none"
    /\ UNCHANGED <<session, board, bundle, work, page, inFlight, power>>

\* (mutant: a failed connect leaves the flag as it is)
WifiConnectedMutant ==
    /\ Up /\ connecting # "none"
    /\ \/ link' = connecting /\ wifi' = [wifi EXCEPT !.connected = TRUE]
       \/ link' \in {connecting, "none"} /\ UNCHANGED wifi
    /\ connecting' = "none"
    /\ UNCHANGED <<session, board, bundle, work, page, inFlight, power>>

\* Nobody tells the main loop that a network went away.
LoseNetwork ==
    /\ link \in Networks /\ link' = "lost"
    /\ UNCHANGED <<session, wifi, connecting, board, bundle, work, page, inFlight, power>>

TakeBundleRequest ==
    /\ Idle /\ bundle.request /\ bundle' = [bundle EXCEPT !.request = FALSE]
    /\ job' = [phase |-> "catalog", board |-> board, todo |-> <<>>]
    /\ UNCHANGED <<session, wifi, link, connecting, board, staged, asked, switched,
                   installed, page, inFlight, power>>

-----------------------------------------------------------------------------
\* The download.  An artifact of the catalogue is a signed manifest and what its URL
\* serves: "declared" is the length the server gives, -1 for none.

\* validate_framing
IsFramed(declared, max) == declared # -1 => declared <= max

\* BodyLimit: a body as long as declared, and not longer than allowed.
BodyIsTaken(declared, sent, max) ==
    sent <= max /\ (declared # -1 => sent = declared)

\* http_get_to_file
IsReceived(a) == IsFramed(a.declared, a.size) /\ BodyIsTaken(a.declared, a.sent, a.size)

\* download_verified_payload: the right length and the right hash.
PayloadIsTaken(a) == IsReceived(a) /\ a.sent = a.size /\ a.genuine

\* (mutant: a body without a declared length is not counted)
PayloadIsTakenMutant(a) == IsReceived(a) /\ (a.sent = a.size => a.genuine)

\* validate_shape, and the canonical form that parse compares with
HasShape(a) == a.boards # {} /\ a.size > 0 /\ a.version > 0
Parses(a) == a.canonical /\ HasShape(a)

\* fetch_verified_manifests gives up at the first entry that is not signed, not canonical,
\* or at odds with the catalogue, for whatever board it is.
ManifestIsValid(a) == a.signed /\ Parses(a) /\ a.agrees

\* expected_destination
Destination(a) == IF a.type = "firmware" THEN <<"ota_1">> ELSE <<a.type, a.id>>

IsFor(a, b) == a.arch = Chip /\ b \in a.boards /\ (a.type = "board" => a.id = b)
Selected(c, b) == SelectSeq(c, LAMBDA a : IsFor(a, b))
Of(s, type) == {i \in DOMAIN s : s[i].type = type}

\* anti_rollback::require_newer
IsNewer(a) == a.version > Floor

\* recovery_bundle_plan_json, the dry run: one firmware, which is newer.
PlanAccepts(c, b) ==
    LET s == Selected(c, b)
    IN  /\ \A i \in DOMAIN c : ManifestIsValid(c[i])
        /\ Cardinality(Of(s, "firmware")) = 1
        /\ \A i \in Of(s, "firmware") : IsNewer(s[i])

\* The same of recovery_download_board_bundle_for, which wants a board profile as well.
BundleIsAccepted(c, b) ==
    LET s == Selected(c, b)
    IN  /\ \A i \in DOMAIN c : ManifestIsValid(c[i])
        /\ Cardinality(Of(s, "firmware")) = 1 /\ Cardinality(Of(s, "board")) = 1
        /\ \A i \in Of(s, "firmware") : IsNewer(s[i])

DownloadState == <<session, wifi, link, connecting, board, asked, switched, page, inFlight, power>>

\* DownloadStage is emptied when it is made and when it is dropped.
EmptyStage == staged' = <<>>

\* The error of whatever step; the directory goes with it.
JobFails ==
    /\ Up /\ job # NoJob
    /\ bundle' = [bundle EXCEPT !.status = "error", !.items = 0]
    /\ job' = NoJob /\ EmptyStage
    /\ UNCHANGED <<DownloadState, installed>>

FetchCatalog ==
    /\ Up /\ job.phase = "catalog" /\ link \in Networks
    /\ \E c \in Catalogs :
        /\ BundleIsAccepted(c, job.board)
        /\ job' = [job EXCEPT !.phase = "files", !.todo = Selected(c, job.board)]
    /\ EmptyStage
    /\ UNCHANGED <<DownloadState, bundle, installed>>

FetchArtifact ==
    /\ Up /\ job.phase = "files" /\ job.todo # <<>> /\ link \in Networks
    /\ LET a == Head(job.todo)
       IN  /\ \A i \in DOMAIN staged : Destination(staged[i]) # Destination(a)
           /\ PayloadIsTaken(a)
           /\ staged' = Append(staged, a)
    /\ job' = [job EXCEPT !.todo = Tail(job.todo)]
    /\ UNCHANGED <<DownloadState, bundle, installed>>

\* bundle_transaction::install with the files and the firmware, and what the main loop
\* notes of it.
InstallBundle ==
    /\ Up /\ job.phase = "files" /\ job.todo = <<>>
    /\ installed' = [board |-> job.board, artifacts |-> staged]
    /\ bundle' = [bundle EXCEPT !.status = "complete", !.items = Len(staged)]
    /\ job' = NoJob /\ EmptyStage
    /\ UNCHANGED DownloadState

-----------------------------------------------------------------------------
Next ==
    \/ \E p \in Pages :
        \/ LoadPage(p) \/ RefreshBoards(p) \/ PickBoard(p) \/ ConnectWifi(p) \/ SelectBoard(p)
        \/ StartInstall(p) \/ PollBundle(p) \/ AskReboot(p)
    \/ \E r \in inFlight : Handle(r) \/ LoseRequest(r)
    \/ Restart \/ Expire \/ LoseNetwork
    \/ TakeWifiRequest \/ WifiConnected \/ TakeBundleRequest
    \/ FetchCatalog \/ FetchArtifact \/ InstallBundle \/ JobFails

Spec == Init /\ [][Next]_vars

-----------------------------------------------------------------------------
\* A bundle is shown to be downloading just while the main loop has it or will take it, so
\* that no page waits for nothing and no request is refused for nothing (recovery_web.rs
\* download handler, main.rs poll_web_state).
StatusIsOfAJob == bundle.status = "downloading" <=> (bundle.request \/ job # NoJob)

\* What is installed is for the board that was selected when it was asked for, unless
\* another was selected before the main loop saw the request (poll_web_state takes the
\* board with the request and never again).
InstallsWhatWasAsked == job # NoJob /\ ~switched => job.board = asked

\* A bundle that was installed has one firmware, newer than the floor, one profile of the
\* board it was for, every artifact once, as it was signed, and none for another board or
\* chip, whatever the server sent (recovery_download_board_bundle_for).
InstalledIsABundle ==
    LET s == installed.artifacts
    IN  s # <<>> =>
        /\ Cardinality(Of(s, "firmware")) = 1 /\ \A i \in Of(s, "firmware") : IsNewer(s[i])
        /\ Cardinality(Of(s, "board")) = 1 /\ \A i \in Of(s, "board") : s[i].id = installed.board
        /\ \A i \in DOMAIN s :
            /\ IsFor(s[i], installed.board) /\ ManifestIsValid(s[i])
            /\ s[i].sent = s[i].size /\ s[i].genuine
        /\ \A i, j \in DOMAIN s : Destination(s[i]) = Destination(s[j]) => i = j

\* Once the main loop has served every request, the device says that it is connected only
\* if its last connect succeeded; that the network went away later it does not notice.
ConnectionIsBelieved ==
    wifi.connected /\ wifi.request = "none" /\ connecting = "none" => link # "none"

\* A page that counts down to the restart saw a bundle that was installed (setInstallDone).
DoneMeansInstalled == \A p \in Pages : page[p].shows = "done" => installed.board # "none"

\* The dry run refuses nothing that the installation would take.
PlanIsNoStricter ==
    \A c \in Catalogs, b \in Boards : BundleIsAccepted(c, b) => PlanAccepts(c, b)
=============================================================================
