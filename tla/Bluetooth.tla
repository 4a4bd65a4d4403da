----------------------------- MODULE Bluetooth -----------------------------
(***************************************************************************)
(* The Bluetooth link of the companion                                     *)
(* (src/components/kernel_rs/src/ble_manager.rs with                       *)
(* src/components/kernel/src/ble_security_shim.c, used by the toggle of    *)
(* the settings and by the messenger) and the scanner of devices           *)
(* (ble_scanner.rs).  The host stack's task calls back while another task  *)
(* calls in.                                                               *)
(***************************************************************************)
EXTENDS Integers, Sequences, FiniteSets, SequencesExt, FiniteSetsExt

CONSTANTS
    Peers,       \* companions, each with its connection
    Addrs,       \* addresses a scan may hear
    MaxDevices,  \* slots of the scanner, MAX_DEVICES
    MaxRssi      \* bound on the strength of a signal, from 1 on

VARIABLES
    conns,      \* the host stack's connections, and whether each is authenticated
    onAir,      \* the host stack advertises
    passkey,    \* a pairing code is shown
    state,      \* the manager's state
    handle,     \* its connection handle
    callback,   \* the receiver is registered
    running,    \* ble_manager_init has succeeded
    toggle,     \* what the task of the settings is in the middle of
    overwritten,\* the state was written over with another while a peer was connected
    received,   \* connections whose data was handed to the receiver
    devices,    \* the scanner's slots
    deviceCount,\* and its count of them
    scanning,   \* the scanner believes it scans
    filter      \* the weakest signal it takes

host == <<conns, onAir, passkey>>
manager == <<state, handle, callback, running>>
user == <<toggle, overwritten, received>>
scanner == <<devices, deviceCount, scanning, filter>>
vars == <<host, manager, user, scanner>>

Device == [addr : Addrs, rssi : 1 .. MaxRssi]
NoDevice == [addr |-> "none", rssi |-> 0]
Slots == 1 .. MaxDevices
Held == {s \in Slots : devices[s] # NoDevice}

TypeOK ==
    /\ conns \subseteq [peer : Peers, auth : BOOLEAN]
    /\ onAir \in BOOLEAN /\ passkey \in BOOLEAN /\ callback \in BOOLEAN /\ running \in BOOLEAN
    /\ state \in {"off", "advertising", "connected"} /\ handle \in Peers \cup {"none"}
    /\ toggle \in {"idle", "starts", "started", "stops"} /\ overwritten \in BOOLEAN
    /\ received \subseteq [peer : Peers, auth : BOOLEAN]
    /\ \A s \in Slots : devices[s] \in Device \cup {NoDevice}
    /\ deviceCount \in 0 .. MaxDevices /\ scanning \in BOOLEAN /\ filter \in 0 .. MaxRssi

Init ==
    /\ conns = {} /\ onAir = FALSE /\ passkey = FALSE
    /\ state = "off" /\ handle = "none" /\ callback = FALSE /\ running = FALSE
    /\ toggle = "idle" /\ overwritten = FALSE /\ received = {}
    /\ devices = [s \in Slots |-> NoDevice] /\ deviceCount = 0 /\ scanning = FALSE /\ filter = 0

-----------------------------------------------------------------------------
\* ble_manager_init: the settings guard it with a flag of their own.
InitBle ==
    /\ ~running /\ running' = TRUE /\ state' = "off" /\ handle' = "none"
    /\ UNCHANGED <<host, callback, user, scanner>>

\* gap_event_cb: a connection ends the advertising.
PeerConnects(p) ==
    /\ onAir /\ \A c \in conns : c.peer # p
    /\ conns' = conns \cup {[peer |-> p, auth |-> FALSE]} /\ onAir' = FALSE
    /\ state' = "connected" /\ handle' = p /\ overwritten' = FALSE
    /\ UNCHANGED <<passkey, callback, running, toggle, received, scanner>>

\* A connection that fails is answered by advertising on, as far as the stack lets it.
PeerFails ==
    /\ onAir /\ onAir' \in BOOLEAN
    /\ UNCHANGED <<conns, passkey, manager, user, scanner>>

\* (mutant: the state is left to the settings)
PeerLeavesMutant(c) ==
    /\ c \in conns /\ conns' = conns \ {c}
    /\ passkey' = FALSE /\ onAir' \in {onAir, TRUE}
    /\ overwritten' = (conns' # {})
    /\ UNCHANGED <<manager, toggle, received, scanner>>

\* The state says off although the host advertises again, and whoever else is connected.
PeerLeaves(c) ==
    /\ c \in conns /\ conns' = conns \ {c}
    /\ passkey' = FALSE /\ onAir' \in {onAir, TRUE}
    /\ state' = "off" /\ handle' = "none" /\ overwritten' = (conns' # {})
    /\ UNCHANGED <<callback, running, toggle, received, scanner>>

\* thistle_ble_security_handle_event, and what the pairing comes to.
ShowPasskey(c) ==
    /\ c \in conns /\ ~c.auth /\ passkey' = TRUE
    /\ UNCHANGED <<conns, onAir, manager, user, scanner>>

Authenticate(c) ==
    /\ c \in conns /\ conns' = (conns \ {c}) \cup {[peer |-> c.peer, auth |-> TRUE]}
    /\ UNCHANGED <<onAir, passkey, manager, user, scanner>>

\* nus_rx_access_cb: the data of an authenticated connection that is the current one.
Accepts(c) == c.auth /\ state = "connected" /\ handle = c.peer

Receive(c) ==
    /\ c \in conns /\ Accepts(c) /\ callback
    /\ received' = received \cup {c}
    /\ UNCHANGED <<host, manager, toggle, overwritten, scanner>>

\* The toggle of the settings: the state is read, the host is told, the state is set.  Peers
\* come and go in between.
ToggleOn ==
    /\ toggle = "idle" /\ running /\ state = "off" /\ toggle' = "starts"
    /\ UNCHANGED <<host, manager, overwritten, received, scanner>>

\* The host starts, connected or not, or refuses: it advertises already or has no room.
StartAdvertising ==
    /\ toggle = "starts"
    /\ \/ ~onAir /\ onAir' = TRUE /\ toggle' = "started"
       \/ UNCHANGED onAir /\ toggle' = "idle"
    /\ UNCHANGED <<conns, passkey, manager, overwritten, received, scanner>>

StopAdvertising ==
    /\ toggle = "idle" /\ running /\ state = "advertising"
    /\ toggle' = "stops"
    /\ UNCHANGED <<host, manager, overwritten, received, scanner>>

SetState ==
    /\ toggle \in {"started", "stops"} /\ toggle' = "idle"
    /\ state' = IF toggle = "started" THEN "advertising" ELSE "off"
    /\ onAir' = (onAir /\ toggle = "started")
    /\ overwritten' = (conns # {})
    /\ UNCHANGED <<conns, passkey, handle, callback, running, received, scanner>>

Disconnect(c) ==
    /\ toggle = "idle" /\ state = "connected" /\ handle = c.peer /\ PeerLeaves(c)

\* The messenger listens only over a link that is up.
SetCallback ==
    /\ callback' \in BOOLEAN /\ (callback' => state = "connected")
    /\ UNCHANGED <<host, state, handle, running, user, scanner>>

LinkNext ==
    \/ InitBle \/ PeerFails \/ ToggleOn \/ StartAdvertising \/ StopAdvertising \/ SetState
    \/ SetCallback
    \/ \E p \in Peers : PeerConnects(p)
    \/ \E c \in conns : PeerLeaves(c) \/ ShowPasskey(c) \/ Authenticate(c) \/ Receive(c) \/ Disconnect(c)

-----------------------------------------------------------------------------
Others == <<host, manager, user>>

InitScanner ==
    /\ devices' = [s \in Slots |-> NoDevice] /\ deviceCount' = 0 /\ scanning' = FALSE /\ filter' = 0
    /\ UNCHANGED Others

\* A scan that runs is not started again; the end of a timed scan is not noticed.
Start == ~scanning /\ scanning' = TRUE /\ UNCHANGED <<Others, devices, deviceCount, filter>>
Stop == scanning /\ scanning' = FALSE /\ UNCHANGED <<Others, devices, deviceCount, filter>>

Clear ==
    /\ devices' = [s \in Slots |-> NoDevice] /\ deviceCount' = 0
    /\ UNCHANGED <<Others, scanning, filter>>

SetFilter(rssi) == filter' = rssi /\ UNCHANGED <<Others, devices, deviceCount, scanning>>

Weakest == Min({s \in Held : \A t \in Held : devices[s].rssi <= devices[t].rssi})

\* process_adv_report: a device heard again keeps its slot, a new one takes an empty
\* slot or that of the weakest, however weak it is itself.
HearAgain(a, rssi) ==
    \E s \in Held :
        /\ devices[s].addr = a
        /\ devices' = [devices EXCEPT ![s].rssi = rssi]
        /\ UNCHANGED <<Others, deviceCount, scanning, filter>>

\* (mutant: the place of the weakest is counted twice)
HearNewMutant(a, rssi) ==
    LET slot == IF Held # Slots THEN Min(Slots \ Held) ELSE Weakest
    IN  /\ \A s \in Held : devices[s].addr # a
        /\ devices' = [devices EXCEPT ![slot] = [addr |-> a, rssi |-> rssi]]
        /\ deviceCount' = deviceCount + 1
        /\ UNCHANGED <<Others, scanning, filter>>

HearNew(a, rssi) ==
    LET slot == IF Held # Slots THEN Min(Slots \ Held) ELSE Weakest
    IN  /\ \A s \in Held : devices[s].addr # a
        /\ devices' = [devices EXCEPT ![slot] = [addr |-> a, rssi |-> rssi]]
        /\ deviceCount' = IF Held # Slots THEN deviceCount + 1 ELSE deviceCount
        /\ UNCHANGED <<Others, scanning, filter>>

\* sort_by_rssi: the strongest first, equals in the order they had.
SortByRssi ==
    LET order == SetToSortSeq(Held, LAMBDA s, t : \/ devices[s].rssi > devices[t].rssi
                                                 \/ (devices[s].rssi = devices[t].rssi /\ s < t))
    IN  /\ devices' = [s \in Slots |-> IF s <= Len(order) THEN devices[order[s]] ELSE NoDevice]
        /\ UNCHANGED <<Others, deviceCount, scanning, filter>>

ScanNext ==
    \/ InitScanner \/ Start \/ Stop \/ Clear \/ SortByRssi
    \/ \E rssi \in 1 .. MaxRssi :
          \/ SetFilter(rssi)
          \/ \E a \in Addrs : scanning /\ rssi >= filter /\ (HearAgain(a, rssi) \/ HearNew(a, rssi))

Next == LinkNext \/ ScanNext

Spec == Init /\ [][Next]_vars

-----------------------------------------------------------------------------

\* The manager knows of a connection exactly while there is one, unless the settings or the
\* loss of another peer wrote over the state; the connection it names is there; a pairing
\* code lives no longer than the last connection, and the receiver saw authenticated
\* connections only (gap_event_cb, set_conn_state, rx_dispatch_authorized, ble_manager.rs).
LinkIsKnown ==
    /\ ~overwritten => (state = "connected") = (conns # {})
    /\ state = "connected" => \E c \in conns : c.peer = handle
    /\ passkey => conns # {}
    /\ \A c \in received : c.auth

\* The scanner's count is that of its devices, and no address has two slots
\* (process_adv_report, sort_by_rssi, ble_scanner.rs).
DevicesAreCounted ==
    /\ deviceCount = Cardinality(Held)
    /\ \A s, t \in Held : devices[s].addr = devices[t].addr => s = t

=============================================================================
