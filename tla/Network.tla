------------------------------ MODULE Network ------------------------------
(***************************************************************************)
(* The Wi-Fi station (src/components/kernel_rs/src/wifi_manager.rs) and    *)
(* the table of transports above it (net_manager.rs).  The chip's events   *)
(* reach the state through a queue and a handler that reads it and writes  *)
(* it later; whoever connects or disconnects writes it too.  The state     *)
(* under test is what the rest of the system believes of the link.         *)
(***************************************************************************)
EXTENDS Integers, Sequences, SequencesExt

CONSTANTS
    Others,        \* transports other than the Wi-Fi, with a kind each
    Overlays,      \* those of them that are a VPN
    MaxTransports, \* slots of the table, MAX_NET_TRANSPORTS
    MaxEvents      \* bound on the events of the chip that wait

VARIABLES
    radio,      \* the chip: "off", "idle", "joining" or "up"
    events,     \* its events, not yet handled
    handlers,   \* how often the handler stands in the list of the default event loop
    handling,   \* the event handler: what it will write, and the state it read
    state,      \* what the Wi-Fi manager believes
    ready,      \* wifi_manager_init has succeeded
    caller,     \* where connect or disconnect is: "idle", "asks", "waits" or "leaves"
    refused,    \* the chip refused to join while its link was up
    transports, \* the table of net_manager
    others      \* the other transports that are connected

link == <<radio, events, handlers>>
belief == <<state, handling>>
table == <<transports, others>>
vars == <<link, belief, ready, caller, refused, table>>

States == {"disconnected", "connecting", "connected", "failed"}
Resting == [next |-> "none"]

TypeOK ==
    /\ radio \in {"off", "idle", "joining", "up"} /\ handlers \in 0 .. 2
    /\ events \in Seq({"lost", "ip"}) /\ Len(events) <= MaxEvents
    /\ handling = Resting \/ handling \in [next : States, old : States \cup {"unread"}]
    /\ state \in States /\ ready \in BOOLEAN /\ refused \in BOOLEAN
    /\ caller \in {"idle", "asks", "waits", "leaves"}
    /\ transports \in Seq(Others \cup {"wifi"}) /\ Len(transports) <= MaxTransports
    /\ others \subseteq Others

Init ==
    /\ radio = "off" /\ events = <<>> /\ handlers = 0 /\ handling = Resting
    /\ state = "disconnected" /\ ready = FALSE /\ caller = "idle" /\ refused = FALSE
    /\ transports = <<>> /\ others = {}

-----------------------------------------------------------------------------
\* wifi_manager_init, tried again by the settings while it fails.  The radio and the
\* handlers have a flag each, the second of which is set only when both are in place.
InitWifi ==
    /\ ~ready /\ radio # "off" /\ handlers' \in {1, 2} /\ handlers <= handlers'
    /\ ready' = TRUE
    /\ UNCHANGED <<radio, events, belief, caller, refused, table>>

InitWifiFails ==
    /\ ~ready
    /\ \/ radio = "off" /\ radio' = "idle" /\ UNCHANGED handlers
       \/ radio # "off" /\ handlers = 0 /\ handlers' = 1 /\ UNCHANGED radio
    /\ UNCHANGED <<events, belief, ready, caller, refused, table>>

\* The chip tells each handler that is registered.
Told(event, n) == events \o [i \in 1 .. n |-> event]

RadioJoins ==
    /\ radio = "joining" /\ radio' = "up" /\ events' = Told("ip", 1)
    /\ UNCHANGED <<handlers, belief, ready, caller, refused, table>>

RadioLoses ==
    /\ radio \in {"joining", "up"} /\ radio' = "idle" /\ events' = Told("lost", handlers)
    /\ refused' = FALSE
    /\ UNCHANGED <<handlers, belief, ready, caller, table>>

\* (mutant: only an attempt that fails is noticed)
DecidedMutant(event) ==
    CASE event = "ip" -> "connected"
      [] event = "lost" -> IF state = "connecting" THEN "failed" ELSE state

\* wifi_event_handler: what the event makes of the state it reads.
Decided(event) ==
    CASE event = "ip" -> "connected"
      [] event = "lost" -> IF state = "connecting" THEN "failed" ELSE "disconnected"

HandlerDecides ==
    /\ handling = Resting /\ events # <<>>
    /\ handling' = [next |-> Decided(Head(events)), old |-> "unread"]
    /\ events' = Tail(events)
    /\ UNCHANGED <<radio, handlers, state, ready, caller, refused, table>>

\* wifi_manager_set_state: the old state is read under one lock and the new one
\* written under another.
HandlerReads ==
    /\ handling # Resting /\ handling.old = "unread"
    /\ handling' = [handling EXCEPT !.old = state]
    /\ UNCHANGED <<link, state, ready, caller, refused, table>>

HandlerWrites ==
    /\ handling # Resting /\ handling.old # "unread"
    /\ state' = handling.next /\ handling' = Resting
    /\ UNCHANGED <<link, ready, caller, refused, table>>

\* wifi_manager_connect: the state is set before the chip is asked.
Connect ==
    /\ ready /\ caller = "idle" /\ caller' = "asks" /\ state' = "connecting"
    /\ UNCHANGED <<link, handling, ready, refused, table>>

RadioAccepts ==
    /\ caller = "asks" /\ caller' = "waits"
    /\ radio' = IF radio = "idle" THEN "joining" ELSE radio
    /\ UNCHANGED <<events, handlers, belief, ready, refused, table>>

\* A chip may refuse in any state; one that has joined keeps its link.
RadioRefuses ==
    /\ caller = "asks" /\ caller' = "idle" /\ state' = "failed"
    /\ refused' = (radio = "up")
    /\ UNCHANGED <<link, handling, ready, table>>

Connected ==
    /\ caller = "waits" /\ state = "connected" /\ caller' = "idle"
    /\ UNCHANGED <<link, belief, ready, refused, table>>

ConnectFails ==
    /\ caller = "waits" /\ state \in {"failed", "disconnected"}
    /\ state' = "failed" /\ caller' = "idle"
    /\ UNCHANGED <<link, handling, ready, refused, table>>

\* esp_wifi_disconnect
Leave ==
    /\ radio' = "idle" /\ refused' = FALSE
    /\ events' = IF radio = "idle" THEN events ELSE Told("lost", handlers)

\* The wait may time out in any state: a link that has come up is taken down.
TimesOut ==
    /\ caller = "waits" /\ caller' = "idle" /\ state' = "failed" /\ Leave
    /\ UNCHANGED <<handlers, handling, ready, table>>

\* wifi_manager_disconnect: the state is written after the chip was told.
Disconnect ==
    /\ ready /\ caller = "idle" /\ caller' = "leaves" /\ Leave
    /\ UNCHANGED <<handlers, belief, ready, table>>

Disconnected ==
    /\ caller = "leaves" /\ caller' = "idle" /\ state' = "disconnected"
    /\ UNCHANGED <<link, handling, ready, refused, table>>

-----------------------------------------------------------------------------
\* net_manager_register; the Wi-Fi is registered by the boot.
Register(t) ==
    /\ Len(transports) < MaxTransports /\ t \notin ToSet(transports)
    /\ transports' = Append(transports, t)
    /\ UNCHANGED <<link, belief, ready, caller, refused, others>>

IsUp(t) == IF t = "wifi" THEN state = "connected" ELSE t \in others

Up(kind) == SelectSeq(transports, LAMBDA t : t \in kind /\ IsUp(t))
Underlays == (Others \cup {"wifi"}) \ Overlays

\* net_get_active: a VPN before what it runs over, else in the order of registration.
Active == Up(Overlays) \o Up(Underlays)

\* net_connect_best: the VPNs in their order if there is something to run over, then the
\* others; the Wi-Fi, asked without a name, always refuses.
Tried == (IF Up(Underlays) # <<>> THEN SelectSeq(transports, LAMBDA t : t \in Overlays) ELSE <<>>)
         \o SelectSeq(transports, LAMBDA t : t \in Underlays)

ConnectBest ==
    /\ Active # <<>> => Head(Active) \notin Overlays
    /\ \E i \in DOMAIN Tried :
          /\ Tried[i] # "wifi" /\ ~IsUp(Tried[i])
          /\ \A j \in 1 .. i - 1 : ~IsUp(Tried[j])
          /\ others' = others \cup {Tried[i]}
    /\ UNCHANGED <<link, belief, ready, caller, refused, transports>>

OtherChanges(t) ==
    /\ others' \in {others \cup {t}, others \ {t}}
    /\ UNCHANGED <<link, belief, ready, caller, refused, transports>>

Next ==
    \/ InitWifi \/ InitWifiFails
    \/ Len(events) + handlers <= MaxEvents /\ (RadioJoins \/ RadioLoses \/ TimesOut \/ Disconnect)
    \/ HandlerDecides \/ HandlerReads \/ HandlerWrites
    \/ Connect \/ RadioAccepts \/ RadioRefuses \/ Connected \/ ConnectFails \/ Disconnected
    \/ ConnectBest \/ (ready /\ Register("wifi"))
    \/ \E t \in Others : Register(t) \/ OtherChanges(t)

Spec == Init /\ [][Next]_vars

-----------------------------------------------------------------------------

\* When nobody is connecting and no event is left to handle, the system believes in a
\* link exactly if there is one, unless the chip kept its link and refused to join
\* (connect, disconnect, the event handler and set_state, wifi_manager.rs).
BeliefSettles ==
    (caller = "idle" /\ handling = Resting /\ events = <<>> /\ ~refused) =>
        (state = "connected") = (radio = "up")

=============================================================================
