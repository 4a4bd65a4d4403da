---------------------------- MODULE DriverReload ----------------------------
(***************************************************************************)
(* The table of replaceable drivers                                        *)
(* (src/components/kernel_rs/src/driver_reload.rs) and the drivers that    *)
(* run behind it.  On the device nothing is replaced at run time; on a     *)
(* host the platform's functions are stubs that succeed.                   *)
(***************************************************************************)
EXTENDS Integers, FiniteSets, FiniteSetsExt

CONSTANTS
    Paths,       \* files of drivers
    Hals,        \* kinds of hardware
    MaxDrivers,  \* slots of the table, MAX_RELOADABLE
    MaxIds       \* bound on the ids given out

VARIABLES
    onDevice,  \* the build: espidf or host
    slots,     \* the table
    nextId,    \* the next id
    running,   \* kinds of hardware whose driver was started and not stopped
    unknown,   \* kinds that run although the table forgot it, see below
    lookup     \* reload_by_path between its two locks: the path and the id found

vars == <<onDevice, slots, nextId, running, unknown, lookup>>

Empty == [id |-> 0]
NoLookup == [id |-> 0]
States == {"loaded", "running", "stopped", "error"}
Entry == [id : 1 .. MaxIds, path : Paths, hal : Hals, state : States]
Slots == 1 .. MaxDrivers
Used == {s \in Slots : slots[s] # Empty}

TypeOK ==
    /\ onDevice \in BOOLEAN /\ nextId \in 1 .. MaxIds + 1
    /\ \A s \in Slots : slots[s] \in Entry \cup {Empty}
    /\ running \subseteq Hals /\ unknown \subseteq running
    /\ \A s, t \in Used : s # t => slots[s].id # slots[t].id /\ slots[s].path # slots[t].path

Init ==
    /\ onDevice \in BOOLEAN /\ slots = [s \in Slots |-> Empty] /\ nextId = 1
    /\ running = {} /\ unknown = {} /\ lookup = NoLookup

Set(s, state) == slots' = [slots EXCEPT ![s].state = state]

\* rs_driver_reload_init forgets the drivers, running or not, and starts the ids anew.
Reset ==
    /\ slots' = [s \in Slots |-> Empty] /\ nextId' = 1
    /\ unknown' = running
    /\ UNCHANGED <<onDevice, running, lookup>>

\* A path that is registered again keeps its slot and id and is loaded, whatever it was.
RegisterAgain(p, h) ==
    \E s \in Used :
        /\ slots[s].path = p
        /\ slots' = [slots EXCEPT ![s] = [@ EXCEPT !.hal = h, !.state = "loaded"]]
        /\ unknown' = running \cap (unknown \cup {slots[s].hal})
        /\ UNCHANGED <<onDevice, nextId, running, lookup>>

RegisterNew(p, h) ==
    /\ \A s \in Used : slots[s].path # p
    /\ Used # Slots /\ nextId <= MaxIds
    /\ slots' = [slots EXCEPT ![Min(Slots \ Used)] =
                    [id |-> nextId, path |-> p, hal |-> h, state |-> "loaded"]]
    /\ nextId' = nextId + 1
    /\ UNCHANGED <<onDevice, running, unknown, lookup>>

\* (mutant: a running driver may be unregistered)
UnregisterMutant(s) ==
    /\ slots' = [slots EXCEPT ![s] = Empty]
    /\ UNCHANGED <<onDevice, nextId, running, unknown, lookup>>

Unregister(s) ==
    /\ slots[s].state # "running"
    /\ slots' = [slots EXCEPT ![s] = Empty]
    /\ UNCHANGED <<onDevice, nextId, running, unknown, lookup>>

\* load: only the failure of the platform, which a host never sees, changes a driver
\* for the worse.
Load(s) ==
    /\ ~onDevice /\ slots[s].state # "running"
    /\ Set(s, "loaded")
    /\ UNCHANGED <<onDevice, nextId, running, unknown, lookup>>

Unload(s) ==
    /\ ~onDevice /\ slots[s].state # "running"
    /\ Set(s, "loaded")
    /\ UNCHANGED <<onDevice, nextId, running, unknown, lookup>>

Reloaded(s) ==
    /\ Set(s, "loaded")
    /\ running' = IF slots[s].state = "running" THEN running \ {slots[s].hal} ELSE running
    /\ unknown' = unknown \cap running'
    /\ UNCHANGED <<onDevice, nextId>>

\* reload: a running driver is stopped first; the driver is loaded again, not started.
Reload(s) == ~onDevice /\ lookup = NoLookup /\ Reloaded(s) /\ UNCHANGED lookup

\* reload_by_path looks the driver up, releases the lock and takes it again to reload
\* the id it found.
LookUp(p) ==
    /\ ~onDevice /\ lookup = NoLookup
    /\ \E s \in Used : slots[s].path = p /\ lookup' = [id |-> slots[s].id, path |-> p]
    /\ UNCHANGED <<onDevice, slots, nextId, running, unknown>>

ReloadFound ==
    /\ lookup # NoLookup /\ lookup' = NoLookup
    /\ \/ \E s \in Used : slots[s].id = lookup.id /\ Reloaded(s)
       \/ (\A s \in Used : slots[s].id # lookup.id) /\ UNCHANGED <<onDevice, slots, nextId, running, unknown>>

\* start: on the device the driver's own start function may fail.
Start(s) ==
    /\ slots[s].state = "loaded"
    /\ \/ Set(s, "running") /\ running' = running \cup {slots[s].hal}
       \/ onDevice /\ Set(s, "error") /\ UNCHANGED running
    /\ UNCHANGED <<onDevice, nextId, unknown, lookup>>

\* stop: a driver that fails to stop runs on and is in error.
Stop(s) ==
    /\ slots[s].state = "running"
    /\ \/ /\ Set(s, "stopped") /\ running' = running \ {slots[s].hal}
          /\ unknown' = unknown \cap running'
       \/ /\ onDevice /\ Set(s, "error") /\ UNCHANGED running
          /\ unknown' = running \cap (unknown \cup {slots[s].hal})
    /\ UNCHANGED <<onDevice, nextId, lookup>>

Next ==
    \/ Reset \/ ReloadFound
    \/ \E p \in Paths : LookUp(p) \/ \E h \in Hals : RegisterAgain(p, h) \/ RegisterNew(p, h)
    \/ \E s \in Used : Unregister(s) \/ Load(s) \/ Unload(s) \/ Reload(s) \/ Start(s) \/ Stop(s)

Spec == Init /\ [][Next]_vars

-----------------------------------------------------------------------------

\* Hardware that runs is in the table as running, unless its driver was registered again
\* or the table reset while it ran, or it failed to stop (register, init, stop).
RunningIsKnown ==
    running \subseteq unknown \cup {slots[s].hal : s \in {t \in Used : slots[t].state = "running"}}
=============================================================================
