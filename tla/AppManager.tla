----------------------------- MODULE AppManager -----------------------------
(***************************************************************************)
(* The app manager of the kernel, components/kernel_rs/src/app_manager.rs: *)
(* registration, launch, suspension, killing and LRU eviction of apps.     *)
(*                                                                         *)
(* Every call holds the APP_MANAGER mutex from its first statement to its  *)
(* last, lifecycle callbacks included, so a call is one action.  The one   *)
(* exception is register, which adds the manifest to REGISTERED_MANIFESTS  *)
(* under another mutex, after it has released the first: two actions.      *)
(*                                                                         *)
(* The history variable live follows the callbacks an app has received:    *)
(* "none" before on_create and after on_destroy, "active" after on_start   *)
(* or on_resume, "paused" after on_pause.  A callback that does not fit    *)
(* (the destruction of an app that was never created) makes it "broken".   *)
(***************************************************************************)
EXTENDS Integers, FiniteSets

CONSTANTS
    Apps,         \* ids of the apps the kernel and the SD card offer
    Launchers,    \* those is_launcher_id accepts
    NoApp,        \* an empty slot
    MaxSlots,     \* APP_SLOTS_MAX
    MaxUptime,    \* u32::MAX, where kernel_uptime_ms saturates
    Horizon,      \* bound: the uptime the model follows
    LowHeap,      \* may the heap be low when an app is launched?
    CreateFails   \* may on_create return an error?

ASSUME AppsAssumption == NoApp \notin Apps /\ Launchers \subseteq Apps

ASSUME LimitsAssumption ==
    /\ MaxSlots \in Nat /\ MaxUptime \in Nat /\ Horizon \in 0 .. MaxUptime
    /\ LowHeap \in BOOLEAN /\ CreateFails \in BOOLEAN

VARIABLES
    slots,       \* the table; slot i of the model is index i - 1 of the code
    slotCount,
    foreground,  \* handle of the foreground app, Invalid when there is none
    nextHandle,
    manifests,   \* REGISTERED_MANIFESTS
    registering, \* the app between the two halves of register, if any
    uptime,      \* kernel_uptime_ms
    live,        \* history: the callbacks each app has received
    misled,      \* history: apps called Running though they had given way
    stray,       \* history: the foreground handle if its slot was emptied, or Invalid
    result       \* what the last call was and returned

table == <<slots, slotCount, foreground, nextHandle>>
marks == <<misled, stray>>
vars == <<table, manifests, registering, uptime, live, marks, result>>

Slots == 1 .. MaxSlots
Nobody == 0
Invalid == -1
States == {"Unloaded", "Running", "Backgrounded", "Suspended"}

EmptySlot == [app |-> NoApp, state |-> "Unloaded", handle |-> Invalid, used |-> 0]

\* Type invariant; the state Loading exists only while on_create runs.
TypeOK ==
    /\ slots \in [Slots -> [app : Apps \cup {NoApp}, state : States,
                            handle : Nat \cup {Invalid}, used : Nat]]
    /\ slotCount \in 0 .. MaxSlots
    /\ foreground \in Nat \cup {Invalid}
    /\ nextHandle \in Nat
    /\ manifests \subseteq Apps
    /\ registering \in Apps \cup {NoApp}
    /\ uptime \in 0 .. Horizon
    /\ live \in [Apps -> {"none", "active", "paused", "broken"}]
    /\ misled \subseteq Apps /\ stray \in Nat \cup {Invalid}
    /\ result \in [call : {"none", "register", "launch", "suspend", "kill", "evict"},
                   rc : {"OK", "NO_MEM", "NOT_FOUND", "INVALID_STATE", "FAILED"}]

Init ==
    /\ slots = [i \in Slots |-> EmptySlot]
    /\ slotCount = 0
    /\ foreground = Invalid
    /\ nextHandle = 0
    /\ manifests = {}
    /\ registering = NoApp
    /\ uptime = 0
    /\ live = [a \in Apps |-> "none"]
    /\ misled = {} /\ stray = Invalid
    /\ result = [call |-> "none", rc |-> "OK"]

Returns(call, rc) == result' = [call |-> call, rc |-> rc]

Holds(i) == i <= slotCount /\ slots[i].app # NoApp
Registered(a) == \E i \in Slots : Holds(i) /\ slots[i].app = a
IsForeground(i) == Holds(i) /\ foreground # Invalid /\ slots[i].handle = foreground

\* What the callbacks do to the app that receives them.
Paused(phase) == IF phase \in {"active", "paused"} THEN "paused" ELSE "broken"
Resumed(phase) == IF phase = "paused" THEN "active" ELSE "broken"
Created(phase) == IF phase = "none" THEN "active" ELSE "broken"
Destroyed(phase) == IF phase \in {"active", "paused"} THEN "none" ELSE "broken"

-----------------------------------------------------------------------------
(* Registration                                                            *)

Enters(a) ==
    /\ slots' = [slots EXCEPT ![slotCount + 1] =
                    [app |-> a, state |-> "Unloaded", handle |-> nextHandle, used |-> 0]]
    /\ slotCount' = slotCount + 1
    /\ nextHandle' = nextHandle + 1
    /\ registering' = a
    /\ Returns("register", "OK")
    /\ UNCHANGED <<foreground, manifests, uptime, live, marks>>

\* (mutant: the limit is off by one)
RegisterOneMoreMutant(a) ==
    registering = NoApp /\ ~Registered(a) /\ slotCount <= MaxSlots /\ Enters(a)

\* Apps are registered by the main task, one after another.  A slot is never
\* used again, even after the app in it was killed or evicted.
Register(a) ==
    /\ registering = NoApp
    /\ \/ /\ Registered(a)
          /\ registering' = a
          /\ Returns("register", "OK")
          /\ UNCHANGED <<table, manifests, uptime, live, marks>>
       \/ /\ ~Registered(a)
          /\ slotCount >= MaxSlots
          /\ Returns("register", "NO_MEM")
          /\ UNCHANGED <<table, manifests, registering, uptime, live, marks>>
       \/ ~Registered(a) /\ slotCount < MaxSlots /\ Enters(a)

\* The second half of register: the manifest is listed, once.
ListManifest(a) ==
    /\ registering = a
    /\ registering' = NoApp
    /\ manifests' = manifests \cup {a}
    /\ UNCHANGED <<table, uptime, live, marks, result>>

-----------------------------------------------------------------------------
(* Eviction                                                                *)

\* (mutant: suspended apps are overlooked)
EvictableBackgroundMutant(s, i) ==
    /\ i <= slotCount
    /\ s[i].app \notin Launchers \cup {NoApp}
    /\ s[i].handle # foreground
    /\ s[i].state = "Backgrounded"

\* oldest_ts starts at u32::MAX, and only a smaller timestamp replaces it.
Evictable(s, i) ==
    /\ i <= slotCount
    /\ s[i].app \notin Launchers \cup {NoApp}
    /\ s[i].handle # foreground
    /\ s[i].state \in {"Backgrounded", "Suspended"}
    /\ s[i].used < MaxUptime

\* (mutant: the most recently used app is the victim)
OlderMutant(s, i, j) == s[i].used > s[j].used \/ (s[i].used = s[j].used /\ i < j)

Older(s, i, j) == s[i].used < s[j].used \/ (s[i].used = s[j].used /\ i < j)

\* The slot evict_lru empties in the table s, Nobody when there is none.
Victim(s, v) ==
    IF \E i \in Slots : Evictable(s, i)
    THEN /\ v \in Slots
         /\ Evictable(s, v)
         /\ \A i \in Slots \ {v} : Evictable(s, i) => Older(s, v, i)
    ELSE v = Nobody

EvictLru ==
    \E v \in Slots \cup {Nobody} :
        /\ Victim(slots, v)
        /\ slots' = [i \in Slots |-> IF i = v THEN EmptySlot ELSE slots[i]]
        /\ live' = [a \in Apps |-> IF v # Nobody /\ a = slots[v].app
                                   THEN Destroyed(live[a]) ELSE live[a]]
        /\ Returns("evict", IF v = Nobody THEN "NOT_FOUND" ELSE "OK")
        /\ UNCHANGED <<slotCount, foreground, nextHandle, manifests, registering,
                       uptime, marks>>

-----------------------------------------------------------------------------
(* Launch                                                                  *)

\* A running foreground app gives way: the launcher is paused and stays in
\* memory, any other app is destroyed.
GivesWay(i) == IsForeground(i) /\ slots[i].state = "Running"

\* (mutant: the previous foreground app keeps its state)
VacatedMutant == slots

Vacated ==
    [i \in Slots |->
        IF GivesWay(i)
        THEN [slots[i] EXCEPT !.state = IF slots[i].app \in Launchers
                                        THEN "Backgrounded" ELSE "Unloaded"]
        ELSE slots[i]]

\* (mutant: the launcher is destroyed as well)
VacatedLiveMutant ==
    [a \in Apps |->
        IF \E i \in Slots : GivesWay(i) /\ slots[i].app = a
        THEN Destroyed(live[a]) ELSE live[a]]

VacatedLive ==
    [a \in Apps |->
        IF \E i \in Slots : GivesWay(i) /\ slots[i].app = a
        THEN IF a \in Launchers THEN Paused(live[a]) ELSE Destroyed(live[a])
        ELSE live[a]]

\* The table and the apps after the eviction that a low heap asks for.
Evicted(v) == [i \in Slots |-> IF i = v THEN EmptySlot ELSE Vacated[i]]
EvictedLive(v) ==
    [a \in Apps |-> IF v # Nobody /\ a = Vacated[v].app
                    THEN Destroyed(VacatedLive[a]) ELSE VacatedLive[a]]

\* Who is evicted during a launch; with enough heap nobody is.
Yields(v) == v = Nobody \/ (LowHeap /\ Victim(Vacated, v))

LaunchNotFound(a) ==
    /\ ~Registered(a)
    /\ Returns("launch", "NOT_FOUND")
    /\ UNCHANGED <<table, manifests, registering, uptime, live, marks>>

LaunchForeground(a) ==
    /\ \E t \in Slots : IsForeground(t) /\ slots[t].app = a
    /\ Returns("launch", "OK")
    /\ UNCHANGED <<table, manifests, registering, uptime, live, marks>>

\* The slot of the target may have been emptied by the eviction: it is then
\* launched all the same, without an entry to call.
LaunchApp(a) ==
    \E t \in Slots : \E v \in Slots \cup {Nobody} :
        /\ Holds(t) /\ slots[t].app = a /\ slots[t].handle # foreground
        /\ Yields(v)
        /\ slots' = [Evicted(v) EXCEPT ![t].state = "Running", ![t].used = uptime]
        /\ foreground' = slots[t].handle
        /\ live' = [EvictedLive(v) EXCEPT ![a] =
                       IF t = v THEN @
                       ELSE IF Vacated[t].state = "Unloaded" THEN Created(@)
                       ELSE IF Vacated[t].state \in {"Backgrounded", "Suspended"}
                       THEN Resumed(@) ELSE @]
        /\ misled' = misled \ (Launchers \cap {a})
        /\ stray' = IF t = v THEN slots[t].handle ELSE Invalid
        /\ Returns("launch", "OK")
        /\ UNCHANGED <<slotCount, nextHandle, manifests, registering, uptime>>

\* on_create failed: the previous foreground app is called Running again.
LaunchFails(a) ==
    /\ CreateFails
    /\ \E t \in Slots : \E v \in Slots \cup {Nobody} :
        /\ Holds(t) /\ slots[t].app = a /\ slots[t].handle # foreground
        /\ slots[t].state = "Unloaded"
        /\ Yields(v)
        /\ slots' = [i \in Slots |-> IF IsForeground(i)
                                     THEN [Evicted(v)[i] EXCEPT !.state = "Running"]
                                     ELSE Evicted(v)[i]]
        /\ live' = EvictedLive(v)
    /\ misled' = misled \cup {slots[i].app : i \in {j \in Slots : GivesWay(j)}}
    /\ Returns("launch", "FAILED")
    /\ UNCHANGED <<slotCount, foreground, nextHandle, manifests, registering, uptime, stray>>

\* app_manager_launch, and switch_to, which resolves a handle to the app's id.
Launch(a) ==
    LaunchNotFound(a) \/ LaunchForeground(a) \/ LaunchApp(a) \/ LaunchFails(a)

-----------------------------------------------------------------------------
(* Suspension and killing                                                  *)

\* (mutant: the foreground handle is not cleared)
SuspendMutant(i) ==
    /\ Holds(i)
    /\ slots[i].state \in {"Running", "Backgrounded"}
    /\ slots' = [slots EXCEPT ![i].state = "Suspended"]
    /\ live' = [live EXCEPT ![slots[i].app] = Paused(@)]
    /\ Returns("suspend", "OK")
    /\ UNCHANGED <<slotCount, foreground, nextHandle, manifests, registering, uptime, marks>>

Suspend(i) ==
    /\ Holds(i)
    /\ \/ /\ slots[i].state \in {"Running", "Backgrounded"}
          /\ slots' = [slots EXCEPT ![i].state = "Suspended"]
          /\ live' = [live EXCEPT ![slots[i].app] = Paused(@)]
          /\ foreground' = IF IsForeground(i) THEN Invalid ELSE foreground
          /\ Returns("suspend", "OK")
       \/ /\ slots[i].state \in {"Suspended", "Unloaded"}
          /\ Returns("suspend", IF slots[i].state = "Suspended" THEN "OK" ELSE "INVALID_STATE")
          /\ UNCHANGED <<slots, live, foreground>>
    /\ UNCHANGED <<slotCount, nextHandle, manifests, registering, uptime, marks>>

Kill(i) ==
    /\ Holds(i)
    /\ \/ /\ slots[i].state = "Unloaded"
          /\ Returns("kill", "INVALID_STATE")
          /\ UNCHANGED <<slots, live, foreground>>
       \/ /\ slots[i].state # "Unloaded"
          /\ slots' = [slots EXCEPT ![i] = EmptySlot]
          /\ live' = [live EXCEPT ![slots[i].app] = Destroyed(@)]
          /\ foreground' = IF IsForeground(i) THEN Invalid ELSE foreground
          /\ Returns("kill", "OK")
    /\ UNCHANGED <<slotCount, nextHandle, manifests, registering, uptime, marks>>

\* Time passes between calls.
Tick ==
    /\ uptime < Horizon
    /\ uptime' = uptime + 1
    /\ UNCHANGED <<table, manifests, registering, live, marks, result>>

Next ==
    \/ \E a \in Apps : Register(a) \/ ListManifest(a) \/ Launch(a)
    \/ \E i \in Slots : Suspend(i) \/ Kill(i)
    \/ EvictLru
    \/ Tick

Spec == Init /\ [][Next]_vars

-----------------------------------------------------------------------------
(* Properties                                                              *)

\* One app at a time has the screen: an app that runs is the foreground app, and
\* an id is registered once (launch, suspend, kill, register).
OneForeground ==
    \A i, j \in Slots :
        /\ Holds(i) /\ slots[i].state = "Running" => IsForeground(i)
        /\ i # j /\ Holds(i) /\ Holds(j) =>
              slots[i].app # slots[j].app /\ slots[i].handle # slots[j].handle

\* The foreground handle names an app that is there, runs and has been started or
\* resumed (launch: "Bring the app identified by app_id to the foreground"), but in two
\* cases: its own launch evicted it, or the on_create of the app that was to come after
\* it failed, and it was called Running again without being created or resumed.
ForegroundIsAlive ==
    foreground \notin {Invalid, stray} =>
        \E i \in Slots : /\ IsForeground(i)
                         /\ slots[i].state = "Running"
                         /\ live[slots[i].app] = "active" \/ slots[i].app \in misled

\* What an app may be called for: created before anything else, resumed after it was
\* paused, destroyed once per creation.
InOrder(a) ==
    CASE live[a] = "none" -> live'[a] \in {"none", "active"}
      [] live[a] \in {"active", "paused"} -> live'[a] \in {"none", "active", "paused"}
      [] OTHER -> FALSE

\* Callbacks come in an order the app can rely on, whatever sequence of calls the manager
\* receives, also with launches that fail and on a low heap (app_manager.h).  The one app
\* for which they do not is an app, not the launcher, that gave way to a launch that
\* failed: it is paused or destroyed again without having been created.
CallbackProtocol == [][\A a \in Apps : a \notin misled \ Launchers => InOrder(a)]_vars

\* An app that loses its slot without being killed is a suspended one that was
\* used no later than any other, and evict_lru finds one whenever there is one
\* ("Evict the least-recently-used", "APP_HANDLE_INVALID if nothing was evictable").
EvictsLeastRecentlyUsed ==
    [][/\ result' # result /\ result'.call = "evict" /\ result'.rc = "NOT_FOUND" =>
              \A i \in Slots : Holds(i) /\ slots[i].app \notin Launchers =>
                                   slots[i].state # "Suspended"
       /\ \A i \in Slots :
              Holds(i) /\ slots'[i].app = NoApp /\ result'.call # "kill" =>
                  /\ slots[i].state \in {"Suspended", "Backgrounded"}
                  /\ ~IsForeground(i)
                  /\ \A j \in Slots :
                        Holds(j) /\ slots[j].state = "Suspended"
                                 /\ slots[j].app \notin Launchers =>
                            slots[i].used <= slots[j].used]_vars
=============================================================================
