-------------------------- MODULE AppManagerProofs --------------------------
(***************************************************************************)
(* Theorems about AppManager, for any set of apps, any number of slots and *)
(* any uptime.  The inductive invariant says how the table, the foreground *)
(* handle and the callbacks the apps have received hang together:          *)
(*   HandlesAreFresh   no handle in the table will be given out again;     *)
(*   OneForeground     as stated in AppManager;                            *)
(*   PhasesMatch       an app is in the phase its slot's state tells, or a *)
(*                     failed launch has misled the manager about it;      *)
(*   ForegroundRuns    the foreground handle is that of a running slot, or *)
(*                     of one that its own launch has emptied.             *)
(* Eviction (at the end) adds                                              *)
(*   SuspendedIsAway   a suspended app is not the foreground one;          *)
(*   UsedBefore        no app was used later than now.                     *)
(* The launcher, with state of its own, comes last.                        *)
(***************************************************************************)
EXTENDS AppManager, TLAPS

HandlesAreFresh ==
    \A i \in Slots : Holds(i) => slots[i].handle \in 0 .. (nextHandle - 1)

\* The phase of an app whose slot is in a state.
PhaseOf(state) ==
    IF state = "Running" THEN "active" ELSE IF state = "Unloaded" THEN "none" ELSE "paused"

\* The apps of which nothing is claimed; the launcher is only paused, and may be again.
Lost == misled \ Launchers

InStep(a, state) ==
    \/ live[a] = PhaseOf(state)
    \/ a \in Lost
    \/ a \in misled \cap Launchers /\ state = "Running" /\ live[a] = "paused"

PhasesMatch ==
    /\ \A i \in Slots : Holds(i) => InStep(slots[i].app, slots[i].state)
    /\ \A a \in Apps \ Lost : ~Registered(a) => live[a] = "none"

ForegroundRuns ==
    /\ foreground < nextHandle
    /\ \A i \in Slots : IsForeground(i) => slots[i].state = "Running"
    /\ foreground \notin {Invalid, stray} => \E i \in Slots : IsForeground(i)

TableInv == TypeOK /\ HandlesAreFresh /\ OneForeground
PhaseInv == TableInv /\ ForegroundRuns /\ PhasesMatch

-----------------------------------------------------------------------------
(* The type invariant                                                      *)

SlotRecord == [app : Apps \cup {NoApp}, state : States, handle : Nat \cup {Invalid}, used : Nat]

LEMMA EmptySlotTyped == EmptySlot \in SlotRecord
BY DEF EmptySlot, SlotRecord, States

LEMMA InitTyped == Init => TypeOK
<1> SUFFICES ASSUME Init PROVE TypeOK
      OBVIOUS
<1>1. slots \in [Slots -> SlotRecord]
      BY EmptySlotTyped DEF Init
<1>2. slotCount \in 0 .. MaxSlots /\ uptime \in 0 .. Horizon
      BY LimitsAssumption DEF Init
<1>3. foreground \in Nat \cup {Invalid} /\ nextHandle \in Nat
      BY DEF Init
<1>4. manifests \subseteq Apps /\ registering \in Apps \cup {NoApp}
      BY DEF Init
<1>5. /\ live \in [Apps -> {"none", "active", "paused", "broken"}]
      /\ misled \subseteq Apps /\ stray \in Nat \cup {Invalid}
      BY DEF Init
<1>6. result \in [call : {"none", "register", "launch", "suspend", "kill", "evict"},
                  rc : {"OK", "NO_MEM", "NOT_FOUND", "INVALID_STATE", "FAILED"}]
      BY DEF Init
<1> QED BY <1>1, <1>2, <1>3, <1>4, <1>5, <1>6 DEF TypeOK, SlotRecord

LEMMA VacatedTyped == TypeOK => Vacated \in [Slots -> SlotRecord]
BY DEF TypeOK, Vacated, SlotRecord, States

LEMMA EvictedTyped ==
    ASSUME TypeOK, NEW v PROVE Evicted(v) \in [Slots -> SlotRecord]
BY VacatedTyped, EmptySlotTyped DEF Evicted

\* A slot of a typed table is made the running one, used at a time.
LEMMA RunningTyped ==
    ASSUME NEW f \in [Slots -> SlotRecord], NEW t \in Slots, NEW u \in Nat
    PROVE  [f EXCEPT ![t].state = "Running", ![t].used = u] \in [Slots -> SlotRecord]
<1>1. f[t] \in SlotRecord
      OBVIOUS
<1> DEFINE q == [f[t] EXCEPT !.state = "Running"]
<1> DEFINE r == [q EXCEPT !.used = u]
<1>2. q \in SlotRecord
      BY <1>1 DEF SlotRecord, States
<1>3. r \in SlotRecord
      <2> HIDE DEF q
      <2> QED BY <1>2 DEF SlotRecord
<1>4. [f EXCEPT ![t].state = "Running", ![t].used = u] = [f EXCEPT ![t] = r]
      OBVIOUS
<1> HIDE DEF r
<1> QED BY <1>3, <1>4

Phases == {"none", "active", "paused", "broken"}

LEMMA PhasesTyped ==
    ASSUME NEW p
    PROVE  Paused(p) \in Phases /\ Resumed(p) \in Phases
           /\ Created(p) \in Phases /\ Destroyed(p) \in Phases
BY DEF Paused, Resumed, Created, Destroyed, Phases

LEMMA EvictedLiveTyped ==
    ASSUME TypeOK, NEW v PROVE EvictedLive(v) \in [Apps -> Phases]
<1>1. live \in [Apps -> Phases]
      BY DEF TypeOK, Phases
<1>2. VacatedLive \in [Apps -> Phases]
      BY <1>1, PhasesTyped DEF VacatedLive
<1> QED BY <1>2, PhasesTyped DEF EvictedLive

LEMMA NextTyped == TypeOK /\ [Next]_vars => TypeOK'
<1> SUFFICES ASSUME TypeOK, [Next]_vars PROVE TypeOK'
    OBVIOUS
<1>a. /\ slots \in [Slots -> SlotRecord] /\ slotCount \in 0 .. MaxSlots
      /\ foreground \in Nat \cup {Invalid} /\ nextHandle \in Nat
      /\ manifests \subseteq Apps /\ registering \in Apps \cup {NoApp}
      /\ uptime \in 0 .. Horizon /\ live \in [Apps -> Phases]
      /\ misled \subseteq Apps /\ stray \in Nat \cup {Invalid}
      BY DEF TypeOK, SlotRecord, Phases
<1>b. Slots = 1 .. MaxSlots /\ MaxSlots \in Nat /\ Horizon \in Nat
      BY LimitsAssumption DEF Slots
<1> DEFINE Typed ==
        /\ slots' \in [Slots -> SlotRecord] /\ slotCount' \in 0 .. MaxSlots
        /\ foreground' \in Nat \cup {Invalid} /\ nextHandle' \in Nat
        /\ manifests' \subseteq Apps /\ registering' \in Apps \cup {NoApp}
        /\ uptime' \in 0 .. Horizon /\ live' \in [Apps -> Phases]
        /\ misled' \subseteq Apps /\ stray' \in Nat \cup {Invalid}
<1> DEFINE ResultTyped ==
        result' \in [call : {"none", "register", "launch", "suspend", "kill", "evict"},
                     rc : {"OK", "NO_MEM", "NOT_FOUND", "INVALID_STATE", "FAILED"}]
<1>c. SUFFICES Typed /\ ResultTyped
      BY DEF TypeOK, SlotRecord, Phases
<1>1. ASSUME NEW a \in Apps, Register(a) PROVE Typed /\ ResultTyped
      <2>1. CASE Enters(a) /\ slotCount < MaxSlots
            <3>1. [app |-> a, state |-> "Unloaded", handle |-> nextHandle, used |-> 0]
                      \in SlotRecord
                  BY <1>a DEF SlotRecord, States
            <3>2. slots' \in [Slots -> SlotRecord]
                  BY <1>a, <3>1, <2>1 DEF Enters
            <3> QED BY <1>a, <1>b, <3>2, <2>1 DEF Enters, Returns, marks
      <2>2. CASE ~(Enters(a) /\ slotCount < MaxSlots)
            BY <1>1, <1>a, <2>2 DEF Register, Returns, table, marks
      <2> QED BY <2>1, <2>2
<1>2. ASSUME NEW a \in Apps, ListManifest(a) PROVE Typed /\ ResultTyped
      BY <1>2, <1>a DEF ListManifest, table, TypeOK, marks
<1>3. ASSUME NEW a \in Apps, Launch(a) PROVE Typed /\ ResultTyped
      <2>1. CASE LaunchNotFound(a) \/ LaunchForeground(a)
            BY <2>1, <1>a DEF LaunchNotFound, LaunchForeground, Returns, table, marks
      <2>2. ASSUME LaunchApp(a) PROVE Typed /\ ResultTyped
            <3>1. PICK t \in Slots, v \in Slots \cup {Nobody} :
                      /\ slots' = [Evicted(v) EXCEPT ![t].state = "Running", ![t].used = uptime]
                      /\ foreground' = slots[t].handle
                      /\ live' = [EvictedLive(v) EXCEPT ![a] =
                                     IF t = v THEN @
                                     ELSE IF Vacated[t].state = "Unloaded" THEN Created(@)
                                     ELSE IF Vacated[t].state \in {"Backgrounded", "Suspended"}
                                     THEN Resumed(@) ELSE @]
                      /\ misled' = misled \ (Launchers \cap {a})
                      /\ stray' = IF t = v THEN slots[t].handle ELSE Invalid
                      /\ Returns("launch", "OK")
                      /\ UNCHANGED <<slotCount, nextHandle, manifests, registering, uptime>>
                  BY <2>2 DEF LaunchApp
            <3>2. Evicted(v) \in [Slots -> SlotRecord] /\ EvictedLive(v) \in [Apps -> Phases]
                  BY EvictedTyped, EvictedLiveTyped
            <3>3. slots' \in [Slots -> SlotRecord]
                  <4>1. uptime \in Nat
                        BY <1>a, <1>b
                  <4> QED BY <3>1, <3>2, <4>1, RunningTyped
            <3>4. live' \in [Apps -> Phases]
                  BY <3>1, <3>2, PhasesTyped
            <3> QED BY <1>a, <3>1, <3>3, <3>4 DEF Returns, SlotRecord
      <2>3. ASSUME LaunchFails(a) PROVE Typed /\ ResultTyped
            <3>1. PICK v \in Slots \cup {Nobody} :
                      /\ slots' = [i \in Slots |-> IF IsForeground(i)
                                     THEN [Evicted(v)[i] EXCEPT !.state = "Running"]
                                     ELSE Evicted(v)[i]]
                      /\ live' = EvictedLive(v)
                      /\ misled' = misled \cup {slots[i].app : i \in {j \in Slots : GivesWay(j)}}
                  BY <2>3 DEF LaunchFails
            <3>2. Evicted(v) \in [Slots -> SlotRecord] /\ EvictedLive(v) \in [Apps -> Phases]
                  BY EvictedTyped, EvictedLiveTyped
            <3>3. slots' \in [Slots -> SlotRecord]
                  BY <3>1, <3>2 DEF SlotRecord, States
            <3>4. misled' \subseteq Apps
                  BY <1>a, <3>1 DEF GivesWay, IsForeground, Holds, SlotRecord
            <3> QED BY <1>a, <3>1, <3>2, <3>3, <3>4, <2>3 DEF LaunchFails, Returns
      <2> QED BY <1>3, <2>1, <2>2, <2>3 DEF Launch
<1>4. ASSUME NEW i \in Slots, Suspend(i) PROVE Typed /\ ResultTyped
      <2>1. slots' \in [Slots -> SlotRecord]
            BY <1>4, <1>a DEF Suspend, SlotRecord, States
      <2>2. live' \in [Apps -> Phases]
            BY <1>4, <1>a, PhasesTyped DEF Suspend
      <2> QED BY <1>4, <1>a, <2>1, <2>2 DEF Suspend, Returns, marks
<1>5. ASSUME NEW i \in Slots, Kill(i) PROVE Typed /\ ResultTyped
      <2>1. slots' \in [Slots -> SlotRecord]
            BY <1>5, <1>a, EmptySlotTyped DEF Kill
      <2>2. live' \in [Apps -> Phases]
            BY <1>5, <1>a, PhasesTyped DEF Kill
      <2> QED BY <1>5, <1>a, <2>1, <2>2 DEF Kill, Returns, marks
<1>6. ASSUME EvictLru PROVE Typed /\ ResultTyped
      <2>1. slots' \in [Slots -> SlotRecord]
            BY <1>6, <1>a, EmptySlotTyped DEF EvictLru
      <2>2. live' \in [Apps -> Phases]
            BY <1>6, <1>a, PhasesTyped DEF EvictLru
      <2> QED BY <1>6, <1>a, <2>1, <2>2 DEF EvictLru, Returns, marks
<1>7. ASSUME Tick PROVE Typed /\ ResultTyped
      BY <1>7, <1>a, <1>b DEF Tick, table, TypeOK, marks
<1>8. ASSUME UNCHANGED vars PROVE Typed /\ ResultTyped
      BY <1>8, <1>a DEF vars, table, TypeOK, marks
<1> QED BY <1>1, <1>2, <1>3, <1>4, <1>5, <1>6, <1>7, <1>8 DEF Next

\* Every variable of the manager keeps its type.
THEOREM TypeCorrect == Spec => []TypeOK
BY InitTyped, NextTyped, PTL DEF Spec

-----------------------------------------------------------------------------
(* The table                                                               *)

\* What a launch leaves of the table but for the slot it launches: no slot
\* changes its app or its handle but the evicted one, which is emptied, and
\* none runs that has not run, nor one that has given way.
LEMMA EvictedSlots ==
    ASSUME TypeOK, OneForeground, NEW v, NEW i \in Slots,
           Evicted(v)[i].app # NoApp, i <= slotCount
    PROVE  /\ i # v
           /\ Holds(i)
           /\ Evicted(v)[i].app = slots[i].app
           /\ Evicted(v)[i].handle = slots[i].handle
           /\ Evicted(v)[i].state # "Running"
<1>1. i # v /\ Evicted(v)[i] = Vacated[i]
      BY DEF Evicted, EmptySlot
<1>2. slots[i] \in SlotRecord
      BY DEF TypeOK, SlotRecord
<1>3. Vacated[i].app = slots[i].app /\ Vacated[i].handle = slots[i].handle
      BY <1>2 DEF Vacated, SlotRecord
<1>4. Holds(i)
      BY <1>1, <1>3 DEF Holds
<1>5. Vacated[i].state # "Running"
      <2>1. CASE GivesWay(i)
            BY <1>2, <2>1 DEF Vacated, SlotRecord
      <2>2. CASE ~GivesWay(i)
            <3>1. Vacated[i] = slots[i]
                  BY <2>2 DEF Vacated
            <3>2. ~(slots[i].state = "Running")
                  BY <2>2, <1>4 DEF OneForeground, GivesWay
            <3> QED BY <3>1, <3>2
      <2> QED BY <2>1, <2>2
<1> QED BY <1>1, <1>3, <1>4, <1>5

\* The part of OneForeground about two slots, with the part about one.
Alone(i) == Holds(i) /\ slots[i].state = "Running" => IsForeground(i)
Apart(i, j) ==
    i # j /\ Holds(i) /\ Holds(j) =>
        slots[i].app # slots[j].app /\ slots[i].handle # slots[j].handle

LEMMA TableInit == Init => HandlesAreFresh /\ OneForeground
BY DEF Init, HandlesAreFresh, OneForeground, Holds, EmptySlot

LEMMA TableNext == TableInv /\ [Next]_vars => HandlesAreFresh' /\ OneForeground'
<1> SUFFICES ASSUME TypeOK, HandlesAreFresh, OneForeground, [Next]_vars
             PROVE  HandlesAreFresh' /\ OneForeground'
    BY DEF TableInv
<1>a. /\ slots \in [Slots -> SlotRecord] /\ slotCount \in Nat
      /\ foreground \in Nat \cup {Invalid} /\ nextHandle \in Nat
      BY LimitsAssumption DEF TypeOK, SlotRecord
<1>b. Slots \subseteq Int /\ Invalid = -1 /\ Nobody = 0
      BY LimitsAssumption DEF Slots, Invalid, Nobody
\* It is enough that what is in the table after the step was there before, apart
\* from fresh handles, and that nothing runs but the foreground app.
<1>c. ASSUME /\ nextHandle' = nextHandle /\ slotCount' = slotCount
             /\ \A i \in Slots : Holds(i)' =>
                    /\ Holds(i)
                    /\ slots'[i].app = slots[i].app
                    /\ slots'[i].handle = slots[i].handle
                    /\ slots'[i].state = "Running" =>
                           foreground' # Invalid /\ slots'[i].handle = foreground'
      PROVE  HandlesAreFresh' /\ OneForeground'
      <2>1. HandlesAreFresh'
            BY <1>c DEF HandlesAreFresh
      <2>2. ASSUME NEW i \in Slots, NEW j \in Slots
            PROVE  Alone(i)' /\ Apart(i, j)'
            BY <1>c, <2>2 DEF Alone, Apart, OneForeground, IsForeground
      <2> QED BY <2>1, <2>2 DEF OneForeground, Alone, Apart
<1>1. ASSUME NEW a \in Apps, Register(a) PROVE HandlesAreFresh' /\ OneForeground'
      <2>1. CASE Enters(a) /\ slotCount < MaxSlots /\ ~Registered(a)
            <3> DEFINE n == slotCount + 1
            <3>1. n \in Slots
                  BY <2>1, <1>a, LimitsAssumption DEF Slots
            <3>2. /\ slots'[n] = [app |-> a, state |-> "Unloaded", handle |-> nextHandle, used |-> 0]
                  /\ \A i \in Slots : i # n => slots'[i] = slots[i]
                  /\ slotCount' = n /\ nextHandle' = nextHandle + 1 /\ foreground' = foreground
                  BY <2>1, <3>1, <1>a DEF Enters
            <3>3. ASSUME NEW i \in Slots, i # n, Holds(i)'
                  PROVE  Holds(i) /\ slots'[i] = slots[i] /\ slots[i].app # a
                         /\ slots[i].handle \in 0 .. (nextHandle - 1)
                  <4>1. Holds(i) /\ slots'[i] = slots[i]
                        BY <3>2, <3>3, <1>a, <1>b DEF Holds
                  <4> QED BY <4>1, <2>1 DEF Registered, HandlesAreFresh
            <3>4. HandlesAreFresh'
                  BY <3>2, <3>3, <1>a DEF HandlesAreFresh
            <3>5. ASSUME NEW i \in Slots PROVE Alone(i)'
                  <4>1. CASE i = n
                        BY <4>1, <3>2 DEF Alone
                  <4>2. CASE i # n
                        BY <4>2, <3>2, <3>3 DEF Alone, OneForeground, IsForeground
                  <4> QED BY <4>1, <4>2
            <3>6. ASSUME NEW i \in Slots, NEW j \in Slots PROVE Apart(i, j)'
                  <4>1. CASE i # n /\ j # n
                        BY <4>1, <3>3 DEF Apart, OneForeground
                  <4>2. CASE i = n \/ j = n
                        BY <4>2, <3>2, <3>3, <1>a DEF Apart
                  <4> QED BY <4>1, <4>2
            <3> QED BY <3>4, <3>5, <3>6 DEF OneForeground, Alone, Apart
      <2>2. CASE UNCHANGED table
            BY <2>2, <1>c DEF table, Holds, OneForeground, IsForeground
      <2> QED BY <1>1, <2>1, <2>2 DEF Register
<1>2. ASSUME NEW a \in Apps, LaunchApp(a) PROVE HandlesAreFresh' /\ OneForeground'
      <2>1. PICK t \in Slots, v \in Slots \cup {Nobody} :
                /\ Holds(t)
                /\ slots' = [Evicted(v) EXCEPT ![t].state = "Running", ![t].used = uptime]
                /\ foreground' = slots[t].handle
                /\ UNCHANGED <<slotCount, nextHandle>>
            BY <1>2 DEF LaunchApp
      <2>2. Evicted(v) \in [Slots -> SlotRecord]
            BY EvictedTyped
      <2>3. ASSUME NEW i \in Slots, Holds(i)'
            PROVE  /\ Holds(i)
                   /\ slots'[i].app = slots[i].app
                   /\ slots'[i].handle = slots[i].handle
                   /\ slots'[i].state = "Running" =>
                          foreground' # Invalid /\ slots'[i].handle = foreground'
            <3>1. slots'[i].app = Evicted(v)[i].app /\ slots'[i].handle = Evicted(v)[i].handle
                  BY <2>1, <2>2 DEF SlotRecord
            <3>2. Evicted(v)[i].app # NoApp /\ i <= slotCount
                  BY <3>1, <2>1, <2>3 DEF Holds
            <3>3. /\ Holds(i) /\ Evicted(v)[i].app = slots[i].app
                  /\ Evicted(v)[i].handle = slots[i].handle /\ Evicted(v)[i].state # "Running"
                  BY <3>2, EvictedSlots
            <3>4. i # t => slots'[i] = Evicted(v)[i]
                  BY <2>1, <2>2
            <3>5. foreground' # Invalid
                  BY <2>1, <1>b DEF HandlesAreFresh
            <3> QED BY <2>1, <3>1, <3>3, <3>4, <3>5
      <2> QED BY <1>c, <2>1, <2>3
<1>3. ASSUME NEW a \in Apps, LaunchFails(a) PROVE HandlesAreFresh' /\ OneForeground'
      <2>1. PICK v \in Slots \cup {Nobody} :
                slots' = [i \in Slots |-> IF IsForeground(i)
                                          THEN [Evicted(v)[i] EXCEPT !.state = "Running"]
                                          ELSE Evicted(v)[i]]
            BY <1>3 DEF LaunchFails
      <2>2. UNCHANGED <<slotCount, nextHandle, foreground>>
            BY <1>3 DEF LaunchFails
      <2>3. Evicted(v) \in [Slots -> SlotRecord]
            BY EvictedTyped
      <2>4. ASSUME NEW i \in Slots, Holds(i)'
            PROVE  /\ Holds(i)
                   /\ slots'[i].app = slots[i].app
                   /\ slots'[i].handle = slots[i].handle
                   /\ slots'[i].state = "Running" =>
                          foreground' # Invalid /\ slots'[i].handle = foreground'
            <3>1. slots'[i].app = Evicted(v)[i].app /\ slots'[i].handle = Evicted(v)[i].handle
                  BY <2>1, <2>3 DEF SlotRecord
            <3>2. Evicted(v)[i].app # NoApp /\ i <= slotCount
                  BY <3>1, <2>2, <2>4 DEF Holds
            <3>3. /\ Holds(i) /\ Evicted(v)[i].app = slots[i].app
                  /\ Evicted(v)[i].handle = slots[i].handle /\ Evicted(v)[i].state # "Running"
                  BY <3>2, EvictedSlots
            <3>4. ~IsForeground(i) => slots'[i] = Evicted(v)[i]
                  BY <2>1
            <3> QED BY <2>2, <3>1, <3>3, <3>4 DEF IsForeground
      <2> QED BY <1>c, <2>2, <2>4
<1>4. ASSUME NEW i \in Slots, Suspend(i) PROVE HandlesAreFresh' /\ OneForeground'
      <2>1. CASE slots' = [slots EXCEPT ![i].state = "Suspended"]
                 /\ foreground' = IF IsForeground(i) THEN Invalid ELSE foreground
            <3>1. ASSUME NEW j \in Slots, Holds(j)'
                  PROVE  /\ Holds(j)
                         /\ slots'[j].app = slots[j].app
                         /\ slots'[j].handle = slots[j].handle
                         /\ slots'[j].state = "Running" =>
                                foreground' # Invalid /\ slots'[j].handle = foreground'
                  <4>1. /\ slots'[j].app = slots[j].app /\ slots'[j].handle = slots[j].handle
                        /\ j # i => slots'[j] = slots[j]
                        /\ slots'[i].state = "Suspended"
                        BY <2>1, <1>a DEF SlotRecord
                  <4>2. Holds(j) /\ Holds(i)
                        BY <4>1, <3>1, <1>4 DEF Holds, Suspend
                  <4>3. ASSUME slots'[j].state = "Running"
                        PROVE  foreground' # Invalid /\ slots'[j].handle = foreground'
                        <5>1. j # i /\ IsForeground(j)
                              BY <4>1, <4>2, <4>3 DEF OneForeground
                        <5>2. ~IsForeground(i)
                              BY <5>1, <4>2 DEF OneForeground, IsForeground
                        <5> QED BY <5>1, <5>2, <4>1, <2>1 DEF IsForeground
                  <4> QED BY <4>1, <4>2, <4>3
            <3> QED BY <1>c, <3>1, <1>4 DEF Suspend
      <2>2. CASE UNCHANGED <<slots, foreground>>
            BY <2>2, <1>4, <1>c DEF Suspend, Holds, OneForeground, IsForeground
      <2> QED BY <1>4, <2>1, <2>2 DEF Suspend
<1>5. ASSUME NEW i \in Slots, Kill(i) PROVE HandlesAreFresh' /\ OneForeground'
      <2>1. CASE slots' = [slots EXCEPT ![i] = EmptySlot]
                 /\ foreground' = IF IsForeground(i) THEN Invalid ELSE foreground
            <3>1. ASSUME NEW j \in Slots, Holds(j)'
                  PROVE  /\ Holds(j)
                         /\ slots'[j].app = slots[j].app
                         /\ slots'[j].handle = slots[j].handle
                         /\ slots'[j].state = "Running" =>
                                foreground' # Invalid /\ slots'[j].handle = foreground'
                  <4>1. j # i /\ slots'[j] = slots[j]
                        BY <3>1, <2>1, <1>a DEF Holds, EmptySlot
                  <4>2. Holds(j) /\ Holds(i)
                        BY <4>1, <3>1, <1>5 DEF Holds, Kill
                  <4>3. ASSUME slots'[j].state = "Running"
                        PROVE  foreground' # Invalid /\ slots'[j].handle = foreground'
                        <5>1. IsForeground(j)
                              BY <4>1, <4>2, <4>3 DEF OneForeground
                        <5>2. ~IsForeground(i)
                              BY <5>1, <4>1, <4>2 DEF OneForeground, IsForeground
                        <5> QED BY <5>1, <5>2, <4>1, <2>1 DEF IsForeground
                  <4> QED BY <4>1, <4>2, <4>3
            <3> QED BY <1>c, <3>1, <1>5 DEF Kill
      <2>2. CASE UNCHANGED <<slots, foreground>>
            BY <2>2, <1>5, <1>c DEF Kill, Holds, OneForeground, IsForeground
      <2> QED BY <1>5, <2>1, <2>2 DEF Kill
<1>6. ASSUME EvictLru PROVE HandlesAreFresh' /\ OneForeground'
      <2>1. UNCHANGED <<slotCount, foreground, nextHandle>>
            BY <1>6 DEF EvictLru
      <2>2. ASSUME NEW j \in Slots, Holds(j)' PROVE Holds(j) /\ slots'[j] = slots[j]
            BY <2>1, <2>2, <1>6 DEF EvictLru, Holds, EmptySlot
      <2> QED BY <1>c, <2>1, <2>2 DEF OneForeground, IsForeground
<1>7. ASSUME UNCHANGED table PROVE HandlesAreFresh' /\ OneForeground'
      BY <1>7, <1>c DEF table, Holds, OneForeground, IsForeground
<1>8. \/ \E a \in Apps : Register(a) \/ LaunchApp(a) \/ LaunchFails(a)
      \/ \E i \in Slots : Suspend(i) \/ Kill(i)
      \/ EvictLru
      \/ UNCHANGED table
      BY DEF Next, vars, Launch, LaunchNotFound, LaunchForeground, ListManifest, Tick
<1> QED BY <1>1, <1>2, <1>3, <1>4, <1>5, <1>6, <1>7, <1>8

LEMMA TableInvariant == Spec => []TableInv
<1>1. Init => TableInv
      BY InitTyped, TableInit DEF TableInv
<1>2. TableInv /\ [Next]_vars => TableInv'
      BY NextTyped, TableNext DEF TableInv
<1> QED BY <1>1, <1>2, PTL DEF Spec

\* Whatever is registered, launched, suspended, killed and evicted, also when the
\* heap is low and on_create fails, at most one app runs, and it is the foreground
\* app (launch, suspend, kill of app_manager.rs).
THEOREM ForegroundIsOne == Spec => []OneForeground
BY TableInvariant, PTL DEF TableInv

-----------------------------------------------------------------------------
(* The foreground handle                                                   *)

LEMMA ForegroundInit == Init => ForegroundRuns
BY DEF Init, ForegroundRuns, IsForeground, Invalid

LEMMA ForegroundNext == TableInv /\ ForegroundRuns /\ [Next]_vars => ForegroundRuns'
<1> SUFFICES ASSUME TypeOK, HandlesAreFresh, OneForeground, ForegroundRuns, [Next]_vars
             PROVE  ForegroundRuns'
    BY DEF TableInv
<1>b. /\ slots \in [Slots -> SlotRecord] /\ slotCount \in Nat
      /\ foreground \in Nat \cup {Invalid} /\ nextHandle \in Nat
      /\ Slots \subseteq Int /\ Invalid = -1 /\ Nobody = 0 /\ Nobody \notin Slots
      BY LimitsAssumption DEF TypeOK, SlotRecord, Slots, Invalid, Nobody
\* It is enough that the foreground handle stays, and with it the slot that has it.
<1>c. ASSUME foreground' = foreground, nextHandle <= nextHandle', nextHandle' \in Nat,
             stray' = stray,
             \A j \in Slots : IsForeground(j)' => IsForeground(j) /\ slots'[j].state = slots[j].state,
             \A j \in Slots : IsForeground(j) => IsForeground(j)'
      PROVE  ForegroundRuns'
      <2>1. foreground' < nextHandle'
            BY <1>b, <1>c DEF ForegroundRuns
      <2>2. ASSUME NEW j \in Slots, IsForeground(j)' PROVE slots'[j].state = "Running"
            BY <2>2, <1>c DEF ForegroundRuns
      <2> QED BY <2>1, <2>2, <1>c DEF ForegroundRuns
\* Nor does it matter what becomes of it when there is no foreground handle any more.
<1>d. ASSUME foreground' = Invalid, nextHandle' = nextHandle PROVE ForegroundRuns'
      BY <1>b, <1>d DEF ForegroundRuns, IsForeground
<1>1. ASSUME NEW a \in Apps, Register(a) PROVE ForegroundRuns'
      <2>1. CASE Enters(a) /\ slotCount < MaxSlots
            <3> DEFINE n == slotCount + 1
            <3>1. /\ foreground' = foreground /\ slotCount' = n /\ stray' = stray
                  /\ nextHandle' = nextHandle + 1 /\ n \in Slots
                  BY <2>1, <1>b, LimitsAssumption DEF Enters, marks, Slots
            <3>2. /\ slots'[n].handle = nextHandle
                  /\ \A j \in Slots : j # n => slots'[j] = slots[j]
                  BY <2>1, <3>1, <1>b DEF Enters
            <3>3. ASSUME NEW j \in Slots PROVE IsForeground(j)' <=> j # n /\ IsForeground(j)
                  <4>1. j = n => ~IsForeground(j)'
                        BY <3>1, <3>2, <1>b DEF IsForeground, ForegroundRuns
                  <4>2. j # n => (IsForeground(j)' <=> IsForeground(j))
                        BY <3>1, <3>2, <1>b DEF IsForeground, Holds
                  <4> QED BY <4>1, <4>2
            <3>4. ~IsForeground(n)
                  BY <1>b DEF IsForeground, Holds
            <3> HIDE DEF n
            <3> QED BY <1>b, <1>c, <3>1, <3>2, <3>3, <3>4
      <2>2. CASE UNCHANGED <<table, marks>>
            BY <2>2, <1>c, <1>b DEF table, marks, IsForeground, Holds
      <2> QED BY <1>1, <2>1, <2>2 DEF Register
\* The slot that is launched runs, unless it was evicted: then the handle is stray.
<1>2. ASSUME NEW a \in Apps, LaunchApp(a) PROVE ForegroundRuns'
      <2>1. PICK t \in Slots, v \in Slots \cup {Nobody} :
                /\ Holds(t)
                /\ slots' = [Evicted(v) EXCEPT ![t].state = "Running", ![t].used = uptime]
                /\ foreground' = slots[t].handle
                /\ stray' = IF t = v THEN slots[t].handle ELSE Invalid
                /\ UNCHANGED <<slotCount, nextHandle>>
            BY <1>2 DEF LaunchApp
      <2>2. Evicted(v) \in [Slots -> SlotRecord]
            BY EvictedTyped
      <2>3. slots[t].handle \in 0 .. nextHandle - 1
            BY <2>1 DEF HandlesAreFresh
      <2>4. ASSUME NEW j \in Slots, IsForeground(j)' PROVE slots'[j].state = "Running"
            <3>1. slots'[j].app = Evicted(v)[j].app /\ slots'[j].handle = Evicted(v)[j].handle
                  BY <2>1, <2>2 DEF SlotRecord
            <3>2. Evicted(v)[j].app # NoApp /\ j <= slotCount
                  BY <3>1, <2>1, <2>4 DEF IsForeground, Holds
            <3>3. Holds(j) /\ slots[j].handle = slots[t].handle
                  BY <2>1, <2>4, <3>1, <3>2, EvictedSlots DEF IsForeground
            <3>4. j = t
                  BY <3>3, <2>1 DEF OneForeground
            <3> QED BY <3>4, <2>1, <2>2 DEF SlotRecord
      <2>5. ASSUME foreground' \notin {Invalid, stray'} PROVE IsForeground(t)'
            <3>1. t # v
                  BY <2>1, <2>5
            <3>2. Evicted(v)[t].app = slots[t].app /\ Evicted(v)[t].handle = slots[t].handle
                  BY <3>1, <1>b DEF Evicted, Vacated, SlotRecord
            <3>3. slots'[t].app = slots[t].app /\ slots'[t].handle = slots[t].handle
                  BY <2>1, <2>2, <3>2 DEF SlotRecord
            <3> QED BY <2>1, <2>5, <3>3 DEF IsForeground, Holds
      <2>6. foreground' < nextHandle'
            BY <2>1, <2>3, <1>b
      <2> QED BY <2>4, <2>5, <2>6 DEF ForegroundRuns
\* A launch that fails leaves the handle, and calls its slot Running.
<1>3. ASSUME NEW a \in Apps, LaunchFails(a) PROVE ForegroundRuns'
      <2>1. PICK v \in Slots \cup {Nobody} :
                /\ Yields(v)
                /\ slots' = [i \in Slots |-> IF IsForeground(i)
                                             THEN [Evicted(v)[i] EXCEPT !.state = "Running"]
                                             ELSE Evicted(v)[i]]
            BY <1>3 DEF LaunchFails
      <2>2. UNCHANGED <<slotCount, nextHandle, foreground, stray>>
            BY <1>3 DEF LaunchFails
      <2>3. Evicted(v) \in [Slots -> SlotRecord]
            BY EvictedTyped
      <2>4. ASSUME NEW j \in Slots
            PROVE  slots'[j].app = Evicted(v)[j].app /\ slots'[j].handle = Evicted(v)[j].handle
            BY <2>1, <2>3 DEF SlotRecord
      <2>5. ASSUME NEW j \in Slots, IsForeground(j)'
            PROVE  IsForeground(j) /\ slots'[j].state = slots[j].state
            <3>1. Evicted(v)[j].app # NoApp /\ j <= slotCount
                  BY <2>2, <2>4, <2>5 DEF IsForeground, Holds
            <3>2. Holds(j) /\ Evicted(v)[j].handle = slots[j].handle
                  BY <3>1, EvictedSlots
            <3>3. IsForeground(j)
                  BY <2>2, <2>4, <2>5, <3>2 DEF IsForeground
            <3>4. slots'[j].state = "Running"
                  BY <2>1, <2>3, <3>3 DEF SlotRecord
            <3> QED BY <3>3, <3>4 DEF ForegroundRuns
      <2>6. ASSUME NEW j \in Slots, IsForeground(j) PROVE IsForeground(j)'
            <3>1. Vacated[j].app = slots[j].app /\ Vacated[j].handle = slots[j].handle
                  BY <1>b DEF Vacated, SlotRecord
            <3>2. j # v
                  <4>1. CASE v = Nobody
                        BY <4>1, <1>b
                  <4>2. CASE v # Nobody
                        BY <4>2, <2>1, <2>6, <3>1 DEF Yields, Victim, Evictable, IsForeground
                  <4> QED BY <4>1, <4>2
            <3>3. Evicted(v)[j] = Vacated[j]
                  BY <3>2 DEF Evicted
            <3> QED BY <2>2, <2>4, <2>6, <3>1, <3>3 DEF IsForeground, Holds
      <2> QED BY <1>b, <1>c, <2>2, <2>5, <2>6
<1>4. ASSUME NEW i \in Slots, Suspend(i) PROVE ForegroundRuns'
      <2>1. nextHandle' = nextHandle /\ slotCount' = slotCount /\ stray' = stray
            BY <1>4 DEF Suspend, marks
      <2>2. CASE IsForeground(i) /\ foreground' = Invalid
            BY <2>1, <2>2, <1>d
      <2>3. CASE UNCHANGED <<slots, foreground>>
            BY <2>1, <2>3, <1>b, <1>c DEF IsForeground, Holds
      <2>4. CASE ~IsForeground(i) /\ foreground' = foreground
                 /\ slots' = [slots EXCEPT ![i].state = "Suspended"]
            <3>1. \A j \in Slots : /\ slots'[j].app = slots[j].app
                                   /\ slots'[j].handle = slots[j].handle
                                   /\ j # i => slots'[j] = slots[j]
                  BY <2>4, <1>b DEF SlotRecord
            <3>2. \A j \in Slots : IsForeground(j)' <=> IsForeground(j)
                  BY <2>1, <2>4, <3>1 DEF IsForeground, Holds
            <3> QED BY <1>b, <1>c, <2>1, <2>4, <3>1, <3>2
      <2> QED BY <1>4, <2>2, <2>3, <2>4 DEF Suspend
\* A slot that is emptied is not the foreground one, or the handle goes with it.
<1>5. ASSUME nextHandle' = nextHandle, slotCount' = slotCount, stray' = stray,
             foreground' = foreground,
             \A j \in Slots : slots'[j] = slots[j] \/ (slots'[j] = EmptySlot /\ ~IsForeground(j))
      PROVE  ForegroundRuns'
      <2>1. \A j \in Slots : IsForeground(j)' <=> IsForeground(j)
            BY <1>5 DEF IsForeground, Holds, EmptySlot
      <2>2. \A j \in Slots : IsForeground(j) => slots'[j] = slots[j]
            BY <1>5
      <2> QED BY <1>b, <1>c, <1>5, <2>1, <2>2
<1>6. ASSUME NEW i \in Slots, Kill(i) PROVE ForegroundRuns'
      <2>1. nextHandle' = nextHandle /\ slotCount' = slotCount /\ stray' = stray
            BY <1>6 DEF Kill, marks
      <2>2. CASE IsForeground(i) /\ foreground' = Invalid
            BY <2>1, <2>2, <1>d
      <2>3. CASE foreground' = foreground /\ (slots' = slots \/ ~IsForeground(i))
            <3>1. \A j \in Slots : slots'[j] = slots[j] \/ (slots'[j] = EmptySlot /\ ~IsForeground(j))
                  BY <1>6, <2>3, <1>b DEF Kill
            <3> QED BY <1>5, <2>1, <2>3, <3>1
      <2> QED BY <1>6, <2>2, <2>3 DEF Kill
<1>7. ASSUME EvictLru PROVE ForegroundRuns'
      <2>1. PICK v \in Slots \cup {Nobody} :
                /\ Victim(slots, v)
                /\ slots' = [i \in Slots |-> IF i = v THEN EmptySlot ELSE slots[i]]
            BY <1>7 DEF EvictLru
      <2>2. UNCHANGED <<nextHandle, slotCount, stray, foreground>>
            BY <1>7 DEF EvictLru, marks
      <2>3. ASSUME NEW j \in Slots, IsForeground(j) PROVE j # v
            BY <2>1, <2>3, <1>b DEF Victim, Evictable, IsForeground
      <2> QED BY <1>5, <2>1, <2>2, <2>3
<1>8. ASSUME UNCHANGED <<table, marks>> PROVE ForegroundRuns'
      BY <1>8, <1>b, <1>c DEF table, marks, IsForeground, Holds
<1>9. \/ \E a \in Apps : Register(a) \/ LaunchApp(a) \/ LaunchFails(a)
      \/ \E i \in Slots : Suspend(i) \/ Kill(i)
      \/ EvictLru
      \/ UNCHANGED <<table, marks>>
      BY DEF Next, vars, Launch, LaunchNotFound, LaunchForeground, ListManifest, Tick
<1> QED BY <1>1, <1>2, <1>3, <1>4, <1>6, <1>7, <1>8, <1>9

-----------------------------------------------------------------------------
(* The phases of the apps                                                  *)

Legal(p, q) ==
    \/ q = p
    \/ p = "none" /\ q = "active"
    \/ p = "active" /\ q = "paused"
    \/ p = "paused" /\ q = "active"
    \/ p \in {"active", "paused"} /\ q = "none"

LEMMA PhasesInit == Init => PhasesMatch
BY AppsAssumption DEF Init, PhasesMatch, Holds, Registered, EmptySlot

\* Nobody is found again who was lost.
LEMMA LostGrows == [Next]_vars => Lost \subseteq Lost'
BY DEF Next, vars, marks, Register, Enters, ListManifest, Launch, LaunchNotFound, LaunchForeground,
       LaunchApp, LaunchFails, Suspend, Kill, EvictLru, Tick, Lost

\* The previous foreground app is paused or destroyed, as its slot says.
LEMMA VacatedPhases ==
    ASSUME PhaseInv
    PROVE  /\ \A i \in Slots : Holds(i) /\ slots[i].app \notin Lost =>
                  /\ VacatedLive[slots[i].app] = PhaseOf(Vacated[i].state)
                  /\ ~GivesWay(i) => VacatedLive[slots[i].app] = live[slots[i].app]
           /\ \A a \in Apps \ Lost : ~Registered(a) => VacatedLive[a] = "none"
           /\ \A a \in Apps \ Lost : Legal(live[a], VacatedLive[a])
<1>a. TypeOK /\ OneForeground /\ PhasesMatch
      BY DEF PhaseInv, TableInv
<1>b. slots \in [Slots -> SlotRecord]
      BY <1>a DEF TypeOK, SlotRecord
<1>1. ASSUME NEW i \in Slots, Holds(i), slots[i].app \notin Lost
      PROVE  /\ VacatedLive[slots[i].app] = PhaseOf(Vacated[i].state)
             /\ ~GivesWay(i) => VacatedLive[slots[i].app] = live[slots[i].app]
      <2>1. slots[i].app \in Apps
            BY <1>1, <1>b DEF Holds, SlotRecord
      <2>2. CASE GivesWay(i)
            <3>1. \/ live[slots[i].app] = "active"
                  \/ live[slots[i].app] = "paused" /\ slots[i].app \in Launchers
                  BY <1>a, <1>1, <2>2 DEF PhasesMatch, InStep, GivesWay, PhaseOf
            <3>2. Vacated[i].state = IF slots[i].app \in Launchers
                                     THEN "Backgrounded" ELSE "Unloaded"
                  BY <2>2, <1>b DEF Vacated, SlotRecord
            <3>3. VacatedLive[slots[i].app] = IF slots[i].app \in Launchers
                                              THEN "paused" ELSE "none"
                  BY <2>1, <2>2, <3>1 DEF VacatedLive, Paused, Destroyed
            <3> QED BY <2>2, <3>2, <3>3 DEF PhaseOf
      <2>3. CASE ~GivesWay(i)
            <3>1. ~ \E j \in Slots : GivesWay(j) /\ slots[j].app = slots[i].app
                  BY <1>a, <1>1, <2>3 DEF OneForeground, GivesWay, IsForeground
            <3>2. VacatedLive[slots[i].app] = live[slots[i].app] /\ Vacated[i] = slots[i]
                  BY <2>1, <2>3, <3>1 DEF VacatedLive, Vacated
            <3>3. slots[i].state # "Running"
                  BY <1>a, <1>1, <2>3 DEF OneForeground, GivesWay
            <3> QED BY <1>a, <1>1, <3>2, <3>3 DEF PhasesMatch, InStep
      <2> QED BY <2>2, <2>3
<1>2. ASSUME NEW a \in Apps \ Lost, ~Registered(a) PROVE VacatedLive[a] = "none"
      BY <1>a, <1>2 DEF VacatedLive, PhasesMatch, Registered, GivesWay, IsForeground
<1>3. ASSUME NEW a \in Apps \ Lost PROVE Legal(live[a], VacatedLive[a])
      <2>1. CASE \E i \in Slots : GivesWay(i) /\ slots[i].app = a
            <3>1. live[a] = "active" \/ (live[a] = "paused" /\ a \in Launchers)
                  BY <2>1, <1>3, <1>a DEF PhasesMatch, InStep, GivesWay, IsForeground, PhaseOf
            <3> QED BY <2>1, <3>1 DEF VacatedLive, Paused, Destroyed, Legal
      <2>2. CASE ~ \E i \in Slots : GivesWay(i) /\ slots[i].app = a
            BY <2>2 DEF VacatedLive, Legal
      <2> QED BY <2>1, <2>2
<1> QED BY <1>1, <1>2, <1>3

\* The victim of an eviction is destroyed, and nobody else.
LEMMA EvictedPhases ==
    ASSUME PhaseInv, NEW v, Yields(v)
    PROVE  /\ \A i \in Slots :
                  i <= slotCount /\ Evicted(v)[i].app # NoApp /\ slots[i].app \notin Lost =>
                  EvictedLive(v)[slots[i].app] = PhaseOf(Evicted(v)[i].state)
           /\ \A a \in Apps \ Lost :
                  (~ \E i \in Slots : i # v /\ Holds(i) /\ slots[i].app = a)
                      => EvictedLive(v)[a] = "none"
           /\ \A a \in Apps \ Lost : Legal(live[a], EvictedLive(v)[a])
<1>a. TypeOK /\ OneForeground /\ PhasesMatch
      BY DEF PhaseInv, TableInv
<1>b. slots \in [Slots -> SlotRecord] /\ Nobody \notin Slots
      BY <1>a, LimitsAssumption DEF TypeOK, SlotRecord, Slots, Nobody
<1>c. \A i \in Slots : Vacated[i].app = slots[i].app /\ Vacated[i].handle = slots[i].handle
      BY <1>b DEF Vacated, SlotRecord
<1>e. v # Nobody => /\ v \in Slots /\ Evictable(Vacated, v) /\ Holds(v) /\ ~GivesWay(v)
                    /\ slots[v].app \in Apps
      <2> SUFFICES ASSUME v # Nobody
                   PROVE  /\ v \in Slots /\ Evictable(Vacated, v) /\ Holds(v) /\ ~GivesWay(v)
                          /\ slots[v].app \in Apps
          OBVIOUS
      <2>1. v \in Slots /\ Evictable(Vacated, v)
            BY DEF Yields, Victim
      <2>2. Holds(v) /\ ~GivesWay(v)
            BY <2>1, <1>c DEF Evictable, Holds, GivesWay, IsForeground
      <2>3. slots[v].app \in Apps
            BY <1>b, <2>1, <2>2 DEF Holds, SlotRecord
      <2> QED BY <2>1, <2>2, <2>3
<1>d. v # Nobody /\ slots[v].app \notin Lost =>
                    /\ live[slots[v].app] = "paused" /\ VacatedLive[slots[v].app] = "paused"
                    /\ EvictedLive(v)[slots[v].app] = "none"
      <2> SUFFICES ASSUME v # Nobody, slots[v].app \notin Lost
                   PROVE  /\ live[slots[v].app] = "paused"
                          /\ VacatedLive[slots[v].app] = "paused"
                          /\ EvictedLive(v)[slots[v].app] = "none"
          OBVIOUS
      <2>1. Vacated[v] = slots[v]
            BY <1>e DEF Vacated
      <2>2. live[slots[v].app] = "paused"
            BY <1>a, <1>e, <2>1 DEF PhasesMatch, InStep, Evictable, PhaseOf
      <2>3. VacatedLive[slots[v].app] = "paused"
            BY <1>e, <2>2, VacatedPhases
      <2> QED BY <1>c, <1>e, <2>2, <2>3 DEF EvictedLive, Destroyed
<1>1. ASSUME NEW i \in Slots, i <= slotCount, Evicted(v)[i].app # NoApp, slots[i].app \notin Lost
      PROVE  EvictedLive(v)[slots[i].app] = PhaseOf(Evicted(v)[i].state)
      <2>1. i # v /\ Holds(i) /\ Evicted(v)[i] = Vacated[i]
            BY <1>1, <1>a, EvictedSlots DEF Evicted
      <2>2. slots[i].app \in Apps
            BY <1>b, <2>1 DEF Holds, SlotRecord
      <2>3. v # Nobody => slots[i].app # Vacated[v].app
            BY <1>a, <1>c, <1>e, <2>1 DEF OneForeground
      <2>4. EvictedLive(v)[slots[i].app] = VacatedLive[slots[i].app]
            BY <2>2, <2>3 DEF EvictedLive
      <2> QED BY <1>1, <2>1, <2>4, VacatedPhases
<1>2. ASSUME NEW a \in Apps \ Lost, ~ \E i \in Slots : i # v /\ Holds(i) /\ slots[i].app = a
      PROVE  EvictedLive(v)[a] = "none"
      <2>1. CASE v # Nobody /\ slots[v].app = a
            BY <2>1, <1>d
      <2>2. CASE ~(v # Nobody /\ slots[v].app = a)
            <3>1. ~Registered(a)
                  BY <1>2, <1>b, <2>2 DEF Registered
            <3>2. EvictedLive(v)[a] = VacatedLive[a]
                  BY <1>c, <1>e, <2>2 DEF EvictedLive
            <3> QED BY <3>1, <3>2, VacatedPhases
      <2> QED BY <2>1, <2>2
<1>3. ASSUME NEW a \in Apps \ Lost PROVE Legal(live[a], EvictedLive(v)[a])
      <2>1. CASE v # Nobody /\ slots[v].app = a
            BY <2>1, <1>d DEF Legal
      <2>2. CASE ~(v # Nobody /\ slots[v].app = a)
            <3>1. EvictedLive(v)[a] = VacatedLive[a]
                  BY <1>c, <1>e, <2>2 DEF EvictedLive
            <3> QED BY <3>1, VacatedPhases
      <2> QED BY <2>1, <2>2
<1> QED BY <1>1, <1>2, <1>3

\* A step keeps the phases in line with the table and moves every app legally.
LEMMA PhasesNext ==
    ASSUME PhaseInv, [Next]_vars
    PROVE  PhasesMatch' /\ \A a \in Apps \ Lost : Legal(live[a], live'[a])
<1>a. TypeOK /\ HandlesAreFresh /\ OneForeground /\ ForegroundRuns /\ PhasesMatch
      BY DEF PhaseInv, TableInv
<1>b. /\ slots \in [Slots -> SlotRecord] /\ slotCount \in Nat
      /\ live \in [Apps -> Phases] /\ nextHandle \in Nat
      BY <1>a, LimitsAssumption DEF TypeOK, SlotRecord, Phases
<1>c. Slots \subseteq Int /\ Invalid = -1 /\ Nobody = 0 /\ Nobody \notin Slots /\ NoApp \notin Apps
      BY LimitsAssumption, AppsAssumption DEF Slots, Invalid, Nobody
<1>d. Lost \subseteq Lost'
      BY LostGrows
<1> DEFINE Goal == PhasesMatch' /\ \A a \in Apps \ Lost : Legal(live[a], live'[a])
\* It is enough to look at the apps of which something is claimed.
<1>e. ASSUME \A i \in Slots : Holds(i)' /\ slots'[i].app \notin Lost =>
                \/ live'[slots'[i].app] = PhaseOf(slots'[i].state)
                \/ InStep(slots[i].app, slots[i].state)',
             \A b \in Apps \ Lost : ~Registered(b)' => live'[b] = "none"
      PROVE  PhasesMatch'
      <2>1. ASSUME NEW i \in Slots, Holds(i)' PROVE InStep(slots[i].app, slots[i].state)'
            BY <1>d, <1>e, <2>1 DEF InStep
      <2> QED BY <1>d, <1>e, <2>1 DEF PhasesMatch
<1>1. ASSUME NEW a \in Apps, Register(a) PROVE Goal
      <2>1. CASE Enters(a) /\ slotCount < MaxSlots /\ ~Registered(a)
            <3>1. PICK n \in Slots : n = slotCount + 1
                  BY <2>1, <1>b, LimitsAssumption DEF Slots
            <3>2. /\ slots'[n] = [app |-> a, state |-> "Unloaded", handle |-> nextHandle, used |-> 0]
                  /\ \A i \in Slots : i # n => slots'[i] = slots[i]
                  /\ slotCount' = n /\ live' = live
                  BY <2>1, <3>1, <1>b DEF Enters
            <3>3. Holds(n)'
                  BY <3>2, <1>b, <1>c DEF Holds
            <3>4. \A i \in Slots : i # n => (Holds(i)' <=> Holds(i))
                  BY <3>1, <3>2, <1>b, <1>c DEF Holds
            <3>5. ~Holds(n)
                  BY <3>1, <1>b DEF Holds
            <3>0. misled' = misled
                  BY <2>1 DEF Enters, marks
            <3>6. ASSUME NEW i \in Slots, Holds(i)', slots'[i].app \notin Lost
                  PROVE  \/ live'[slots'[i].app] = PhaseOf(slots'[i].state)
                         \/ InStep(slots[i].app, slots[i].state)'
                  <4>1. CASE i = n
                        BY <4>1, <3>2, <3>6, <2>1, <1>a DEF PhasesMatch, PhaseOf
                  <4>2. CASE i # n
                        BY <4>2, <3>0, <3>2, <3>4, <3>6, <1>a DEF PhasesMatch, InStep, Lost
                  <4> QED BY <4>1, <4>2
            <3>7. ASSUME NEW b \in Apps \ Lost, ~Registered(b)' PROVE live'[b] = "none"
                  <4>1. ~Registered(b)
                        BY <3>2, <3>4, <3>5, <3>7 DEF Registered
                  <4> QED BY <4>1, <3>2, <3>7, <1>a DEF PhasesMatch
            <3> QED BY <1>e, <3>2, <3>6, <3>7 DEF Legal
      <2>2. CASE UNCHANGED <<table, live, marks>>
            BY <2>2, <1>a DEF table, marks, PhasesMatch, InStep, Lost, Registered, Holds, Legal
      <2> QED BY <1>1, <2>1, <2>2 DEF Register
<1>2. ASSUME NEW a \in Apps, LaunchApp(a) PROVE Goal
      <2>1. PICK t \in Slots, v \in Slots \cup {Nobody} :
                /\ Holds(t) /\ slots[t].app = a /\ slots[t].handle # foreground
                /\ Yields(v)
                /\ slots' = [Evicted(v) EXCEPT ![t].state = "Running", ![t].used = uptime]
                /\ live' = [EvictedLive(v) EXCEPT ![a] =
                               IF t = v THEN @
                               ELSE IF Vacated[t].state = "Unloaded" THEN Created(@)
                               ELSE IF Vacated[t].state \in {"Backgrounded", "Suspended"}
                               THEN Resumed(@) ELSE @]
                /\ slotCount' = slotCount
            BY <1>2 DEF LaunchApp
      <2>2. /\ Evicted(v) \in [Slots -> SlotRecord]
            /\ EvictedLive(v) \in [Apps -> Phases]
            BY <1>a, EvictedTyped, EvictedLiveTyped
      <2>3. \A i \in Slots : Holds(i)' <=> (i <= slotCount /\ Evicted(v)[i].app # NoApp)
            BY <2>1, <2>2 DEF Holds, SlotRecord
      <2>4. \A i \in Slots : Holds(i)' =>
                /\ i # v /\ Holds(i)
                /\ slots'[i].app = slots[i].app
                /\ Evicted(v)[i].state # "Running"
            <3> SUFFICES ASSUME NEW i \in Slots, Holds(i)'
                         PROVE  /\ i # v /\ Holds(i) /\ slots'[i].app = slots[i].app
                                /\ Evicted(v)[i].state # "Running"
                OBVIOUS
            <3>1. slots'[i].app = Evicted(v)[i].app
                  BY <2>1, <2>2 DEF SlotRecord
            <3> QED BY <1>a, <2>3, <3>1, EvictedSlots
      \* The app that is launched and survives the eviction becomes active.
      <2>5. t # v /\ a \notin Lost =>
                /\ live[a] \in {"none", "paused"} /\ live'[a] = "active"
                /\ slots'[t].state = "Running"
            <3> SUFFICES ASSUME t # v, a \notin Lost
                         PROVE  /\ live[a] \in {"none", "paused"} /\ live'[a] = "active"
                                /\ slots'[t].state = "Running"
                OBVIOUS
            <3>1. ~GivesWay(t) /\ Evicted(v)[t] = slots[t] /\ Vacated[t] = slots[t]
                  BY <2>1 DEF GivesWay, IsForeground, Evicted, Vacated
            <3>2. Holds(t)'
                  BY <2>1, <2>3, <3>1 DEF Holds
            <3>3. slots[t].state \in {"Unloaded", "Backgrounded", "Suspended"}
                  BY <1>b, <2>4, <3>1, <3>2 DEF SlotRecord, States
            <3>4. EvictedLive(v)[a] = PhaseOf(slots[t].state)
                  BY <2>1, <2>3, <3>1, <3>2, EvictedPhases
            <3>5. live[a] = PhaseOf(slots[t].state)
                  BY <1>a, <2>1, <3>3 DEF PhasesMatch, InStep
            <3>6. live'[a] = "active"
                  BY <2>1, <2>2, <3>1, <3>3, <3>4 DEF Created, Resumed, PhaseOf
            <3>7. slots'[t].state = "Running"
                  BY <2>1, <2>2 DEF SlotRecord
            <3> QED BY <3>3, <3>5, <3>6, <3>7 DEF PhaseOf
      <2>6. /\ \A b \in Apps \ {a} : live'[b] = EvictedLive(v)[b]
            /\ t = v => live'[a] = EvictedLive(v)[a]
            BY <2>1, <2>2
      <2>7. ASSUME NEW i \in Slots, Holds(i)', slots'[i].app \notin Lost
            PROVE  live'[slots'[i].app] = PhaseOf(slots'[i].state)
            <3>1. CASE i = t
                  BY <2>1, <2>4, <2>5, <2>7, <3>1 DEF PhaseOf
            <3>2. CASE i # t
                  <4>1. slots[i].app # a /\ slots[i].app \in Apps
                        BY <1>a, <1>b, <2>1, <2>4, <2>7, <3>2 DEF OneForeground, Holds, SlotRecord
                  <4>2. slots'[i].state = Evicted(v)[i].state
                        BY <2>1, <2>2, <3>2
                  <4>3. EvictedLive(v)[slots[i].app] = PhaseOf(Evicted(v)[i].state)
                        BY <2>1, <2>3, <2>4, <2>7, EvictedPhases
                  <4> QED BY <2>4, <2>6, <2>7, <4>1, <4>2, <4>3
            <3> QED BY <3>1, <3>2
      <2>8. ASSUME NEW b \in Apps \ Lost, ~Registered(b)' PROVE live'[b] = "none"
            <3>1. ~ \E i \in Slots : i # v /\ Holds(i) /\ slots[i].app = b
                  <4> SUFFICES ASSUME NEW i \in Slots, i # v, Holds(i), slots[i].app = b
                               PROVE  FALSE
                      OBVIOUS
                  <4>1. Evicted(v)[i].app = slots[i].app
                        BY <1>b DEF Evicted, Vacated, SlotRecord
                  <4>2. Holds(i)'
                        BY <4>1, <2>3 DEF Holds
                  <4> QED BY <4>2, <2>4, <2>8 DEF Registered
            <3>2. EvictedLive(v)[b] = "none"
                  BY <2>8, <3>1, <2>1, EvictedPhases
            <3>3. b = a => t = v
                  BY <3>1, <2>1
            <3> QED BY <3>2, <3>3, <2>6
      <2>9. ASSUME NEW b \in Apps \ Lost PROVE Legal(live[b], live'[b])
            <3>1. CASE b = a /\ t # v
                  BY <3>1, <2>5, <2>9 DEF Legal
            <3>2. CASE ~(b = a /\ t # v)
                  BY <3>2, <2>1, <2>6, <2>9, EvictedPhases
            <3> QED BY <3>1, <3>2
      <2> QED BY <1>e, <2>7, <2>8, <2>9
\* A launch that fails calls the app Running that gave way to it.
<1>9. ASSUME NEW a \in Apps, LaunchFails(a) PROVE Goal
      <2>1. PICK v \in Slots \cup {Nobody} :
                /\ Yields(v)
                /\ slots' = [i \in Slots |-> IF IsForeground(i)
                                             THEN [Evicted(v)[i] EXCEPT !.state = "Running"]
                                             ELSE Evicted(v)[i]]
                /\ live' = EvictedLive(v)
                /\ misled' = misled \cup {slots[i].app : i \in {j \in Slots : GivesWay(j)}}
            BY <1>9 DEF LaunchFails
      <2>2. slotCount' = slotCount
            BY <1>9 DEF LaunchFails
      <2>3. Evicted(v) \in [Slots -> SlotRecord]
            BY <1>a, EvictedTyped
      <2>4. ASSUME NEW i \in Slots, Holds(i)'
            PROVE  /\ i # v /\ Holds(i) /\ slots'[i].app = slots[i].app
                   /\ Evicted(v)[i] = Vacated[i] /\ Evicted(v)[i].app # NoApp /\ i <= slotCount
            <3>1. slots'[i].app = Evicted(v)[i].app
                  BY <2>1, <2>3 DEF SlotRecord
            <3>2. Evicted(v)[i].app # NoApp /\ i <= slotCount
                  BY <2>2, <2>4, <3>1 DEF Holds
            <3> QED BY <1>a, <3>1, <3>2, EvictedSlots DEF Evicted
      <2>5. ASSUME NEW i \in Slots, Holds(i)', slots'[i].app \notin Lost
            PROVE  \/ live'[slots'[i].app] = PhaseOf(slots'[i].state)
                   \/ InStep(slots[i].app, slots[i].state)'
            <3>1. live'[slots[i].app] = PhaseOf(Vacated[i].state)
                  BY <2>1, <2>4, <2>5, EvictedPhases
            <3>2. CASE ~IsForeground(i)
                  BY <2>1, <2>4, <2>5, <3>1, <3>2
            <3>3. CASE IsForeground(i)
                  <4>1. GivesWay(i)
                        BY <1>a, <3>3 DEF ForegroundRuns, GivesWay
                  <4>2. slots'[i].app \in misled'
                        BY <2>1, <2>4, <2>5, <4>1
                  <4>3. slots'[i].state = "Running"
                        BY <2>1, <2>3, <3>3 DEF SlotRecord
                  <4>4. CASE slots[i].app \in Launchers
                        <5>1. Vacated[i].state = "Backgrounded"
                              BY <1>b, <4>1, <4>4 DEF Vacated, SlotRecord
                        <5>2. live'[slots'[i].app] = "paused"
                              BY <2>4, <2>5, <3>1, <5>1 DEF PhaseOf
                        <5> QED BY <2>4, <2>5, <4>2, <4>3, <4>4, <5>2 DEF InStep
                  <4>5. CASE slots[i].app \notin Launchers
                        BY <2>4, <2>5, <4>2, <4>5 DEF InStep, Lost
                  <4> QED BY <4>4, <4>5
            <3> QED BY <3>2, <3>3
      <2>6. ASSUME NEW b \in Apps \ Lost, ~Registered(b)' PROVE live'[b] = "none"
            <3>1. ~ \E i \in Slots : i # v /\ Holds(i) /\ slots[i].app = b
                  <4> SUFFICES ASSUME NEW i \in Slots, i # v, Holds(i), slots[i].app = b
                               PROVE  FALSE
                      OBVIOUS
                  <4>1. slots'[i].app = slots[i].app
                        BY <1>b, <2>1, <2>3 DEF Evicted, Vacated, SlotRecord
                  <4>2. Holds(i)'
                        BY <2>2, <4>1 DEF Holds
                  <4> QED BY <4>1, <4>2, <2>6 DEF Registered
            <3> QED BY <2>1, <2>6, <3>1, EvictedPhases
      <2>7. \A b \in Apps \ Lost : Legal(live[b], live'[b])
            BY <2>1, EvictedPhases
      <2> QED BY <1>e, <2>5, <2>6, <2>7
<1>3. ASSUME NEW i \in Slots, Suspend(i) PROVE Goal
      <2>1. CASE /\ slots[i].state \in {"Running", "Backgrounded"}
                 /\ slots' = [slots EXCEPT ![i].state = "Suspended"]
                 /\ live' = [live EXCEPT ![slots[i].app] = Paused(@)]
            <3>1. /\ Holds(i) /\ slotCount' = slotCount /\ slots[i].app \in Apps
                  BY <1>3, <1>b DEF Suspend, Holds, SlotRecord
            <3>2. \A j \in Slots : /\ slots'[j].app = slots[j].app
                                   /\ slots'[j].state = IF j = i THEN "Suspended" ELSE slots[j].state
                  BY <2>1, <1>b DEF SlotRecord
            <3>3. slots[i].app \notin Lost =>
                     live[slots[i].app] \in {"active", "paused"} /\ live'[slots[i].app] = "paused"
                  BY <2>1, <3>1, <1>a, <1>b DEF PhasesMatch, InStep, PhaseOf, Paused
            <3>0. misled' = misled
                  BY <1>3 DEF Suspend, marks
            <3>4. \A b \in Apps : b # slots[i].app => live'[b] = live[b]
                  BY <2>1, <1>b
            <3>5. \A j \in Slots : Holds(j)' = Holds(j)
                  BY <3>1, <3>2 DEF Holds
            <3>6. ASSUME NEW j \in Slots, Holds(j)', slots'[j].app \notin Lost
                  PROVE  \/ live'[slots'[j].app] = PhaseOf(slots'[j].state)
                         \/ InStep(slots[j].app, slots[j].state)'
                  <4>1. CASE j = i
                        BY <4>1, <3>2, <3>3, <3>6 DEF PhaseOf
                  <4>2. CASE j # i
                        <5>1. Holds(j) /\ slots[j].app # slots[i].app /\ slots[j].app \in Apps
                              BY <4>2, <3>1, <3>5, <3>6, <1>a, <1>b DEF OneForeground, Holds, SlotRecord
                        <5> QED BY <5>1, <4>2, <3>0, <3>2, <3>4, <1>a DEF PhasesMatch, InStep, Lost
                  <4> QED BY <4>1, <4>2
            <3>7. ASSUME NEW b \in Apps \ Lost, ~Registered(b)' PROVE live'[b] = "none"
                  <4>1. ~Registered(b)
                        BY <3>7, <3>2, <3>5 DEF Registered
                  <4>2. b # slots[i].app
                        BY <4>1, <3>1 DEF Registered
                  <4> QED BY <4>1, <4>2, <3>4, <3>7, <1>a DEF PhasesMatch
            <3>8. \A b \in Apps \ Lost : Legal(live[b], live'[b])
                  BY <3>3, <3>4 DEF Legal
            <3> QED BY <1>e, <3>6, <3>7, <3>8
      <2>2. CASE UNCHANGED <<slots, live>>
            BY <2>2, <1>3, <1>a DEF Suspend, marks, PhasesMatch, InStep, Lost, Registered, Holds, Legal
      <2> QED BY <1>3, <2>1, <2>2 DEF Suspend
\* A slot is emptied and its app is destroyed: by kill, and by evict_lru.
<1>4. ASSUME NEW i \in Slots, Holds(i), slots[i].state # "Unloaded", slotCount' = slotCount,
             misled' = misled,
             \A j \in Slots : slots'[j] = IF j = i THEN EmptySlot ELSE slots[j],
             \A b \in Apps : live'[b] = IF b = slots[i].app THEN Destroyed(live[b]) ELSE live[b]
      PROVE  Goal
      <2>1. slots[i].app \in Apps
            BY <1>4, <1>b DEF Holds, SlotRecord
      <2>2. slots[i].app \notin Lost =>
               live[slots[i].app] \in {"active", "paused"} /\ live'[slots[i].app] = "none"
            BY <1>4, <2>1, <1>a, <1>b DEF PhasesMatch, InStep, PhaseOf, Destroyed
      <2>3. \A j \in Slots : Holds(j)' <=> (j # i /\ Holds(j))
            BY <1>4 DEF Holds, EmptySlot
      <2>4. ASSUME NEW j \in Slots, Holds(j)', slots'[j].app \notin Lost
            PROVE  \/ live'[slots'[j].app] = PhaseOf(slots'[j].state)
                   \/ InStep(slots[j].app, slots[j].state)'
            <3>1. j # i /\ Holds(j) /\ slots[j].app \in Apps
                  BY <2>3, <2>4, <1>b DEF Holds, SlotRecord
            <3>2. slots[j].app # slots[i].app
                  BY <3>1, <1>4, <1>a DEF OneForeground
            <3> QED BY <3>1, <3>2, <1>4, <1>a DEF PhasesMatch, InStep, Lost
      <2>5. ASSUME NEW b \in Apps \ Lost, ~Registered(b)' PROVE live'[b] = "none"
            <3>1. CASE b = slots[i].app
                  BY <3>1, <2>2, <2>5
            <3>2. CASE b # slots[i].app
                  <4>1. ~Registered(b)
                        BY <3>2, <2>3, <2>5, <1>4 DEF Registered
                  <4> QED BY <4>1, <2>5, <3>2, <1>4, <1>a DEF PhasesMatch
            <3> QED BY <3>1, <3>2
      <2>6. \A b \in Apps \ Lost : Legal(live[b], live'[b])
            BY <1>4, <2>2 DEF Legal
      <2> QED BY <1>e, <2>4, <2>5, <2>6
<1>5. ASSUME NEW i \in Slots, Kill(i) PROVE Goal
      <2>1. CASE slots[i].state # "Unloaded"
            BY <1>4, <1>5, <2>1, <1>b DEF Kill, marks
      <2>2. CASE UNCHANGED <<slots, live>>
            BY <2>2, <1>5, <1>a DEF Kill, marks, PhasesMatch, InStep, Lost, Registered, Holds, Legal
      <2> QED BY <1>5, <2>1, <2>2 DEF Kill
<1>6. ASSUME EvictLru PROVE Goal
      <2>1. PICK v \in Slots \cup {Nobody} :
                /\ Victim(slots, v)
                /\ slots' = [i \in Slots |-> IF i = v THEN EmptySlot ELSE slots[i]]
                /\ live' = [a \in Apps |-> IF v # Nobody /\ a = slots[v].app
                                           THEN Destroyed(live[a]) ELSE live[a]]
                /\ slotCount' = slotCount /\ misled' = misled
            BY <1>6 DEF EvictLru, marks
      <2>2. CASE v = Nobody
            <3>1. slots' = slots /\ live' = live
                  BY <2>1, <2>2, <1>b, <1>c
            <3> QED BY <3>1, <2>1, <1>a DEF PhasesMatch, InStep, Lost, Registered, Holds, Legal
      <2>3. CASE v # Nobody
            <3>1. v \in Slots /\ Holds(v) /\ slots[v].state # "Unloaded"
                  BY <2>1, <2>3 DEF Victim, Evictable, Holds
            <3> QED BY <1>4, <2>1, <2>3, <3>1
      <2> QED BY <2>2, <2>3
<1>7. ASSUME UNCHANGED <<table, live, marks>> PROVE Goal
      BY <1>7, <1>a DEF table, marks, PhasesMatch, InStep, Lost, Registered, Holds, Legal
<1>8. \/ \E a \in Apps : Register(a) \/ LaunchApp(a) \/ LaunchFails(a)
      \/ \E i \in Slots : Suspend(i) \/ Kill(i)
      \/ EvictLru
      \/ UNCHANGED <<table, live, marks>>
      BY DEF Next, vars, Launch, LaunchNotFound, LaunchForeground, ListManifest, Tick
<1> QED BY <1>1, <1>2, <1>9, <1>3, <1>5, <1>6, <1>7, <1>8

LEMMA PhaseInvariant == Spec => []PhaseInv
<1>1. Init => PhaseInv
      BY InitTyped, TableInit, ForegroundInit, PhasesInit DEF PhaseInv, TableInv
<1>2. PhaseInv /\ [Next]_vars => PhaseInv'
      BY NextTyped, TableNext, ForegroundNext, PhasesNext DEF PhaseInv, TableInv
<1> QED BY <1>1, <1>2, PTL DEF Spec

\* Every app receives its callbacks in the order it can rely on: it is created before it is
\* resumed or destroyed, and destroyed once, also when an eviction on a low heap empties the
\* slot of the app being launched, and when on_create fails, up to and with the launch that
\* fails over it; the launcher always (launch, suspend, kill and evict_lru of
\* app_manager.rs).
THEOREM CallbacksInOrder == Spec => CallbackProtocol
<1>1. PhaseInv /\ [Next]_vars => [\A a \in Apps : a \notin misled \ Launchers => InOrder(a)]_vars
      <2> SUFFICES ASSUME PhaseInv, [Next]_vars, NEW a \in Apps, a \notin Lost
                   PROVE  InOrder(a)
          BY DEF Lost
      <2>1. Legal(live[a], live'[a])
            BY PhasesNext
      <2>2. live[a] \in {"none", "active", "paused"}
            BY DEF PhaseInv, PhasesMatch, InStep, Registered, PhaseOf
      <2> QED BY <2>1, <2>2 DEF Legal, InOrder
<1> QED BY <1>1, PhaseInvariant, PTL DEF Spec, CallbackProtocol

\* The foreground handle names an app that is in its slot, runs and has been started or
\* resumed, whatever fails and whoever is evicted: but for the handle that its own launch
\* has made stray, and an app that was called Running again after a launch over it failed
\* (launch of app_manager.rs).
THEOREM ForegroundLives == Spec => []ForegroundIsAlive
<1>1. PhaseInv => ForegroundIsAlive
      BY DEF PhaseInv, PhasesMatch, InStep, Lost, PhaseOf, ForegroundRuns, ForegroundIsAlive,
             IsForeground
<1> QED BY <1>1, PhaseInvariant, PTL

-----------------------------------------------------------------------------
(* Eviction                                                                *)

\* No suspended app is the foreground app, and no app was used in the future: this
\* holds with a low heap and an on_create that fails as well.
SuspendedIsAway ==
    \A i \in Slots : Holds(i) /\ slots[i].state = "Suspended" => ~IsForeground(i)

UsedBefore == \A i \in Slots : slots[i].used <= uptime

EvictionInv == TableInv /\ SuspendedIsAway /\ UsedBefore

LEMMA EvictionInit == Init => EvictionInv
<1> SUFFICES ASSUME Init PROVE EvictionInv
    OBVIOUS
<1>1. TableInv
      BY InitTyped, TableInit DEF TableInv
<1> QED BY <1>1 DEF Init, EvictionInv, SuspendedIsAway, UsedBefore, Holds, EmptySlot

\* A launch changes neither the times nor, but for those it names, the states.
LEMMA EvictedRest ==
    ASSUME TypeOK, UsedBefore, NEW v, NEW i \in Slots
    PROVE  /\ Evicted(v)[i].used \in Nat /\ Evicted(v)[i].used <= uptime
           /\ Evicted(v)[i].app # NoApp => /\ Evicted(v)[i].state = "Suspended" =>
                                                slots[i].state = "Suspended"
                                          /\ Evicted(v)[i].app = slots[i].app
                                          /\ Evicted(v)[i].handle = slots[i].handle
<1>1. slots[i] \in SlotRecord /\ uptime \in Nat
      BY LimitsAssumption DEF TypeOK, SlotRecord
<1>2. Vacated[i] \in {slots[i], [slots[i] EXCEPT !.state = "Backgrounded"],
                      [slots[i] EXCEPT !.state = "Unloaded"]}
      BY DEF Vacated
<1>3. Evicted(v)[i] = EmptySlot \/ Evicted(v)[i] = Vacated[i]
      BY DEF Evicted
<1>4. EmptySlot.used = 0 /\ EmptySlot.app = NoApp
      BY DEF EmptySlot
<1>5. CASE Evicted(v)[i] = EmptySlot
      BY <1>1, <1>4, <1>5
<1>6. CASE Evicted(v)[i] = Vacated[i]
      <2>1. Vacated[i].used = slots[i].used
            BY <1>1, <1>2 DEF SlotRecord
      <2>2. slots[i].used \in Nat /\ slots[i].used <= uptime
            BY <1>1 DEF SlotRecord, UsedBefore
      <2>3. /\ Vacated[i].app = slots[i].app /\ Vacated[i].handle = slots[i].handle
            /\ Vacated[i].state = "Suspended" => slots[i].state = "Suspended"
            BY <1>1, <1>2 DEF SlotRecord
      <2> QED BY <1>6, <2>1, <2>2, <2>3
<1> QED BY <1>3, <1>5, <1>6

LEMMA UsedNext == TypeOK /\ UsedBefore /\ [Next]_vars => UsedBefore'
<1> SUFFICES ASSUME TypeOK, UsedBefore, [Next]_vars PROVE UsedBefore'
    OBVIOUS
<1>a. /\ slots \in [Slots -> SlotRecord] /\ uptime \in Nat
      /\ EmptySlot.used = 0 /\ EmptySlot \in SlotRecord
      BY EmptySlotTyped, LimitsAssumption DEF TypeOK, SlotRecord, EmptySlot
<1>1. ASSUME NEW a \in Apps, Register(a) PROVE UsedBefore'
      <2>1. CASE UNCHANGED <<table, uptime>>
            BY <2>1 DEF table, UsedBefore
      <2>2. CASE Enters(a)
            <3>1. /\ uptime' = uptime
                  /\ \A i \in Slots : slots'[i] = slots[i] \/ slots'[i].used = 0
                  BY <2>2, <1>a DEF Enters
            <3> QED BY <3>1, <1>a DEF UsedBefore
      <2> QED BY <1>1, <2>1, <2>2 DEF Register
<1>2. ASSUME NEW a \in Apps, LaunchApp(a) PROVE UsedBefore'
      <2>1. PICK t \in Slots, v \in Slots \cup {Nobody} :
                slots' = [Evicted(v) EXCEPT ![t].state = "Running", ![t].used = uptime]
            BY <1>2 DEF LaunchApp
      <2>2. Evicted(v) \in [Slots -> SlotRecord] /\ uptime' = uptime
            BY <1>2, EvictedTyped DEF LaunchApp
      <2>3. \A i \in Slots : slots'[i].used \in {uptime, Evicted(v)[i].used}
            BY <2>1, <2>2 DEF SlotRecord
      <2> QED BY <2>2, <2>3, <1>a, EvictedRest DEF UsedBefore
<1>3. ASSUME NEW a \in Apps, LaunchFails(a) PROVE UsedBefore'
      <2>1. PICK v \in Slots \cup {Nobody} :
                slots' = [i \in Slots |-> IF IsForeground(i)
                                          THEN [Evicted(v)[i] EXCEPT !.state = "Running"]
                                          ELSE Evicted(v)[i]]
            BY <1>3 DEF LaunchFails
      <2>2. Evicted(v) \in [Slots -> SlotRecord] /\ uptime' = uptime
            BY <1>3, EvictedTyped DEF LaunchFails
      <2>3. \A i \in Slots : slots'[i].used = Evicted(v)[i].used
            BY <2>1, <2>2 DEF SlotRecord
      <2> QED BY <2>2, <2>3, EvictedRest DEF UsedBefore
<1>4. ASSUME NEW i \in Slots, Suspend(i) \/ Kill(i) PROVE UsedBefore'
      <2>1. uptime' = uptime /\ \A j \in Slots : slots'[j].used \in {slots[j].used, 0}
            BY <1>4, <1>a DEF Suspend, Kill, SlotRecord
      <2> QED BY <2>1, <1>a DEF UsedBefore
<1>5. ASSUME EvictLru PROVE UsedBefore'
      <2>1. uptime' = uptime /\ \A j \in Slots : slots'[j].used \in {slots[j].used, 0}
            BY <1>5, <1>a DEF EvictLru
      <2> QED BY <2>1, <1>a DEF UsedBefore
<1>6. ASSUME Tick PROVE UsedBefore'
      <2>1. \A i \in Slots : slots[i].used \in Nat /\ slots[i].used <= uptime
            BY <1>a DEF UsedBefore, SlotRecord
      <2> QED BY <1>6, <2>1, <1>a DEF Tick, table, UsedBefore
<1>7. ASSUME UNCHANGED <<table, uptime>> PROVE UsedBefore'
      BY <1>7 DEF table, UsedBefore
<1>8. \/ \E a \in Apps : Register(a) \/ LaunchApp(a) \/ LaunchFails(a)
      \/ \E i \in Slots : Suspend(i) \/ Kill(i)
      \/ EvictLru \/ Tick \/ UNCHANGED <<table, uptime>>
      BY DEF Next, vars, Launch, LaunchNotFound, LaunchForeground, ListManifest
<1> QED BY <1>1, <1>2, <1>3, <1>4, <1>5, <1>6, <1>7, <1>8

LEMMA SuspendedNext ==
    TableInv /\ UsedBefore /\ SuspendedIsAway /\ [Next]_vars => SuspendedIsAway'
<1> SUFFICES ASSUME TypeOK, HandlesAreFresh, OneForeground, UsedBefore, SuspendedIsAway,
                    [Next]_vars
             PROVE  SuspendedIsAway'
    BY DEF TableInv
<1>a. slots \in [Slots -> SlotRecord] /\ slotCount \in Nat
      BY LimitsAssumption DEF TypeOK, SlotRecord
\* It is enough that no slot becomes suspended, and none becomes the foreground slot.
<1>b. ASSUME /\ foreground' \in {foreground, Invalid}
             /\ \A i \in Slots : Holds(i)' /\ slots'[i].state = "Suspended" =>
                   /\ Holds(i) /\ slots'[i].handle = slots[i].handle
                   /\ (slots[i].state = "Suspended" \/ ~IsForeground(i))
      PROVE  SuspendedIsAway'
      <2> SUFFICES ASSUME NEW i \in Slots, Holds(i)', slots'[i].state = "Suspended", IsForeground(i)'
                   PROVE  FALSE
          BY DEF SuspendedIsAway
      <2>1. foreground' = foreground
            BY <1>b DEF IsForeground
      <2>2. IsForeground(i)
            BY <1>b, <2>1 DEF IsForeground
      <2> QED BY <1>b, <2>2 DEF SuspendedIsAway
<1>1. ASSUME NEW a \in Apps, Register(a) PROVE SuspendedIsAway'
      <2>1. CASE UNCHANGED table
            BY <2>1, <1>b DEF table, Holds
      <2>2. CASE Enters(a) /\ slotCount < MaxSlots
            <3>1. \A i \in Slots : slots'[i] = slots[i] \/ slots'[i].state = "Unloaded"
                  BY <2>2, <1>a DEF Enters
            <3>2. \A i \in Slots : i <= slotCount + 1 /\ slots'[i].state # "Unloaded" =>
                                      i <= slotCount
                  <4>1. slotCount + 1 \in Slots
                        BY <2>2, <1>a, LimitsAssumption DEF Slots
                  <4>2. slots'[slotCount + 1].state = "Unloaded"
                        BY <2>2, <4>1, <1>a DEF Enters
                  <4>3. \A i \in Slots : i \in Int
                        BY DEF Slots
                  <4>4. \A i \in Slots : i <= slotCount + 1 => i <= slotCount \/ i = slotCount + 1
                        BY <4>3, <1>a
                  <4> QED BY <4>2, <4>4
            <3>3. foreground' = foreground /\ slotCount' = slotCount + 1
                  BY <2>2 DEF Enters
            <3>4. ASSUME NEW i \in Slots, Holds(i)', slots'[i].state = "Suspended"
                  PROVE  Holds(i) /\ slots'[i] = slots[i]
                  BY <3>1, <3>2, <3>3, <3>4 DEF Holds
            <3> QED BY <3>3, <3>4, <1>b
      <2> QED BY <1>1, <2>1, <2>2 DEF Register
<1>2. ASSUME NEW a \in Apps, LaunchApp(a) PROVE SuspendedIsAway'
      <2>1. PICK t \in Slots, v \in Slots \cup {Nobody} :
                /\ Holds(t)
                /\ slots' = [Evicted(v) EXCEPT ![t].state = "Running", ![t].used = uptime]
                /\ foreground' = slots[t].handle /\ slotCount' = slotCount
            BY <1>2 DEF LaunchApp
      <2>2. Evicted(v) \in [Slots -> SlotRecord]
            BY EvictedTyped
      <2>3. slots'[t].state = "Running" /\ \A i \in Slots \ {t} : slots'[i] = Evicted(v)[i]
            BY <2>1, <2>2 DEF SlotRecord
      <2>4. ASSUME NEW i \in Slots, Holds(i)', slots'[i].state = "Suspended"
            PROVE  ~IsForeground(i)'
            <3>1. i # t /\ slots'[i] = Evicted(v)[i] /\ i <= slotCount
                  BY <2>1, <2>3, <2>4 DEF Holds
            <3>2. Holds(i) /\ slots'[i].handle = slots[i].handle
                  BY <2>1, <2>4, <3>1, EvictedSlots DEF Holds
            <3>3. slots[i].handle # slots[t].handle
                  BY <2>1, <3>1, <3>2 DEF OneForeground
            <3> QED BY <2>1, <3>2, <3>3 DEF IsForeground
      <2> QED BY <2>4 DEF SuspendedIsAway
<1>3. ASSUME NEW a \in Apps, LaunchFails(a) PROVE SuspendedIsAway'
      <2>1. PICK v \in Slots \cup {Nobody} :
                slots' = [i \in Slots |-> IF IsForeground(i)
                                          THEN [Evicted(v)[i] EXCEPT !.state = "Running"]
                                          ELSE Evicted(v)[i]]
            BY <1>3 DEF LaunchFails
      <2>2. Evicted(v) \in [Slots -> SlotRecord] /\ foreground' = foreground /\ slotCount' = slotCount
            BY <1>3, EvictedTyped DEF LaunchFails
      <2>3. ASSUME NEW i \in Slots, Holds(i)', slots'[i].state = "Suspended"
            PROVE  Holds(i) /\ slots'[i].handle = slots[i].handle /\ ~IsForeground(i)
            <3>1. ~IsForeground(i) /\ slots'[i] = Evicted(v)[i]
                  BY <2>1, <2>2, <2>3 DEF SlotRecord
            <3>2. Holds(i) /\ slots'[i].handle = slots[i].handle
                  BY <2>2, <2>3, <3>1, EvictedSlots DEF Holds
            <3> QED BY <3>1, <3>2
      <2> QED BY <2>2, <2>3, <1>b
<1>4. ASSUME NEW i \in Slots, Suspend(i) PROVE SuspendedIsAway'
      <2>1. CASE UNCHANGED <<slots, foreground>>
            BY <1>4, <2>1, <1>b DEF Suspend, Holds
      <2>2. CASE /\ slots' = [slots EXCEPT ![i].state = "Suspended"]
                 /\ foreground' = IF IsForeground(i) THEN Invalid ELSE foreground
            <3>1. CASE IsForeground(i)
                  BY <2>2, <3>1 DEF SuspendedIsAway, IsForeground
            <3>2. CASE ~IsForeground(i)
                  <4>1. /\ foreground' = foreground /\ slotCount' = slotCount /\ Holds(i)
                        BY <1>4, <2>2, <3>2 DEF Suspend
                  <4>2. \A j \in Slots : /\ slots'[j].handle = slots[j].handle
                                       /\ slots'[j].app = slots[j].app
                                       /\ (slots'[j] = slots[j] \/ j = i)
                        BY <2>2, <1>a DEF SlotRecord
                  <4>3. \A j \in Slots : Holds(j)' /\ slots'[j].state = "Suspended" =>
                           /\ Holds(j) /\ slots'[j].handle = slots[j].handle
                           /\ (slots[j].state = "Suspended" \/ ~IsForeground(j))
                        <5> SUFFICES ASSUME NEW j \in Slots, Holds(j)',
                                            slots'[j].state = "Suspended"
                                     PROVE  /\ Holds(j) /\ slots'[j].handle = slots[j].handle
                                            /\ (slots[j].state = "Suspended" \/ ~IsForeground(j))
                            OBVIOUS
                        <5>1. CASE j = i
                              <6>1. ~IsForeground(j)
                                    BY <5>1, <3>2
                              <6>2. Holds(j) /\ slots'[j].handle = slots[j].handle
                                    BY <4>1, <4>2 DEF Holds
                              <6> QED BY <6>1, <6>2
                        <5>2. CASE slots'[j] = slots[j]
                              BY <5>2, <4>1, <4>2 DEF Holds
                        <5> QED BY <4>2, <5>1, <5>2
                  <4> QED BY <4>1, <4>3, <1>b
            <3> QED BY <3>1, <3>2
      <2> QED BY <1>4, <2>1, <2>2 DEF Suspend
<1>5. ASSUME foreground' \in {foreground, Invalid}, slotCount' = slotCount,
             \A i \in Slots : slots'[i] \in {slots[i], EmptySlot}
      PROVE  SuspendedIsAway'
      <2>1. \A i \in Slots : Holds(i)' => Holds(i) /\ slots'[i] = slots[i]
            BY <1>5 DEF Holds, EmptySlot
      <2> QED BY <1>5, <2>1, <1>b
<1>6. ASSUME NEW i \in Slots, Kill(i) PROVE SuspendedIsAway'
      BY <1>6, <1>5, <1>a DEF Kill
<1>7. ASSUME EvictLru PROVE SuspendedIsAway'
      BY <1>7, <1>5 DEF EvictLru
<1>8. ASSUME UNCHANGED table PROVE SuspendedIsAway'
      BY <1>8, <1>5 DEF table
<1>9. \/ \E a \in Apps : Register(a) \/ LaunchApp(a) \/ LaunchFails(a)
      \/ \E i \in Slots : Suspend(i) \/ Kill(i)
      \/ EvictLru \/ UNCHANGED table
      BY DEF Next, vars, Launch, LaunchNotFound, LaunchForeground, ListManifest, Tick
<1> QED BY <1>1, <1>2, <1>3, <1>4, <1>6, <1>7, <1>8, <1>9

\* While the clock has not saturated, every suspended app but the launcher can be
\* evicted, in the table as it is and as a launch leaves it.
LEMMA SuspendedIsEvictable ==
    ASSUME Horizon < MaxUptime, EvictionInv, NEW s \in {slots, Vacated}, NEW j \in Slots,
           Holds(j), slots[j].state = "Suspended", slots[j].app \notin Launchers
    PROVE  Evictable(s, j) /\ s[j] = slots[j]
<1>1. slots[j] \in SlotRecord /\ uptime \in 0 .. Horizon /\ MaxUptime \in Nat /\ Horizon \in Nat
      BY LimitsAssumption DEF EvictionInv, TableInv, TypeOK, SlotRecord
<1>2. ~IsForeground(j)
      BY DEF EvictionInv, SuspendedIsAway
<1>3. s[j] = slots[j]
      BY <1>2 DEF Vacated, GivesWay
<1>4. slots[j].used \in Nat /\ slots[j].used <= uptime
      BY <1>1 DEF EvictionInv, UsedBefore, SlotRecord
<1>5. s[j].used < MaxUptime
      BY <1>1, <1>3, <1>4
<1>6. slots[j].handle # foreground
      <2>1. slots[j].handle \in Nat
            BY DEF EvictionInv, TableInv, HandlesAreFresh
      <2> QED BY <1>2, <2>1 DEF IsForeground, Invalid
<1> QED BY <1>3, <1>5, <1>6 DEF Evictable, Holds

\* A victim is not on the screen and was used no later than any suspended app.
LEMMA VictimIsOldest ==
    ASSUME Horizon < MaxUptime, EvictionInv, NEW s \in {slots, Vacated},
           NEW v \in Slots, Victim(s, v)
    PROVE  /\ slots[v].state \in {"Suspended", "Backgrounded"} /\ ~IsForeground(v)
           /\ \A j \in Slots : Holds(j) /\ slots[j].state = "Suspended"
                                        /\ slots[j].app \notin Launchers =>
                              slots[v].used <= slots[j].used
<1>0. v # Nobody /\ slots \in [Slots -> SlotRecord]
      BY LimitsAssumption DEF Slots, Nobody, EvictionInv, TableInv, TypeOK, SlotRecord
<1>1. Evictable(s, v) /\ \A i \in Slots \ {v} : Evictable(s, i) => Older(s, v, i)
      BY <1>0 DEF Victim
<1>2. s[v].handle = slots[v].handle
      BY <1>0 DEF Vacated, SlotRecord
<1>3. ~IsForeground(v)
      BY <1>1, <1>2 DEF Evictable, IsForeground
<1>4. s[v] = slots[v]
      BY <1>3 DEF Vacated, GivesWay
<1>5. ASSUME NEW j \in Slots, Holds(j), slots[j].state = "Suspended",
             slots[j].app \notin Launchers
      PROVE  slots[v].used <= slots[j].used
      <2>1. Evictable(s, j) /\ s[j] = slots[j]
            BY <1>5, SuspendedIsEvictable
      <2>2. slots[v].used \in Nat /\ slots[j].used \in Nat
            BY <1>0 DEF SlotRecord
      <2>3. CASE j = v
            BY <2>2, <2>3
      <2>4. CASE j # v
            BY <1>1, <1>4, <2>1, <2>2, <2>4 DEF Older
      <2> QED BY <2>3, <2>4
<1> QED BY <1>1, <1>3, <1>4, <1>5 DEF Evictable

\* As long as the clock of milliseconds has not saturated (49 days), an app that
\* loses its slot without being killed is away from the screen and was used no later
\* than any suspended one, and evict_lru finds a victim whenever an app is
\* suspended; also with a low heap and an on_create that fails (evict_lru, launch).
THEOREM EvictsOldest ==
    ASSUME Horizon < MaxUptime
    PROVE  Spec => EvictsLeastRecentlyUsed
<1> DEFINE Silent ==
        result' # result /\ result'.call = "evict" /\ result'.rc = "NOT_FOUND" =>
            \A i \in Slots : Holds(i) /\ slots[i].app \notin Launchers =>
                                 slots[i].state # "Suspended"
           Fair ==
        \A i \in Slots :
            Holds(i) /\ slots'[i].app = NoApp /\ result'.call # "kill" =>
                /\ slots[i].state \in {"Suspended", "Backgrounded"}
                /\ ~IsForeground(i)
                /\ \A j \in Slots :
                      Holds(j) /\ slots[j].state = "Suspended"
                               /\ slots[j].app \notin Launchers =>
                          slots[i].used <= slots[j].used
<1>1. EvictionInv /\ [Next]_vars => EvictionInv'
      <2> SUFFICES ASSUME EvictionInv, [Next]_vars PROVE EvictionInv'
          OBVIOUS
      <2>1. TableInv'
            BY NextTyped, TableNext DEF EvictionInv, TableInv
      <2> QED BY <2>1, UsedNext, SuspendedNext DEF EvictionInv, TableInv
<1>2. ASSUME EvictionInv, [Next]_vars PROVE Silent
      <2> SUFFICES ASSUME result' # result, result'.call = "evict", result'.rc = "NOT_FOUND",
                          NEW j \in Slots, Holds(j), slots[j].app \notin Launchers,
                          slots[j].state = "Suspended"
                   PROVE  FALSE
          OBVIOUS
      <2>1. EvictLru
            <3>1. ASSUME NEW a \in Apps, Register(a) PROVE FALSE
                  BY <3>1 DEF Register, Enters, Returns
            <3>2. ASSUME NEW a \in Apps, LaunchApp(a) PROVE FALSE
                  BY <3>2 DEF LaunchApp, Returns
            <3>3. ASSUME NEW a \in Apps, LaunchFails(a) PROVE FALSE
                  BY <3>3 DEF LaunchFails, Returns
            <3>4. ASSUME NEW a \in Apps, LaunchNotFound(a) \/ LaunchForeground(a)
                  PROVE  FALSE
                  BY <3>4 DEF LaunchNotFound, LaunchForeground, Returns
            <3>5. ASSUME NEW i \in Slots, Suspend(i) PROVE FALSE
                  BY <3>5 DEF Suspend, Returns
            <3>6. ASSUME NEW i \in Slots, Kill(i) PROVE FALSE
                  BY <3>6 DEF Kill, Returns
            <3> QED BY <1>2, <3>1, <3>2, <3>3, <3>4, <3>5, <3>6
                    DEF Next, vars, Launch, ListManifest, Tick
      <2>2. Victim(slots, Nobody)
            BY <2>1 DEF EvictLru, Returns
      <2>3. Evictable(slots, j)
            BY <1>2, SuspendedIsEvictable
      <2>4. Nobody \notin Slots
            BY LimitsAssumption DEF Slots, Nobody
      <2> QED BY <2>2, <2>3, <2>4 DEF Victim
<1>3. ASSUME EvictionInv, [Next]_vars, NEW i \in Slots, Holds(i), slots'[i].app = NoApp,
             result'.call # "kill"
      PROVE  \E s \in {slots, Vacated} : Victim(s, i)
      <2>a. slots \in [Slots -> SlotRecord] /\ slotCount \in Nat /\ slots[i].app # NoApp
            BY <1>3, LimitsAssumption DEF EvictionInv, TableInv, TypeOK, SlotRecord, Holds
      <2>b. ASSUME NEW v \in Slots \cup {Nobody}, Yields(v), Evicted(v)[i].app = NoApp
            PROVE  Victim(Vacated, i)
            <3>1. Vacated[i].app = slots[i].app
                  BY <2>a DEF Vacated, SlotRecord
            <3>2. i = v /\ i # Nobody
                  BY <2>a, <2>b, <3>1, LimitsAssumption DEF Evicted, Slots, Nobody
            <3> QED BY <2>b, <3>2 DEF Yields
      <2>1. CASE EvictLru
            BY <2>1, <1>3, <2>a DEF EvictLru
      <2>2. ASSUME NEW a \in Apps, LaunchApp(a) PROVE Victim(Vacated, i)
            <3>1. PICK t \in Slots, v \in Slots \cup {Nobody} :
                      /\ Yields(v)
                      /\ slots' = [Evicted(v) EXCEPT ![t].state = "Running", ![t].used = uptime]
                  BY <2>2 DEF LaunchApp
            <3>2. Evicted(v) \in [Slots -> SlotRecord]
                  BY <1>3, EvictedTyped DEF EvictionInv, TableInv
            <3>3. slots'[i].app = Evicted(v)[i].app
                  BY <3>1, <3>2 DEF SlotRecord
            <3> QED BY <3>1, <3>3, <2>b, <1>3
      <2>3. ASSUME NEW a \in Apps, LaunchFails(a) PROVE Victim(Vacated, i)
            <3>1. PICK v \in Slots \cup {Nobody} :
                      /\ Yields(v)
                      /\ slots' = [j \in Slots |-> IF IsForeground(j)
                                                   THEN [Evicted(v)[j] EXCEPT !.state = "Running"]
                                                   ELSE Evicted(v)[j]]
                  BY <2>3 DEF LaunchFails
            <3>2. Evicted(v) \in [Slots -> SlotRecord]
                  BY <1>3, EvictedTyped DEF EvictionInv, TableInv
            <3>3. slots'[i].app = Evicted(v)[i].app
                  BY <3>1, <3>2 DEF SlotRecord
            <3> QED BY <3>1, <3>3, <2>b, <1>3
      <2>4. ASSUME NEW a \in Apps, Register(a) PROVE FALSE
            <3>1. CASE UNCHANGED table
                  BY <3>1, <1>3, <2>a DEF table
            <3>2. CASE Enters(a)
                  <4>1. slots'[i] = slots[i] \/ slots'[i].app = a
                        BY <3>2, <2>a DEF Enters
                  <4> QED BY <4>1, <1>3, <2>a, AppsAssumption
            <3> QED BY <2>4, <3>1, <3>2 DEF Register
      <2>5. ASSUME NEW k \in Slots, Suspend(k) PROVE FALSE
            <3>1. slots'[i].app = slots[i].app
                  BY <2>5, <2>a DEF Suspend, SlotRecord
            <3> QED BY <3>1, <1>3, <2>a
      <2>6. ASSUME NEW k \in Slots, Kill(k) PROVE FALSE
            BY <2>6, <1>3, <2>a DEF Kill, Returns
      <2>7. CASE UNCHANGED table
            BY <2>7, <1>3, <2>a DEF table
      <2>8. \/ \E a \in Apps : Register(a) \/ LaunchApp(a) \/ LaunchFails(a)
            \/ \E k \in Slots : Suspend(k) \/ Kill(k)
            \/ EvictLru \/ UNCHANGED table
            BY <1>3 DEF Next, vars, Launch, LaunchNotFound, LaunchForeground, ListManifest, Tick
      <2> QED BY <2>1, <2>2, <2>3, <2>4, <2>5, <2>6, <2>7, <2>8
<1>4. ASSUME EvictionInv, [Next]_vars PROVE Fair
      BY <1>3, <1>4, VictimIsOldest
<1>5. EvictionInv /\ [Next]_vars => [Silent /\ Fair]_vars
      BY <1>2, <1>4
<1> QED BY EvictionInit, <1>1, <1>5, PTL DEF Spec, EvictsLeastRecentlyUsed

-----------------------------------------------------------------------------
(* The launcher                                                            *)

\* What the user starts apps from. The focus moves with the view in one step, under the lock
\* of the window manager, and whatever puts another app on the screen hides the launcher;
\* all that is missing for induction is what the state is before on_create.

CONSTANTS
    Tiles,  \* the apps other than the launcher
    MaxTime \* bound on the minutes that pass

VARIABLES
    created,       \* the launcher has built its widgets
    shellShown,    \* they are shown at all
    view,          \* "home" or "drawer"
    front,         \* app on the screen, "launcher" or "none"
    screens,       \* apps whose widgets can be seen
    focus,         \* the button that gets the keys
    pendingAction, \* "none", a view, or an app to launch
    hit,           \* history: "unseen" if the last button that acted could not be seen
    now,           \* minute of the clock
    clock          \* minute the status bar shows

Home == INSTANCE Launcher WITH Apps <- Tiles

\* There is another app, and none is called as the launcher is, or as nothing.
HomeAssumption == Tiles # {} /\ "launcher" \notin Tiles /\ "none" \notin Tiles

\* Nothing is shown and nothing asked for before on_create.
BeforeCreate ==
    ~created => /\ ~shellShown /\ screens = {} /\ focus = Home!NoFocus /\ view = "home"
                /\ pendingAction = "none" /\ front = "none"

\* The inductive invariant of the launcher.
HomeInv ==
    /\ created \in BOOLEAN /\ shellShown \in BOOLEAN
    /\ BeforeCreate /\ Home!FocusIsSeen

\* focus_first_descendant finds a button of the view.
LEMMA FirstIsSeen ==
    ASSUME HomeAssumption, NEW v
    PROVE  Home!FirstOf(v) \in Home!Buttons(v)
<1>1. Home!Tiles(v) # {}
  BY DEF HomeAssumption, Home!Tiles
<1> QED
  BY <1>1 DEF Home!FirstOf, Home!Buttons

\* The launcher that was on the screen is paused and hides its widgets.
LEMMA SwitchHides ==
    ASSUME HomeInv, NEW app \in Tiles, HomeAssumption, Home!SwitchTo(app)
    PROVE  shellShown' = FALSE
BY DEF HomeInv, Home!SwitchTo, Home!FocusIsSeen

\* A finger, a key, Enter and Back give the focus to a button that can be seen, or leave it
\* (tk_wm_on_input).
LEMMA InputKeeps ==
    ASSUME HomeInv,
           \/ Home!Enter \/ Home!Back
           \/ \E b : Home!Touch(b) \/ Home!Move(b)
    PROVE  HomeInv'
<1>1. /\ UNCHANGED <<created, shellShown, view, front, screens>> /\ Home!Visible' = Home!Visible
      /\ pendingAction = "none"
  BY DEF Home!Enter, Home!Back, Home!Touch, Home!Move, Home!Idle, Home!Visible
<1>2. focus' \in Home!Visible \/ focus' = focus
  BY DEF Home!Enter, Home!Back, Home!Touch, Home!Move
<1>3. ~created => focus' = focus /\ pendingAction' = pendingAction
  <2>1. ~created => Home!Visible = {} /\ focus = Home!NoFocus /\ view = "home"
    BY DEF HomeInv, BeforeCreate, Home!Visible
  <2>2. Home!NoFocus[1] \notin Home!Views
    BY DEF Home!NoFocus, Home!Views
  <2> QED
    BY <2>1, <2>2 DEF Home!Enter, Home!Back, Home!Touch, Home!Move
<1> QED
  BY <1>1, <1>2, <1>3 DEF HomeInv, BeforeCreate, Home!FocusIsSeen

\* Every step of the launcher keeps the invariant.
LEMMA HomeInvInductive ==
    ASSUME HomeAssumption
    PROVE  /\ Home!Init => HomeInv
           /\ HomeInv /\ [Home!Next]_(Home!vars) => HomeInv'
<1>1. ASSUME Home!Init PROVE HomeInv
  BY <1>1 DEF Home!Init, HomeInv, BeforeCreate, Home!FocusIsSeen
<1>2. ASSUME HomeInv, [Home!Next]_(Home!vars) PROVE HomeInv'
  <2>1. CASE Home!Create
    <3>1. created' /\ front' = "launcher" /\ focus' = Home!NoFocus /\ shellShown'
      BY <1>2, <2>1 DEF Home!Create, HomeInv, BeforeCreate
    <3> QED
      BY <1>2, <2>1, <3>1 DEF Home!Create, HomeInv, BeforeCreate, Home!FocusIsSeen
  <2>2. CASE Home!DoShow
    <3>1. /\ UNCHANGED <<created, shellShown, front, screens>> /\ created
          /\ focus' \in Home!Buttons(view')
      BY <1>2, <2>2, FirstIsSeen DEF Home!DoShow, Home!ShowView, Home!Views, HomeInv, BeforeCreate
    <3> QED
      BY <1>2, <3>1 DEF HomeInv, BeforeCreate, Home!FocusIsSeen, Home!Visible
  <2>3. CASE Home!DoLaunch
    <3>1. shellShown' = FALSE /\ created /\ created' = created
      <4>1. CASE front = pendingAction
        BY <1>2, <2>3, <4>1 DEF Home!DoLaunch, HomeInv, BeforeCreate, Home!FocusIsSeen, HomeAssumption
      <4>2. CASE front # pendingAction
        BY <1>2, <2>3, <4>2, SwitchHides DEF Home!DoLaunch, HomeInv, BeforeCreate, HomeAssumption
      <4> QED
        BY <4>1, <4>2
    <3> QED
      BY <1>2, <3>1 DEF HomeInv, BeforeCreate, Home!FocusIsSeen
  <2>4. ASSUME NEW app \in Tiles, Home!Launched(app) PROVE HomeInv'
    <3>1. shellShown' = FALSE /\ created /\ created' = created
      BY <1>2, <2>4, SwitchHides DEF Home!Launched
    <3> QED
      BY <1>2, <3>1 DEF HomeInv, BeforeCreate, Home!FocusIsSeen
  <2>5. CASE Home!Resume
    <3>1. /\ front' = "launcher" /\ shellShown' /\ shellShown' \in BOOLEAN /\ created /\ created' = created
          /\ focus' \in Home!Buttons(view')
      BY <1>2, <2>5, FirstIsSeen
         DEF Home!Resume, Home!ShowView, HomeInv, BeforeCreate, HomeAssumption
    <3> QED
      BY <1>2, <3>1 DEF HomeInv, BeforeCreate, Home!FocusIsSeen, Home!Visible
  <2>6. CASE Home!MinutePasses \/ Home!Tick \/ UNCHANGED Home!vars
    <3>1. UNCHANGED <<created, shellShown, view, front, screens, focus, pendingAction>>
      BY <2>6 DEF Home!MinutePasses, Home!Tick, Home!vars
    <3> QED
      BY <1>2, <3>1 DEF HomeInv, BeforeCreate, Home!FocusIsSeen, Home!Visible
  <2> QED
    BY <1>2, <2>1, <2>2, <2>3, <2>4, <2>5, <2>6, InputKeeps DEF Home!Next
<1> QED
  BY <1>1, <1>2

\* While the launcher is shown, whatever view it changes to, the focus is on a button that
\* can be seen, and an app that was asked for is started from the home view (show_view,
\* focus_first_descendant, tk_launcher.rs and tk_wm.rs): for any apps.
THEOREM LauncherFocusIsSeen == ASSUME HomeAssumption PROVE Home!Spec => []Home!FocusIsSeen
<1>1. HomeInv => Home!FocusIsSeen
  BY DEF HomeInv
<1> QED
  BY <1>1, HomeInvInductive, PTL DEF Home!Spec
=============================================================================
