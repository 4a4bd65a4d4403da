------------------------------ MODULE EventBus ------------------------------
(***************************************************************************)
(* The event bus of src/components/kernel_rs/src/event.rs: a table of      *)
(* subscribers per type of event behind one mutex, which the task that     *)
(* publishes holds while it calls the handlers one after the other.        *)
(* What tasks ask of the bus (subscribe, unsubscribe, publish) waits for   *)
(* the mutex; a handler that asks for it again waits for its own task.     *)
(***************************************************************************)
EXTENDS Integers, Sequences, FiniteSets, SequencesExt

CONSTANTS
    Tasks,       \* tasks that use the bus
    Types,       \* types of events
    Handlers,    \* functions that are subscribed
    Nested,      \* those of them that call the bus again
    Slots,       \* EVENT_SUBSCRIBERS_MAX
    MaxPublished \* bound on the events ever published

VARIABLES
    subscribers, \* for each type the slots, "free" or a handler
    holder,      \* task that has the mutex, "none"
    event,       \* what it publishes: type, the slot it has come to
    told,        \* handlers that were called for it, in order
    stuck,       \* the handler called waits for the mutex of its own task
    due,         \* what was subscribed when it began
    published    \* number of events published

vars == <<subscribers, holder, event, stuck, told, due, published>>

NoEvent == [type |-> "none", slot |-> 0]

Taken(type) == SelectSeq(subscribers[type], LAMBDA h : h # "free")

TypeOK ==
    /\ subscribers \in [Types -> [1 .. Slots -> Handlers \cup {"free"}]]
    /\ holder \in Tasks \cup {"none"}
    /\ event \in [type : Types, slot : 1 .. Slots + 1] \cup {NoEvent}
    /\ (holder = "none") = (event = NoEvent)
    /\ stuck \in BOOLEAN /\ told \in Seq(Handlers) /\ due \in Seq(Handlers) /\ published \in 0 .. MaxPublished

Init ==
    /\ subscribers = [t \in Types |-> [s \in 1 .. Slots |-> "free"]]
    /\ holder = "none" /\ event = NoEvent /\ stuck = FALSE /\ told = <<>> /\ due = <<>> /\ published = 0

FirstSlot(type, h) ==
    CHOOSE s \in 1 .. Slots :
        subscribers[type][s] = h /\ \A r \in 1 .. s - 1 : subscribers[type][r] # h

\* A handler may be subscribed more than once and is then called as often.
Subscribe(type, h) ==
    /\ holder = "none" /\ "free" \in ToSet(subscribers[type])
    /\ subscribers' = [subscribers EXCEPT ![type][FirstSlot(type, "free")] = h]
    /\ UNCHANGED <<holder, event, stuck, told, due, published>>

Unsubscribe(type, h) ==
    /\ holder = "none" /\ h \in ToSet(subscribers[type])
    /\ subscribers' = [subscribers EXCEPT ![type][FirstSlot(type, h)] = "free"]
    /\ UNCHANGED <<holder, event, stuck, told, due, published>>

\* event_publish, up to the call of the first handler
Publish(t, type) ==
    /\ holder = "none" /\ published < MaxPublished /\ published' = published + 1
    /\ holder' = t /\ event' = [type |-> type, slot |-> 1]
    /\ told' = <<>> /\ due' = Taken(type)
    /\ UNCHANGED <<subscribers, stuck>>

Called == subscribers[event.type][event.slot]
AtSlot == holder # "none" /\ event.slot <= Slots /\ ~stuck

\* (mutant: the first free slot ends the round)
CallMutant ==
    /\ AtSlot
    /\ IF Called = "free"
       THEN event' = [event EXCEPT !.slot = Slots + 1] /\ UNCHANGED told
       ELSE event' = [event EXCEPT !.slot = @ + 1] /\ told' = Append(told, Called)
    /\ UNCHANGED <<subscribers, holder, stuck, due, published>>

\* The handler of one slot runs and comes back.
Call ==
    /\ AtSlot
    /\ event' = [event EXCEPT !.slot = @ + 1]
    /\ told' = IF Called = "free" THEN told ELSE Append(told, Called)
    /\ UNCHANGED <<subscribers, holder, stuck, due, published>>

\* A handler that subscribes, unsubscribes or publishes waits for the mutex its own
\* task has, and everybody behind it.
CallNested ==
    /\ AtSlot /\ Called \in Nested
    /\ stuck' = TRUE /\ told' = Append(told, Called)
    /\ UNCHANGED <<subscribers, holder, event, due, published>>

Return ==
    /\ holder # "none" /\ event.slot > Slots
    /\ holder' = "none" /\ event' = NoEvent
    /\ UNCHANGED <<subscribers, stuck, told, due, published>>

Next ==
    \/ \E type \in Types, h \in Handlers : Subscribe(type, h) \/ Unsubscribe(type, h)
    \/ \E t \in Tasks, type \in Types : Publish(t, type)
    \/ Call \/ CallNested \/ Return

Spec == Init /\ [][Next]_vars

-----------------------------------------------------------------------------

\* A publisher tells every handler that was subscribed when it began, in the order of the
\* slots and as often as it was subscribed, and nothing stops it but a handler that calls
\* the bus (EventBus::publish; event_publish, event.rs:256).
EveryoneIsTold ==
    /\ IsPrefix(told, due)
    /\ event.slot > Slots => told = due
    /\ stuck => holder # "none" /\ Last(told) \in Nested

=============================================================================
