----------------------------- MODULE Messenger -----------------------------
(***************************************************************************)
(* The store-and-forward queue of outbound messages (msg_queue.rs): what   *)
(* each of its exported functions does under the mutex MSG_QUEUE, and what *)
(* of the queue is in msg_queue.json.                                      *)
(*                                                                         *)
(* Every message here has normal priority, as the messenger's have: the    *)
(* order of get_ready, stable, is then the order of the queue.  A payload  *)
(* is a value of its own, that is sent once.  The time of the next retry   *)
(* is left out: the exported get_ready passes the end of time for now, so  *)
(* that every retry is due (rs_msg_queue_get_ready).                       *)
(*                                                                         *)
(* And the messenger (messenger_ui.c) as the client of the queue: on       *)
(* the UI task it queues what the user sends and tries it at once, and     *)
(* every second, while it is on the screen, advances the queue and tries   *)
(* what is ready.  A transport takes a message, refuses it or is not       *)
(* available: nothing else is told of transports here.  The device         *)
(* restarts at any time, also while the queue is written to the card.      *)
(*                                                                         *)
(* The clock is the uptime.  The queue's own functions ask for the time,   *)
(* but their exported forms pass 0 for it, and the end of time to          *)
(* get_ready (rs_msg_queue_enqueue, _mark_failed, _get_ready).             *)
(***************************************************************************)
EXTENDS Integers, Sequences, FiniteSets

CONSTANTS
    Payloads,
    Oversized,   \* the payloads longer than 256 bytes
    MaxQueue,    \* MAX_QUEUE_SIZE
    Retries,     \* what max_retries may be by default
    Lifetimes,   \* and ttl_ms
    NoMem,       \* ESP_ERR_NO_MEM
    InvalidArg   \* ESP_ERR_INVALID_ARG

ASSUME QueueAssumption ==
    /\ Payloads # {} /\ Oversized \subseteq Payloads
    /\ MaxQueue \in Nat \ {0}
    /\ Retries \subseteq Nat /\ Retries # {}
    /\ Lifetimes \subseteq Nat /\ Lifetimes # {}
    /\ NoMem \in Nat \ {0} /\ InvalidArg \in Nat \ {0}

VARIABLES
    messages,    \* the queue
    nextId,
    defaults,    \* the limits of the messages to come
    initialized,
    disk         \* what load_from_disk finds in msg_queue.json

queueVars == <<messages, nextId, defaults, initialized, disk>>

Limits == [retries : Retries, ttl : Lifetimes]

Active == {"pending", "retrying"}
Statuses == Active \cup {"sent", "expired", "failed", "cancelled"}

Message == [id : Nat, payload : Payloads, created : Nat,
            tries : Nat, retries : Nat, ttl : Nat, status : Statuses]

IsActive(m) == m.status \in Active
ActiveAt(q) == {i \in DOMAIN q : IsActive(q[i])}
ActiveCount(q) == Cardinality(ActiveAt(q))

\* The ways to list places in the order of the queue, of which there is one.
InOrder(places) ==
    {order \in [1..Cardinality(places) -> places] :
        /\ \A i \in places : \E k \in DOMAIN order : order[k] = i
        /\ \A k, l \in DOMAIN order : k < l => order[k] < order[l]}

QueueTypeOK ==
    /\ messages \in Seq(Message) /\ disk \in Seq(Message)
    /\ \A i, j \in DOMAIN messages : messages[i].id = messages[j].id => i = j
    /\ \A i \in DOMAIN messages : messages[i].id < nextId
    /\ ActiveCount(messages) <= MaxQueue
    /\ nextId \in Nat
    /\ defaults \in Limits
    /\ initialized \in BOOLEAN

QueueInit ==
    /\ messages = <<>> /\ nextId = 1
    /\ defaults \in Limits
    /\ initialized = FALSE
    /\ disk = <<>>

-----------------------------------------------------------------------------

\* Why enqueue refuses a payload, 0 if it does not.
Refusal(p) ==
    IF p \in Oversized THEN InvalidArg
    ELSE IF ActiveCount(messages) >= MaxQueue THEN NoMem ELSE 0

\* What enqueue returns: the id or the error code.
EnqueueResult(p) == IF Refusal(p) # 0 THEN Refusal(p) ELSE nextId

Enqueue(p, now) ==
    /\ IF Refusal(p) # 0 THEN UNCHANGED <<messages, nextId>>
       ELSE /\ messages' = Append(messages,
                    [id |-> nextId, payload |-> p, created |-> now,
                     tries |-> 0, retries |-> defaults.retries, ttl |-> defaults.ttl,
                     status |-> "pending"])
            /\ nextId' = nextId + 1
    /\ UNCHANGED <<defaults, initialized, disk>>

\* The message in a cancelled state, if it is not over yet.
Cancelled(m) == IF IsActive(m) THEN [m EXCEPT !.status = "cancelled"] ELSE m

Cancel(id) ==
    /\ messages' = [i \in DOMAIN messages |->
                        IF messages[i].id = id THEN Cancelled(messages[i]) ELSE messages[i]]
    /\ UNCHANGED <<nextId, defaults, initialized, disk>>

CancelAll ==
    /\ messages' = [i \in DOMAIN messages |-> Cancelled(messages[i])]
    /\ UNCHANGED <<nextId, defaults, initialized, disk>>

\* (mutant: one attempt too many)
TickedMutant(m, now) ==
    IF ~IsActive(m) THEN m
    ELSE IF m.ttl > 0 /\ now >= m.created + m.ttl THEN [m EXCEPT !.status = "expired"]
    ELSE IF m.retries > 0 /\ m.tries > m.retries THEN [m EXCEPT !.status = "failed"]
    ELSE m

\* (mutant: only messages that were tried expire)
TickedNeverTriedMutant(m, now) ==
    IF m.status # "retrying" THEN m
    ELSE IF m.ttl > 0 /\ now >= m.created + m.ttl THEN [m EXCEPT !.status = "expired"]
    ELSE IF m.retries > 0 /\ m.tries >= m.retries THEN [m EXCEPT !.status = "failed"]
    ELSE m

\* What tick makes of a message.
Ticked(m, now) ==
    IF ~IsActive(m) THEN m
    ELSE IF m.ttl > 0 /\ now >= m.created + m.ttl THEN [m EXCEPT !.status = "expired"]
    ELSE IF m.retries > 0 /\ m.tries >= m.retries THEN [m EXCEPT !.status = "failed"]
    ELSE m

Tick(now) ==
    /\ messages' = [i \in DOMAIN messages |-> Ticked(messages[i], now)]
    /\ UNCHANGED <<nextId, defaults, initialized, disk>>

\* (mutant: get_ready takes the messages that are over as well)
ReadyMutant == {messages}

\* The messages get_ready returns when all retry times count as passed, and
\* those purge_completed leaves: the list of the messages that are not over.
Ready ==
    {[k \in DOMAIN order |-> messages[order[k]]] : order \in InOrder(ActiveAt(messages))}

MarkSent(id) ==
    /\ messages' = [i \in DOMAIN messages |->
                        IF messages[i].id = id THEN [messages[i] EXCEPT !.status = "sent"]
                        ELSE messages[i]]
    /\ UNCHANGED <<nextId, defaults, initialized, disk>>

\* One more failed attempt at a message that is not over.
Failed(m) ==
    IF ~IsActive(m) THEN m ELSE [m EXCEPT !.tries = @ + 1, !.status = "retrying"]

MarkFailed(id) ==
    /\ messages' = [i \in DOMAIN messages |->
                        IF messages[i].id = id THEN Failed(messages[i]) ELSE messages[i]]
    /\ UNCHANGED <<nextId, defaults, initialized, disk>>

SetDefaults(limits) ==
    /\ limits \in Limits
    /\ defaults' = limits
    /\ UNCHANGED <<messages, nextId, initialized, disk>>

PurgeCompleted ==
    /\ messages' \in Ready
    /\ UNCHANGED <<nextId, defaults, initialized, disk>>

\* (mutant: the ids that were loaded are used again)
InitQueueMutant ==
    /\ initialized' = TRUE
    /\ IF initialized THEN UNCHANGED messages ELSE messages' = messages \o disk
    /\ UNCHANGED <<nextId, defaults, disk>>

\* The ids that are free when the file is loaded: the next one, and those that
\* follow an id of the file.
FreeIds == {nextId} \cup {disk[i].id + 1 : i \in DOMAIN disk}

\* init loads the file on the first call after the boot, and only then.
InitQueue ==
    /\ initialized' = TRUE
    /\ IF initialized THEN UNCHANGED <<messages, nextId>>
       ELSE /\ messages' = messages \o disk
            /\ nextId' \in {n \in FreeIds : \A m \in FreeIds : m <= n}
    /\ UNCHANGED <<defaults, disk>>

\* save_to_disk truncates the file and writes it anew.  What is not complete
\* does not end in a bracket, and load_from_disk takes nothing from it.
SaveBegins == disk' = <<>> /\ UNCHANGED <<messages, nextId, defaults, initialized>>
SaveEnds == disk' = messages /\ UNCHANGED <<messages, nextId, defaults, initialized>>

\* The memory of a device that restarts; set_defaults is not persisted.
QueueLost ==
    /\ messages' = <<>> /\ nextId' = 1 /\ initialized' = FALSE
    /\ defaults' \in Limits
    /\ UNCHANGED disk

-----------------------------------------------------------------------------
(* The messenger.                                                          *)

CONSTANTS
    Batch,       \* the messages a tick dispatches at most
    MaxNow,      \* bound: the clock stops here
    MaxCrashes   \* bound: how often the device restarts

ASSUME MessengerAssumption ==
    Batch \in Nat \ {0} /\ MaxNow \in Nat /\ MaxCrashes \in Nat

VARIABLES
    app,       \* the messenger's place in its life cycle
    ui,        \* what the UI task does
    sending,   \* send_message: the payload, and what enqueue returned
    batch,     \* what the tick still has to dispatch
    now,       \* the uptime
    unsent,    \* what the user has not sent yet
    accepted,  \* history: how often a transport took a payload, in this boot
    taken,     \* history: the payloads a transport took, in any boot
    crashes

messengerVars == <<app, ui, sending, batch, now, unsent, accepted, taken, crashes>>
vars == <<queueVars, messengerVars>>

Nothing == [payload |-> CHOOSE p \in Payloads : TRUE, id |-> 0]

TypeOK ==
    /\ QueueTypeOK
    /\ app \in {"off", "shown", "hidden"}
    /\ ui \in {"idle", "send", "get ready", "dispatch", "save"}
    /\ sending \in [payload : Payloads, id : Nat]
    /\ batch \in Seq(Message) /\ Len(batch) <= Batch
    /\ now \in 0..MaxNow
    /\ unsent \subseteq Payloads /\ taken \subseteq Payloads
    /\ accepted \in [Payloads -> Nat]
    /\ crashes \in 0..MaxCrashes

Init ==
    /\ QueueInit
    /\ app = "off" /\ ui = "idle" /\ sending = Nothing /\ batch = <<>>
    /\ now = 0 /\ unsent = Payloads
    /\ accepted = [p \in Payloads |-> 0] /\ taken = {} /\ crashes = 0

Takes(p) ==
    /\ accepted' = [accepted EXCEPT ![p] = @ + 1]
    /\ taken' = taken \cup {p}

-----------------------------------------------------------------------------
(* The life cycle: messenger_app.c                                         *)

\* on_create initialises the queue, on_start shows the messenger.
Create ==
    /\ app = "off" /\ ui = "idle"
    /\ InitQueue
    /\ app' = "shown"
    /\ UNCHANGED <<ui, sending, batch, now, unsent, accepted, taken, crashes>>

Show ==
    /\ app = "hidden" /\ ui = "idle"
    /\ app' = "shown"
    /\ UNCHANGED <<queueVars, ui, sending, batch, now, unsent, accepted, taken, crashes>>

\* on_pause and on_destroy write the queue to the card, which may be missing.
Leave(to) ==
    /\ ui = "idle"
    /\ app' = to
    /\ \/ SaveBegins /\ ui' = "save"
       \/ UNCHANGED <<queueVars, ui>>
    /\ UNCHANGED <<sending, batch, now, unsent, accepted, taken, crashes>>

Hide == app = "shown" /\ Leave("hidden")
Destroy == app # "off" /\ Leave("off")

\* The file is complete, or the write failed half way.
Saved ==
    /\ ui = "save"
    /\ ui' = "idle"
    /\ SaveEnds \/ UNCHANGED queueVars
    /\ UNCHANGED <<app, sending, batch, now, unsent, accepted, taken, crashes>>

-----------------------------------------------------------------------------
(* The user sends                                                          *)

SendMessage(p) ==
    /\ app = "shown" /\ ui = "idle" /\ p \in unsent
    /\ Enqueue(p, 0)
    /\ sending' = [payload |-> p, id |-> EnqueueResult(p)]
    /\ ui' = "send"
    /\ unsent' = unsent \ {p}
    /\ UNCHANGED <<app, batch, now, accepted, taken, crashes>>

\* (mutant: the queue is not told that the message is sent)
DirectSendMutant ==
    /\ ui = "send"
    /\ Takes(sending.payload)
    /\ ui' = "idle" /\ sending' = Nothing
    /\ UNCHANGED <<queueVars, app, batch, now, unsent, crashes>>

\* The transport takes the message at once.  The error codes of enqueue are
\* positive, so the test for a valid id always passes.
DirectSend ==
    /\ ui = "send"
    /\ Takes(sending.payload)
    /\ IF sending.id > 0 THEN MarkSent(sending.id) ELSE UNCHANGED queueVars
    /\ ui' = "idle" /\ sending' = Nothing
    /\ UNCHANGED <<app, batch, now, unsent, crashes>>

\* (mutant: a message that was refused counts as sent)
DirectSendFailsMutant ==
    /\ ui = "send"
    /\ MarkSent(sending.id)
    /\ ui' = "idle" /\ sending' = Nothing
    /\ UNCHANGED <<app, batch, now, unsent, accepted, taken, crashes>>

\* The transport refuses the message or is not available: it stays queued.
DirectSendFails ==
    /\ ui = "send"
    /\ ui' = "idle" /\ sending' = Nothing
    /\ UNCHANGED <<queueVars, app, batch, now, unsent, accepted, taken, crashes>>

-----------------------------------------------------------------------------
(* The tick: kernel_tick_cb                                                *)

KernelTick ==
    /\ app = "shown" /\ ui = "idle"
    /\ Tick(now)
    /\ ui' = "get ready"
    /\ UNCHANGED <<app, sending, batch, now, unsent, accepted, taken, crashes>>

GetReady ==
    /\ ui = "get ready"
    /\ \E ready \in Ready :
           batch' = SubSeq(ready, 1, IF Len(ready) < Batch THEN Len(ready) ELSE Batch)
    /\ ui' = IF batch' = <<>> THEN "idle" ELSE "dispatch"
    /\ UNCHANGED <<queueVars, app, sending, now, unsent, accepted, taken, crashes>>

\* The loop over the batch goes on, or the callback returns.
Dispatched ==
    /\ ui = "dispatch"
    /\ batch' = Tail(batch)
    /\ ui' = IF Len(batch) = 1 THEN "idle" ELSE "dispatch"
    /\ UNCHANGED <<app, sending, now, unsent, crashes>>

DispatchUnavailable ==
    /\ Dispatched
    /\ UNCHANGED <<queueVars, accepted, taken>>

DispatchTaken ==
    /\ Dispatched
    /\ Takes(Head(batch).payload)
    /\ MarkSent(Head(batch).id)

DispatchRefused ==
    /\ Dispatched
    /\ MarkFailed(Head(batch).id)
    /\ UNCHANGED <<accepted, taken>>

-----------------------------------------------------------------------------
(* The environment                                                         *)

\* The rest of the queue's interface, called from the same task.
OtherCall ==
    /\ app = "shown" /\ ui = "idle"
    /\ \/ \E id \in 1..nextId : Cancel(id)
       \/ CancelAll
       \/ PurgeCompleted
       \/ \E limits \in Limits : SetDefaults(limits)
    /\ UNCHANGED messengerVars

Clock ==
    /\ now < MaxNow
    /\ now' = now + 1
    /\ UNCHANGED <<queueVars, app, ui, sending, batch, unsent, accepted, taken, crashes>>

Crash ==
    /\ crashes < MaxCrashes
    /\ crashes' = crashes + 1
    /\ QueueLost
    /\ app' = "off" /\ ui' = "idle" /\ sending' = Nothing /\ batch' = <<>> /\ now' = 0
    /\ accepted' = [p \in Payloads |-> 0]
    /\ UNCHANGED <<unsent, taken>>

UiTask ==
    \/ Saved \/ DirectSend \/ DirectSendFails
    \/ KernelTick \/ GetReady \/ DispatchUnavailable \/ DispatchTaken \/ DispatchRefused

Next ==
    \/ Create \/ Show \/ Hide \/ Destroy
    \/ \E p \in Payloads : SendMessage(p)
    \/ UiTask \/ OtherCall \/ Clock \/ Crash

\* LVGL runs its timers and finishes its callbacks, and time goes by.
Spec == Init /\ [][Next]_vars /\ WF_vars(UiTask) /\ WF_vars(Clock)

-----------------------------------------------------------------------------
(* Properties                                                              *)

\* No transport takes a message twice between two restarts: not at once and
\* again from the queue, nor twice from the queue (send_message: "Mark as sent
\* in the queue so it won't retry").
SentOncePerBoot == \A p \in Payloads : accepted[p] <= 1

\* A message counts as sent only if a transport took it, in this boot or before
\* the queue was last written to the card (rs_msg_queue_mark_sent).
SentMeansTaken ==
    \A i \in DOMAIN messages : messages[i].status = "sent" => messages[i].payload \in taken

\* No message is tried more often than its max_retries, also across restarts
\* as far as the card knows of its attempts (tick, mark_failed).
TriesAreBounded ==
    \A i \in DOMAIN messages :
        messages[i].retries > 0 => messages[i].tries <= messages[i].retries

\* However often it is queued, sent at once and tried again, each message is taken
\* once and tried no more than it may be, and none counts as sent that no transport
\* took (kernel_tick_cb, send_message).
DeliveryIsBounded == SentOncePerBoot /\ TriesAreBounded /\ SentMeansTaken

\* A message that is sent, expired, failed or cancelled stays what it is until
\* it is purged, and no message leaves the queue before that, restarts aside.
OverIsOver ==
    [][crashes' = crashes =>
          \A i \in DOMAIN messages :
              LET later == {j \in DOMAIN messages' : messages'[j].id = messages[i].id} IN
              IF IsActive(messages[i]) THEN later # {}
              ELSE \A j \in later : messages'[j].status = messages[i].status]_vars

\* Every message that has a time to live is sent, expires, fails or is cancelled,
\* unless the messenger leaves the screen (kernel_tick_cb).
Settles ==
    \A p \in Payloads :
        (app = "shown" /\ \E i \in DOMAIN messages :
                messages[i].payload = p /\ IsActive(messages[i]) /\ messages[i].ttl > 0)
            ~> (app # "shown" \/ \A i \in DOMAIN messages :
                    messages[i].payload = p => ~IsActive(messages[i]))
=============================================================================
