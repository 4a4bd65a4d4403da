-------------------------------- MODULE Ipc --------------------------------
(***************************************************************************)
(* The messages between apps (src/components/kernel_rs/src/ipc.rs): one    *)
(* bounded queue and a list of handlers behind a mutex, and a condition    *)
(* variable on which receivers wait with a timeout.  A sender calls the    *)
(* handlers of the type first and then tries the queue; any receiver takes *)
(* any message.  Messages are known by their number.                       *)
(***************************************************************************)
EXTENDS Integers, Sequences, FiniteSets, SequencesExt

CONSTANTS
    Receivers,   \* tasks that receive
    Types,       \* message types
    Depth,       \* IPC_QUEUE_DEPTH
    MaxHandlers, \* IPC_HANDLER_MAX
    MaxSent      \* bound on the messages ever sent

VARIABLES
    queue,    \* numbers of the messages queued
    handlers, \* types of the handlers registered, in order
    asleep,   \* receivers that wait on the condition variable
    woken,    \* receivers that were notified or whose time is over, not yet running
    sent,     \* number of messages sent
    refused,  \* those that found the queue full
    heard,    \* numbers handed to a handler
    received  \* numbers handed to receivers, in order

vars == <<queue, handlers, asleep, woken, sent, refused, heard, received>>

Numbers == 1 .. MaxSent

TypeOK ==
    /\ queue \in Seq(Numbers) /\ Len(queue) <= Depth
    /\ handlers \in Seq(Types) /\ Len(handlers) <= MaxHandlers
    /\ asleep \subseteq Receivers /\ woken \subseteq Receivers /\ asleep \cap woken = {}
    /\ sent \in 0 .. MaxSent /\ refused \subseteq Numbers /\ heard \subseteq Numbers
    /\ received \in Seq(Numbers)

Init ==
    /\ queue = <<>> /\ handlers = <<>> /\ asleep = {} /\ woken = {}
    /\ sent = 0 /\ refused = {} /\ heard = {} /\ received = <<>>

RegisterHandler(type) ==
    /\ Len(handlers) < MaxHandlers /\ handlers' = Append(handlers, type)
    /\ UNCHANGED <<queue, asleep, woken, sent, refused, heard, received>>

\* Condvar::notify_one
NotifyOne ==
    IF asleep = {} THEN UNCHANGED <<asleep, woken>>
    ELSE \E r \in asleep : asleep' = asleep \ {r} /\ woken' = woken \cup {r}

\* (mutant: only the message that finds the queue empty wakes somebody)
EnqueueMutant(n) ==
    /\ queue' = Append(queue, n)
    /\ IF queue = <<>> THEN NotifyOne ELSE UNCHANGED <<asleep, woken>>

Enqueue(n) == queue' = Append(queue, n) /\ NotifyOne

\* ipc_send_impl: the handlers get the message whether or not it is taken.
Send(type) ==
    /\ sent < MaxSent /\ sent' = sent + 1
    /\ heard' = IF type \in ToSet(handlers) THEN heard \cup {sent + 1} ELSE heard
    /\ IF Len(queue) < Depth THEN Enqueue(sent + 1) /\ UNCHANGED refused
       ELSE refused' = refused \cup {sent + 1} /\ UNCHANGED <<queue, asleep, woken>>
    /\ UNCHANGED <<handlers, received>>

TakeFirst == queue' = Tail(queue) /\ received' = Append(received, Head(queue))

\* ipc_recv_impl: a receiver that finds nothing waits.
Receive(r) ==
    /\ r \notin asleep \cup woken
    /\ \/ queue # <<>> /\ TakeFirst /\ UNCHANGED asleep
       \/ queue = <<>> /\ asleep' = asleep \cup {r} /\ UNCHANGED <<queue, received>>
    /\ UNCHANGED <<handlers, woken, sent, refused, heard>>

\* wait_timeout_while: awake, it takes what there is, waits again, or gives up when its
\* time is over.
WakeUp(r) ==
    /\ r \in woken /\ woken' = woken \ {r}
    /\ \/ queue # <<>> /\ TakeFirst /\ UNCHANGED asleep
       \/ queue = <<>> /\ asleep' = asleep \cup {r} /\ UNCHANGED <<queue, received>>
       \/ queue = <<>> /\ UNCHANGED <<asleep, queue, received>>
    /\ UNCHANGED <<handlers, sent, refused, heard>>

TimeOver(r) ==
    /\ r \in asleep /\ asleep' = asleep \ {r} /\ woken' = woken \cup {r}
    /\ UNCHANGED <<queue, handlers, sent, refused, heard, received>>

Next ==
    \/ \E type \in Types : RegisterHandler(type) \/ Send(type)
    \/ \E r \in Receivers : Receive(r) \/ WakeUp(r) \/ TimeOver(r)

Spec == Init /\ [][Next]_vars

-----------------------------------------------------------------------------

\* Messages that were taken come out once, in the order they were sent; one that was
\* refused never does, though handlers may have it; and nobody sleeps on a message that
\* no woken receiver will fetch (ipc_send_impl, ipc_recv_impl).
MessagesComeOut ==
    /\ ToSet(received \o queue) = 1 .. sent \ refused
    /\ \A i, j \in DOMAIN (received \o queue) :
          i < j => (received \o queue)[i] < (received \o queue)[j]
    /\ asleep # {} => Len(queue) <= Cardinality(woken)

=============================================================================
