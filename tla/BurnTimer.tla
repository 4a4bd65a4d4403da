----------------------------- MODULE BurnTimer -----------------------------
(***************************************************************************)
(* Messages that destroy themselves: the table of timers of                *)
(* src/components/kernel_rs/src/burn_timer.rs, the bounded queue of its    *)
(* notices, and the messenger's tick, which empties the queue a batch at a *)
(* time and wipes the text at the place a notice names in the ring of a    *)
(* conversation's messages.  A message is known here by its number.        *)
(***************************************************************************)
EXTENDS Integers, Sequences, FiniteSets, SequencesExt, FiniteSetsExt

CONSTANTS
    Convs,       \* conversations
    MaxTimers,   \* slots of the table, MAX_BURN_ENTRIES
    MaxExpired,  \* length of the queue of notices, MAX_EXPIRED_QUEUE
    Batch,       \* notices the messenger takes in one tick
    History,     \* places in the ring of a conversation, MSG_HISTORY
    Delays,      \* what a timer may be set to
    MaxNow,      \* bound on the clock
    MaxMessages  \* bound on the messages of a conversation

VARIABLES
    now,      \* the clock of the last tick
    timers,   \* the slots of the table
    expired,  \* the queue of notices
    count,    \* messages of each conversation
    wiped,    \* numbers of the wiped messages still in the ring
    timed,    \* numbers of the messages a timer was set for
    revoked,  \* those of them whose timer was taken back
    dropped   \* a notice found the queue full

table == <<now, timers, expired>>
texts == <<count, wiped>>
asked == <<timed, revoked>>
vars == <<table, texts, asked, dropped>>

Free == [conv |-> "none"]
Places == 0 .. History - 1
Slots == 1 .. MaxTimers
Numbers == 1 .. MaxMessages
Timer == [conv : Convs, place : Places, due : 0 .. MaxNow + Max(Delays), msg : Numbers]
Notice == [conv : Convs, place : Places]

TypeOK ==
    /\ now \in 0 .. MaxNow
    /\ \A s \in Slots : timers[s] \in Timer \cup {Free}
    /\ Len(expired) <= MaxExpired /\ ToSet(expired) \subseteq Notice
    /\ \A c \in Convs : count[c] \in 0 .. MaxMessages
    /\ \A c \in Convs : wiped[c] \subseteq 1 .. count[c] /\ revoked[c] \subseteq timed[c]

Init ==
    /\ now = 0 /\ timers = [s \in Slots |-> Free] /\ expired = <<>>
    /\ count = [c \in Convs |-> 0] /\ wiped = [c \in Convs |-> {}]
    /\ timed = [c \in Convs |-> {}] /\ revoked = timed /\ dropped = FALSE

\* The number of the message at a place of the ring, 0 if there is none.
At(c, p) == Max({0} \cup {n \in 1 .. count[c] : (n - 1) % History = p})

Find(c, p) == {s \in Slots : timers[s] # Free /\ timers[s].conv = c /\ timers[s].place = p}

\* add_message_to_conv: once the ring is full a message takes the oldest one's place.
AddMessage(c) ==
    /\ count[c] < MaxMessages
    /\ count' = [count EXCEPT ![c] = @ + 1]
    /\ wiped' = [wiped EXCEPT ![c] = @ \ {count[c] + 1 - History}]
    /\ UNCHANGED <<table, asked, dropped>>

\* A timer that is set again starts anew; a full table refuses.
SetTimer(c, p, d) ==
    LET cleared == [s \in Slots |-> IF s \in Find(c, p) THEN Free ELSE timers[s]]
        free == {s \in Slots : cleared[s] = Free}
        timer == [conv |-> c, place |-> p, due |-> now + d, msg |-> At(c, p)]
    IN  /\ At(c, p) # 0 /\ free # {}
        /\ timers' = [cleared EXCEPT ![Min(free)] = timer]
        /\ timed' = [timed EXCEPT ![c] = @ \cup {timer.msg}]
        /\ revoked' = [revoked EXCEPT ![c] = @ \ {timer.msg}]
        /\ UNCHANGED <<now, expired, texts, dropped>>

TakeBack(slots) ==
    /\ timers' = [s \in Slots |-> IF s \in slots THEN Free ELSE timers[s]]
    /\ revoked' = [c \in Convs |-> revoked[c] \cup
                      {timers[s].msg : s \in {t \in slots : timers[t].conv = c}}]

CancelTimer(c, p) ==
    Find(c, p) # {} /\ TakeBack(Find(c, p)) /\ UNCHANGED <<now, expired, texts, timed, dropped>>

CancelConversation(c) ==
    /\ \E p \in Places : Find(c, p) # {}
    /\ TakeBack(UNION {Find(c, p) : p \in Places})
    /\ UNCHANGED <<now, expired, texts, timed, dropped>>

ClearAll ==
    /\ timers' = [s \in Slots |-> Free] /\ expired' = <<>>
    /\ revoked' = [c \in Convs |-> timed[c] \ wiped[c]]
    /\ UNCHANGED <<now, texts, timed, dropped>>

\* rs_burn_timer_tick: what is due leaves the table in the order of the slots, and
\* a notice of it is queued while there is room.
Due(t) == {s \in Slots : timers[s] # Free /\ t >= timers[s].due}
Notices(t) ==
    LET slots == SetToSortSeq(Due(t), <)
    IN  [i \in DOMAIN slots |-> [conv |-> timers[slots[i]].conv, place |-> timers[slots[i]].place]]
Queued(t) ==
    expired \o SubSeq(Notices(t), 1, Min({Len(Notices(t)), MaxExpired - Len(expired)}))

\* (mutant: what does not fit the batch is forgotten)
TakenMutant(queue) == [batch |-> SubSeq(queue, 1, Min({Batch, Len(queue)})), rest |-> <<>>]

\* rs_burn_timer_get_expired
Taken(queue) ==
    LET n == Min({Batch, Len(queue)})
    IN  [batch |-> SubSeq(queue, 1, n), rest |-> SubSeq(queue, n + 1, Len(queue))]

\* A notice names a place; what is wiped is the message the place has now.
WipedBy(c, batch) ==
    {At(c, batch[i].place) : i \in {j \in DOMAIN batch : batch[j].conv = c}} \ {0}

\* kernel_tick_cb of the messenger, up to the queue of messages.
Tick(t) ==
    LET taken == Taken(Queued(t))
    IN  /\ now' = t
        /\ timers' = [s \in Slots |-> IF s \in Due(t) THEN Free ELSE timers[s]]
        /\ expired' = taken.rest
        /\ dropped' = (dropped \/ Len(Queued(t)) < Len(expired) + Len(Notices(t)))
        /\ wiped' = [c \in Convs |-> wiped[c] \cup WipedBy(c, taken.batch)]
        /\ UNCHANGED <<count, asked>>

\* on_create of the messenger: no conversations and an empty table, whose clock
\* starts at 0 and is set by the next tick.
CreateMessenger ==
    /\ now' = 0 /\ timers' = [s \in Slots |-> Free] /\ expired' = <<>>
    /\ count' = [c \in Convs |-> 0] /\ wiped' = [c \in Convs |-> {}]
    /\ timed' = [c \in Convs |-> {}] /\ revoked' = timed' /\ dropped' = FALSE

Next ==
    \/ \E c \in Convs : AddMessage(c) \/ CancelConversation(c)
    \/ \E c \in Convs, p \in Places : CancelTimer(c, p) \/ \E d \in Delays : SetTimer(c, p, d)
    \/ \E t \in now .. MaxNow : Tick(t)
    \/ ClearAll \/ CreateMessenger

Spec == Init /\ [][Next]_vars

-----------------------------------------------------------------------------

\* A text is wiped only if somebody set a timer for it or, since the ring has come
\* round, for a message that stood in its place before it.
OnlyTheTimedBurn ==
    \A c \in Convs : \A n \in wiped[c] :
        \E m \in timed[c] : m <= n /\ (n - m) % History = 0

\* A message whose timer nobody took back is wiped, has left the ring, or is still
\* waited for, in the table or in the queue, unless the queue was once full.
NoneIsForgotten ==
    \A c \in Convs : \A n \in timed[c] \ revoked[c] :
        \/ n \in wiped[c] \/ n <= count[c] - History \/ dropped
        \/ Find(c, (n - 1) % History) # {}
        \/ [conv |-> c, place |-> (n - 1) % History] \in ToSet(expired)

\* Exactly the messages with a timer burn (kernel_tick_cb, burn_timer.rs).
BurnsWhatItShould == OnlyTheTimedBurn /\ NoneIsForgotten

=============================================================================
