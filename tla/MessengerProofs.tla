--------------------------- MODULE MessengerProofs ---------------------------
(***************************************************************************)
(* Theorems about the messenger and its queue, for any payloads, any size  *)
(* of queue and of batch, any limits and any number of restarts:           *)
(*                                                                         *)
(*   TypeCorrect         the type invariant: ids are unique, and no more   *)
(*                       messages wait than may;                           *)
(*   NothingIsSentTwice  at most once between two restarts, and no more    *)
(*                       attempts than allowed;                            *)
(*   DeliveryBounded,                                                      *)
(*   OverStaysOver       what counts as sent was taken, and what is over   *)
(*                       stays over, if no id is an error code.            *)
(*                                                                         *)
(* enqueue returns an id or a positive error code, and send_message marks  *)
(* whatever it returned as sent.  Once there are as many ids as that, the  *)
(* refusal of one message marks another: the last two theorems are false   *)
(* without CodesAreNoIds.                                                  *)
(***************************************************************************)
EXTENDS Messenger, FiniteSetTheorems, SequenceTheorems, TLAPS

\* The queue is empty until init, which comes before everything else.
QueueLoaded ==
    /\ ~initialized => messages = <<>> /\ nextId = 1 /\ \A p \in Payloads : accepted[p] = 0
    /\ app # "off" \/ ui # "idle" => initialized
    /\ ui = "dispatch" => batch # <<>>

\* The file is a queue, so that what is loaded is one again.
DiskIsSound ==
    /\ \A i, j \in DOMAIN disk : disk[i].id = disk[j].id => i = j
    /\ ActiveCount(disk) <= MaxQueue

TypeInv == TypeOK /\ QueueLoaded /\ DiskIsSound

\* What the tick still has to dispatch is in the queue, each message once.
BatchInv ==
    ui = "dispatch" =>
        /\ \A k \in DOMAIN batch :
              IsActive(batch[k]) /\ \E i \in DOMAIN messages : messages[i] = batch[k]
        /\ \A k, l \in DOMAIN batch : batch[k].id = batch[l].id => k = l

\* What passed the tick may be tried once more.
Tried(q) == \A i \in DOMAIN q : q[i].retries > 0 => q[i].tries <= q[i].retries
Room(m) == m.retries > 0 => m.tries < m.retries

TriesInv ==
    /\ Tried(messages) /\ Tried(disk)
    /\ ui = "get ready" => \A i \in DOMAIN messages : IsActive(messages[i]) => Room(messages[i])
    /\ ui = "dispatch" => \A k \in DOMAIN batch : Room(batch[k])

\* A payload is in one message, once it is sent; the one that send_message has at hand
\* is in the message whose id enqueue returned, or in none.
OnePayload(q) == \A i, j \in DOMAIN q : q[i].payload = q[j].payload => i = j
NotQueued(q, P) == \A i \in DOMAIN q : q[i].payload \notin P

PayloadInv ==
    /\ nextId > 0
    /\ OnePayload(messages) /\ OnePayload(disk)
    /\ NotQueued(messages, unsent) /\ NotQueued(disk, unsent)
    /\ ui = "send" =>
          /\ sending.payload \notin unsent
          /\ \A i \in DOMAIN messages :
                messages[i].payload = sending.payload =>
                    messages[i].id = sending.id /\ sending.id > 0

\* What still waits was not taken since the device started.
AcceptedInv ==
    /\ \A p \in unsent : accepted[p] = 0
    /\ \A i \in DOMAIN messages : IsActive(messages[i]) => accepted[messages[i].payload] = 0
    /\ ui = "send" => accepted[sending.payload] = 0

\* There are no more ids than payloads that were given to send_message, and no more than
\* the smallest error code.
Given == Cardinality(Payloads \ unsent)
CodesAreNoIds ==
    IsFiniteSet(Payloads) /\ NoMem > Cardinality(Payloads) /\ InvalidArg > Cardinality(Payloads)

IdsInv ==
    /\ nextId <= Given + 1
    /\ \A i \in DOMAIN disk : disk[i].id <= Given
    /\ ui = "send" => \A i \in DOMAIN messages : messages[i].id = sending.id =>
                            messages[i].payload = sending.payload /\ IsActive(messages[i])

TakenInv ==
    /\ SentMeansTaken
    /\ \A i \in DOMAIN disk : disk[i].status = "sent" => disk[i].payload \in taken

-----------------------------------------------------------------------------
(* What the calls of the queue do to its messages                          *)

LEMMA MessageSeq ==
    ASSUME NEW n \in Nat, NEW q \in [1..n -> Message]
    PROVE  q \in Seq(Message) /\ Len(q) = n /\ DOMAIN q = 1..n
<1>1. q \in Seq(Message)
  BY SeqDef
<1> QED
  BY <1>1, LenProperties

LEMMA MessagesAt ==
    ASSUME NEW q \in Seq(Message), NEW i \in DOMAIN q
    PROVE  /\ q[i] \in Message /\ q[i].id \in Nat /\ q[i].payload \in Payloads
           /\ q[i].tries \in Nat /\ q[i].retries \in Nat
<1>1. q[i] \in Message
  BY LenProperties, ElementOfSeq
<1> QED
  BY <1>1 DEF Message

LEMMA PlacesFinite ==
    ASSUME NEW q \in Seq(Message)
    PROVE  /\ DOMAIN q = 1..Len(q) /\ Len(q) \in Nat
           /\ IsFiniteSet(ActiveAt(q)) /\ ActiveAt(q) \subseteq 1..Len(q)
           /\ ActiveCount(q) \in Nat
<1>1. DOMAIN q = 1..Len(q) /\ Len(q) \in Nat
  BY LenProperties
<1>2. IsFiniteSet(1..Len(q))
  BY <1>1, FS_Interval
<1>3. ActiveAt(q) \subseteq 1..Len(q)
  BY <1>1 DEF ActiveAt
<1>4. IsFiniteSet(ActiveAt(q))
  BY <1>2, <1>3, FS_Subset
<1> QED
  BY <1>1, <1>3, <1>4, FS_CardinalityType DEF ActiveCount

LEMMA SizeOfInterval ==
    ASSUME NEW n \in Nat
    PROVE  IsFiniteSet(1..n) /\ Cardinality(1..n) = n
<1>1. IsFiniteSet(1..n) /\ Cardinality(1..n) = IF 1 > n THEN 0 ELSE n - 1 + 1
  BY FS_Interval
<1> QED
  BY <1>1

\* Every message stays at its place with its id, its payload and its limits, and
\* none that is over becomes active again.
Evolves ==
    /\ messages' \in Seq(Message) /\ DOMAIN messages' = DOMAIN messages
    /\ \A i \in DOMAIN messages :
          /\ messages'[i].id = messages[i].id
          /\ messages'[i].payload = messages[i].payload
          /\ messages'[i].retries = messages[i].retries
          /\ IsActive(messages'[i]) => IsActive(messages[i])

LEMMA EvolvesPointwise ==
    ASSUME messages \in Seq(Message), NEW f,
           \A i \in DOMAIN messages :
              /\ f[i] \in Message
              /\ f[i].id = messages[i].id /\ f[i].payload = messages[i].payload
              /\ f[i].retries = messages[i].retries
              /\ IsActive(f[i]) => IsActive(messages[i]),
           messages' = f, f = [i \in DOMAIN messages |-> f[i]]
    PROVE  Evolves
<1>1. Len(messages) \in Nat /\ DOMAIN messages = 1..Len(messages)
  BY PlacesFinite
<1>2. f \in [1..Len(messages) -> Message]
  BY <1>1
<1>3. f \in Seq(Message) /\ DOMAIN f = DOMAIN messages
  BY <1>1, <1>2, MessageSeq
<1> QED
  BY <1>3 DEF Evolves

LEMMA CancelledOne ==
    ASSUME NEW m \in Message
    PROVE  /\ Cancelled(m) \in Message
           /\ Cancelled(m).id = m.id /\ Cancelled(m).payload = m.payload
           /\ Cancelled(m).retries = m.retries /\ Cancelled(m).tries = m.tries
           /\ ~IsActive(Cancelled(m))
           /\ ~IsActive(m) => Cancelled(m) = m
           /\ Cancelled(m).status = "sent" => m.status = "sent"
BY DEF Cancelled, Message, IsActive, Active, Statuses

LEMMA TickedOne ==
    ASSUME NEW m \in Message, NEW t \in Nat
    PROVE  /\ Ticked(m, t) \in Message
           /\ Ticked(m, t).id = m.id /\ Ticked(m, t).payload = m.payload
           /\ Ticked(m, t).retries = m.retries /\ Ticked(m, t).tries = m.tries
           /\ IsActive(Ticked(m, t)) => IsActive(m) /\ Room(m)
           /\ ~IsActive(m) => Ticked(m, t) = m
           /\ Ticked(m, t).status = "sent" => m.status = "sent"
BY DEF Ticked, Message, IsActive, Active, Statuses, Room

LEMMA FailedOne ==
    ASSUME NEW m \in Message
    PROVE  /\ Failed(m) \in Message
           /\ Failed(m).id = m.id /\ Failed(m).payload = m.payload
           /\ Failed(m).retries = m.retries
           /\ IsActive(Failed(m)) => IsActive(m)
           /\ IsActive(m) => Failed(m).tries = m.tries + 1
           /\ ~IsActive(m) => Failed(m) = m
           /\ Failed(m).status = "sent" => m.status = "sent"
<1>1. CASE ~IsActive(m)
  BY <1>1 DEF Failed
<1>2. CASE IsActive(m)
  <2>1. Failed(m) = [m EXCEPT !.tries = m.tries + 1, !.status = "retrying"]
    BY <1>2 DEF Failed
  <2>2. m.tries + 1 \in Nat
    BY DEF Message
  <2>3. Failed(m) \in Message
    BY <2>1, <2>2 DEF Message, Statuses, Active
  <2> QED
    BY <1>2, <2>1, <2>2, <2>3 DEF Message
<1> QED
  BY <1>1, <1>2

LEMMA SentOne ==
    ASSUME NEW m \in Message
    PROVE  LET s == [m EXCEPT !.status = "sent"] IN
           /\ s \in Message
           /\ s.id = m.id /\ s.payload = m.payload
           /\ s.retries = m.retries /\ s.tries = m.tries
           /\ ~IsActive(s) /\ s.status = "sent"
BY DEF Message, IsActive, Active, Statuses

LEMMA CallsEvolve ==
    ASSUME messages \in Seq(Message), now \in Nat
    PROVE  /\ \A id : Cancel(id) => Evolves
           /\ CancelAll => Evolves
           /\ Tick(now) => Evolves
           /\ \A id : MarkSent(id) => Evolves
           /\ \A id : MarkFailed(id) => Evolves
<1>0. \A i \in DOMAIN messages : messages[i] \in Message
  BY ElementOfSeq, PlacesFinite
<1>1. ASSUME NEW id, Cancel(id) PROVE Evolves
  <2> DEFINE f == [i \in DOMAIN messages |->
                     IF messages[i].id = id THEN Cancelled(messages[i]) ELSE messages[i]]
  <2>1. messages' = f
    BY <1>1 DEF Cancel
  <2>2. \A i \in DOMAIN messages :
              /\ f[i] \in Message
              /\ f[i].id = messages[i].id /\ f[i].payload = messages[i].payload
              /\ f[i].retries = messages[i].retries
              /\ IsActive(f[i]) => IsActive(messages[i])
    BY <1>0, CancelledOne
  <2> HIDE DEF f
  <2>3. f = [i \in DOMAIN messages |-> f[i]]
    BY DEF f
  <2> QED
    BY <2>1, <2>2, <2>3, EvolvesPointwise
<1>2. ASSUME CancelAll PROVE Evolves
  <2> DEFINE f == [i \in DOMAIN messages |-> Cancelled(messages[i])]
  <2>1. messages' = f
    BY <1>2 DEF CancelAll
  <2>2. \A i \in DOMAIN messages :
              /\ f[i] \in Message
              /\ f[i].id = messages[i].id /\ f[i].payload = messages[i].payload
              /\ f[i].retries = messages[i].retries
              /\ IsActive(f[i]) => IsActive(messages[i])
    BY <1>0, CancelledOne
  <2> HIDE DEF f
  <2>3. f = [i \in DOMAIN messages |-> f[i]]
    BY DEF f
  <2> QED
    BY <2>1, <2>2, <2>3, EvolvesPointwise
<1>3. ASSUME Tick(now) PROVE Evolves
  <2> DEFINE f == [i \in DOMAIN messages |-> Ticked(messages[i], now)]
  <2>1. messages' = f
    BY <1>3 DEF Tick
  <2>2. \A i \in DOMAIN messages :
              /\ f[i] \in Message
              /\ f[i].id = messages[i].id /\ f[i].payload = messages[i].payload
              /\ f[i].retries = messages[i].retries
              /\ IsActive(f[i]) => IsActive(messages[i])
    BY <1>0, TickedOne
  <2> HIDE DEF f
  <2>3. f = [i \in DOMAIN messages |-> f[i]]
    BY DEF f
  <2> QED
    BY <2>1, <2>2, <2>3, EvolvesPointwise
<1>4. ASSUME NEW id, MarkSent(id) PROVE Evolves
  <2> DEFINE f == [i \in DOMAIN messages |->
                     IF messages[i].id = id THEN [messages[i] EXCEPT !.status = "sent"]
                     ELSE messages[i]]
  <2>1. messages' = f
    BY <1>4 DEF MarkSent
  <2>2. \A i \in DOMAIN messages :
              /\ f[i] \in Message
              /\ f[i].id = messages[i].id /\ f[i].payload = messages[i].payload
              /\ f[i].retries = messages[i].retries
              /\ IsActive(f[i]) => IsActive(messages[i])
    BY <1>0, SentOne
  <2> HIDE DEF f
  <2>3. f = [i \in DOMAIN messages |-> f[i]]
    BY DEF f
  <2> QED
    BY <2>1, <2>2, <2>3, EvolvesPointwise
<1>5. ASSUME NEW id, MarkFailed(id) PROVE Evolves
  <2> DEFINE f == [i \in DOMAIN messages |->
                     IF messages[i].id = id THEN Failed(messages[i]) ELSE messages[i]]
  <2>1. messages' = f
    BY <1>5 DEF MarkFailed
  <2>2. \A i \in DOMAIN messages :
              /\ f[i] \in Message
              /\ f[i].id = messages[i].id /\ f[i].payload = messages[i].payload
              /\ f[i].retries = messages[i].retries
              /\ IsActive(f[i]) => IsActive(messages[i])
    BY <1>0, FailedOne
  <2> HIDE DEF f
  <2>3. f = [i \in DOMAIN messages |-> f[i]]
    BY DEF f
  <2> QED
    BY <2>1, <2>2, <2>3, EvolvesPointwise
<1> QED
  BY <1>1, <1>2, <1>3, <1>4, <1>5

\* The messages a list in order names, as many as are active.
LEMMA ReadyOnes ==
    ASSUME messages \in Seq(Message), NEW ready \in Ready
    PROVE  /\ ready \in Seq(Message) /\ Len(ready) = ActiveCount(messages)
           /\ DOMAIN ready = 1..Len(ready)
           /\ \A k \in DOMAIN ready :
                 IsActive(ready[k]) /\ \E i \in DOMAIN messages : messages[i] = ready[k]
           /\ \A i \in DOMAIN messages :
                 IsActive(messages[i]) => \E k \in DOMAIN ready : ready[k] = messages[i]
           /\ (\A i, j \in DOMAIN messages : messages[i].id = messages[j].id => i = j) =>
                 \A k, l \in DOMAIN ready : ready[k].id = ready[l].id => k = l
           /\ (\A i, j \in DOMAIN messages :
                     messages[i].payload = messages[j].payload => i = j) =>
                 \A k, l \in DOMAIN ready : ready[k].payload = ready[l].payload => k = l
<1> DEFINE n == Cardinality(ActiveAt(messages))
<1>1. n \in Nat /\ n = ActiveCount(messages)
  BY PlacesFinite DEF ActiveCount
<1>2. PICK order \in InOrder(ActiveAt(messages)) :
          ready = [k \in DOMAIN order |-> messages[order[k]]]
  BY DEF Ready
<1>3. /\ order \in [1..n -> ActiveAt(messages)]
      /\ \A i \in ActiveAt(messages) : \E k \in 1..n : order[k] = i
      /\ \A k, l \in 1..n : k < l => order[k] < order[l]
  BY <1>2 DEF InOrder
<1> HIDE DEF n
<1>4. \A k \in 1..n : order[k] \in DOMAIN messages /\ IsActive(messages[order[k]])
  BY <1>3 DEF ActiveAt
<1>5. ready \in [1..n -> Message] /\ \A k \in 1..n : ready[k] = messages[order[k]]
  BY <1>2, <1>3, <1>4, ElementOfSeq, PlacesFinite
<1>6. ready \in Seq(Message) /\ Len(ready) = n /\ DOMAIN ready = 1..n
  BY <1>1, <1>5, MessageSeq
<1>7. \A k, l \in 1..n : order[k] = order[l] => k = l
  <2> SUFFICES ASSUME NEW k \in 1..n, NEW l \in 1..n, order[k] = order[l] PROVE k = l
    OBVIOUS
  <2>1. order[k] \in Nat
    BY <1>3, PlacesFinite
  <2> QED
    BY <1>1, <1>3, <2>1
<1>8. \A i \in DOMAIN messages :
          IsActive(messages[i]) => \E k \in 1..n : ready[k] = messages[i]
  BY <1>3, <1>5 DEF ActiveAt
<1>9. \A k \in DOMAIN ready :
          IsActive(ready[k]) /\ \E i \in DOMAIN messages : messages[i] = ready[k]
  BY <1>4, <1>5, <1>6
<1>10. ASSUME \A i, j \in DOMAIN messages : messages[i].id = messages[j].id => i = j
       PROVE  \A k, l \in DOMAIN ready : ready[k].id = ready[l].id => k = l
  <2> SUFFICES ASSUME NEW k \in 1..n, NEW l \in 1..n, ready[k].id = ready[l].id PROVE k = l
    BY <1>6
  <2>1. messages[order[k]].id = messages[order[l]].id
    BY <1>5
  <2>2. order[k] = order[l]
    BY <1>10, <1>4, <2>1
  <2> QED
    BY <1>7, <2>2
<1>11. ASSUME \A i, j \in DOMAIN messages : messages[i].payload = messages[j].payload => i = j
       PROVE  \A k, l \in DOMAIN ready : ready[k].payload = ready[l].payload => k = l
  <2> SUFFICES ASSUME NEW k \in 1..n, NEW l \in 1..n, ready[k].payload = ready[l].payload PROVE k = l
    BY <1>6
  <2>1. messages[order[k]].payload = messages[order[l]].payload
    BY <1>5
  <2>2. order[k] = order[l]
    BY <1>11, <1>4, <2>1
  <2> QED
    BY <1>7, <2>2
<1> QED
  BY <1>1, <1>6, <1>8, <1>9, <1>10, <1>11

\* The first messages of a list.
LEMMA FirstOnes ==
    ASSUME NEW q \in Seq(Message), NEW k \in 0..Len(q)
    PROVE  /\ SubSeq(q, 1, k) \in Seq(Message) /\ Len(SubSeq(q, 1, k)) = k
           /\ DOMAIN SubSeq(q, 1, k) = 1..k /\ 1..k \subseteq DOMAIN q
           /\ \A i \in 1..k : SubSeq(q, 1, k)[i] = q[i]
BY LenProperties, SubSeqProperties

-----------------------------------------------------------------------------
(* The type invariant                                                      *)

QueueInv == QueueTypeOK /\ DiskIsSound

LEMMA FewerActive ==
    ASSUME NEW q \in Seq(Message), NEW r \in Seq(Message),
           ActiveAt(r) \subseteq ActiveAt(q)
    PROVE  ActiveCount(r) <= ActiveCount(q)
BY PlacesFinite, FS_Subset DEF ActiveCount

LEMMA QueueEvolves ==
    ASSUME QueueInv, Evolves, UNCHANGED <<nextId, defaults, initialized, disk>>
    PROVE  QueueInv'
<1> USE DEF QueueInv, QueueTypeOK
<1>1. ActiveAt(messages') \subseteq ActiveAt(messages)
  BY DEF Evolves, ActiveAt
<1>2. ActiveCount(messages') <= MaxQueue
  <2>1. ActiveCount(messages') <= ActiveCount(messages)
    BY <1>1, FewerActive DEF Evolves
  <2>2. ActiveCount(messages') \in Nat /\ ActiveCount(messages) \in Nat
    BY PlacesFinite DEF Evolves
  <2> QED
    BY <2>1, <2>2, QueueAssumption
<1>3. /\ \A i, j \in DOMAIN messages' : messages'[i].id = messages'[j].id => i = j
      /\ \A i \in DOMAIN messages' : messages'[i].id < nextId'
  BY DEF Evolves
<1>4. messages' \in Seq(Message)
  BY DEF Evolves
<1>5. DiskIsSound'
  BY DEF DiskIsSound
<1> QED
  BY <1>2, <1>3, <1>4, <1>5

\* The message enqueue appends.
Queued(p) ==
    [id |-> nextId, payload |-> p, created |-> 0, tries |-> 0,
     retries |-> defaults.retries, ttl |-> defaults.ttl, status |-> "pending"]

LEMMA EnqueueAppends ==
    ASSUME QueueTypeOK, NEW p \in Payloads, Enqueue(p, 0), Refusal(p) = 0
    PROVE  /\ Queued(p) \in Message /\ messages' = Append(messages, Queued(p))
           /\ messages' \in Seq(Message) /\ Len(messages') = Len(messages) + 1
           /\ DOMAIN messages = 1..Len(messages) /\ Len(messages) \in Nat
           /\ DOMAIN messages' = DOMAIN messages \cup {Len(messages) + 1}
           /\ \A i \in DOMAIN messages : messages'[i] = messages[i]
           /\ messages'[Len(messages) + 1] = Queued(p)
           /\ nextId' = nextId + 1
<1>1. Queued(p) \in Message
  BY QueueAssumption DEF Queued, Message, QueueTypeOK, Limits, Statuses, Active
<1>2. messages' = Append(messages, Queued(p)) /\ nextId' = nextId + 1
  BY DEF Enqueue, Queued
<1>3. messages \in Seq(Message)
  BY DEF QueueTypeOK
<1>4. Len(messages) \in Nat /\ DOMAIN messages = 1..Len(messages)
  BY <1>3, LenProperties
<1>5. /\ messages' \in Seq(Message) /\ Len(messages') = Len(messages) + 1
      /\ \A i \in 1..Len(messages) : messages'[i] = messages[i]
      /\ messages'[Len(messages) + 1] = Queued(p)
  BY <1>1, <1>2, <1>3, AppendProperties
<1>6. DOMAIN messages' = 1..(Len(messages) + 1)
  BY <1>5, LenProperties
<1> QED
  BY <1>1, <1>2, <1>4, <1>5, <1>6

LEMMA QueueEnqueues ==
    ASSUME QueueInv, NEW p \in Payloads, Enqueue(p, 0)
    PROVE  QueueInv'
<1> USE DEF QueueInv, QueueTypeOK
<1>0. UNCHANGED <<defaults, initialized, disk>> /\ DiskIsSound'
  BY DEF Enqueue, DiskIsSound
<1>1. CASE Refusal(p) # 0
  BY <1>0, <1>1 DEF Enqueue
<1>2. CASE Refusal(p) = 0
  <2> DEFINE last == Len(messages) + 1
  <2>1. /\ Queued(p) \in Message /\ messages' \in Seq(Message)
        /\ DOMAIN messages = 1..Len(messages) /\ Len(messages) \in Nat
        /\ DOMAIN messages' = DOMAIN messages \cup {last}
        /\ \A i \in DOMAIN messages : messages'[i] = messages[i]
        /\ messages'[last] = Queued(p)
        /\ nextId' = nextId + 1
    BY <1>2, EnqueueAppends
  <2>2. Queued(p).id = nextId
    BY DEF Queued
  <2>3. /\ \A i, j \in DOMAIN messages' : messages'[i].id = messages'[j].id => i = j
        /\ \A i \in DOMAIN messages' : messages'[i].id < nextId'
    <3>1. \A i \in DOMAIN messages : messages[i].id \in Nat
      BY MessagesAt
    <3>2. \A i \in DOMAIN messages : messages'[i].id < nextId /\ messages'[i].id \in Nat
      BY <2>1, <3>1
    <3>3. messages'[last].id = nextId
      BY <2>1, <2>2
    <3>4. \A i, j \in DOMAIN messages : messages'[i].id = messages'[j].id => i = j
      BY <2>1
    <3> HIDE DEF last
    <3> QED
      BY <2>1, <3>2, <3>3, <3>4
  <2>4. ActiveAt(messages') \subseteq ActiveAt(messages) \cup {last}
    BY <2>1 DEF ActiveAt
  <2>5. IsFiniteSet(ActiveAt(messages)) /\ ActiveCount(messages) \in Nat
        /\ ActiveCount(messages') \in Nat
    BY <2>1, PlacesFinite
  <2>6. ActiveCount(messages') <= ActiveCount(messages) + 1
    <3>1. /\ IsFiniteSet(ActiveAt(messages) \cup {last})
          /\ Cardinality(ActiveAt(messages) \cup {last}) <= ActiveCount(messages) + 1
      <4>1. /\ IsFiniteSet(ActiveAt(messages) \cup {last})
            /\ Cardinality(ActiveAt(messages) \cup {last}) =
                 IF last \in ActiveAt(messages) THEN ActiveCount(messages)
                 ELSE ActiveCount(messages) + 1
        BY <2>5, FS_AddElement DEF ActiveCount
      <4> QED
        BY <2>5, <4>1
    <3>2. ActiveCount(messages') <= Cardinality(ActiveAt(messages) \cup {last})
      BY <2>4, <3>1, FS_Subset DEF ActiveCount
    <3>3. Cardinality(ActiveAt(messages) \cup {last}) \in Nat
      BY <3>1, FS_CardinalityType
    <3> QED
      BY <2>5, <3>1, <3>2, <3>3
  <2>7. ActiveCount(messages) < MaxQueue
    BY <1>2, <2>5, QueueAssumption DEF Refusal
  <2>8. ActiveCount(messages') <= MaxQueue
    BY <2>5, <2>6, <2>7, QueueAssumption
  <2> HIDE DEF last
  <2> QED
    BY <1>0, <2>1, <2>3, <2>8
<1> QED
  BY <1>1, <1>2

LEMMA QueuePurges ==
    ASSUME QueueInv, PurgeCompleted
    PROVE  QueueInv'
<1> USE DEF QueueInv, QueueTypeOK
<1>1. messages' \in Ready /\ UNCHANGED <<nextId, defaults, initialized, disk>>
  BY DEF PurgeCompleted
<1>2. /\ messages' \in Seq(Message) /\ Len(messages') = ActiveCount(messages)
      /\ \A k \in DOMAIN messages' : \E i \in DOMAIN messages : messages[i] = messages'[k]
      /\ \A k, l \in DOMAIN messages' : messages'[k].id = messages'[l].id => k = l
  BY <1>1, ReadyOnes
<1>3. ActiveCount(messages') <= Len(messages')
  <2>1. ActiveAt(messages') \subseteq 1..Len(messages') /\ Len(messages') \in Nat
    BY <1>2, PlacesFinite
  <2>2. IsFiniteSet(1..Len(messages')) /\ Cardinality(1..Len(messages')) = Len(messages')
    BY <2>1, SizeOfInterval
  <2> QED
    BY <2>1, <2>2, FS_Subset DEF ActiveCount
<1>4. \A k \in DOMAIN messages' : messages'[k].id < nextId'
  BY <1>1, <1>2
<1>5. DiskIsSound'
  BY <1>1 DEF DiskIsSound
<1>6. ActiveCount(messages') <= MaxQueue
  <2>1. ActiveCount(messages) \in Nat /\ ActiveCount(messages') \in Nat
    BY <1>2, PlacesFinite
  <2> QED
    BY <1>2, <1>3, <2>1, QueueAssumption
<1> QED
  BY <1>1, <1>2, <1>4, <1>5, <1>6

LEMMA LoadedFile ==
    ASSUME QueueInv, ~initialized, messages = <<>>, InitQueue
    PROVE  /\ messages' = disk
           /\ nextId' \in Nat /\ nextId <= nextId'
           /\ \A i \in DOMAIN disk : disk[i].id < nextId'
           /\ \/ nextId' = nextId
              \/ \E i \in DOMAIN disk : nextId' = disk[i].id + 1
<1> USE DEF QueueInv, QueueTypeOK
<1>1. messages' = disk
  BY ConcatEmptySeq DEF InitQueue
<1>2. \A i \in DOMAIN disk : disk[i].id \in Nat
  BY MessagesAt
<1>3. nextId' \in FreeIds /\ \A m \in FreeIds : m <= nextId'
  BY DEF InitQueue
<1>4. FreeIds \subseteq Nat
  BY <1>2 DEF FreeIds
<1>5. \A i \in DOMAIN disk : disk[i].id + 1 <= nextId'
  BY <1>3 DEF FreeIds
<1>6. nextId' \in Nat /\ nextId <= nextId'
  BY <1>3, <1>4 DEF FreeIds
<1>7. \A i \in DOMAIN disk : disk[i].id < nextId'
  BY <1>2, <1>5, <1>6
<1>8. nextId' = nextId \/ \E i \in DOMAIN disk : nextId' = disk[i].id + 1
  BY <1>3 DEF FreeIds
<1> QED
  BY <1>1, <1>6, <1>7, <1>8

LEMMA QueueLoads ==
    ASSUME QueueInv, ~initialized => messages = <<>>, InitQueue
    PROVE  QueueInv'
<1> USE DEF QueueInv, QueueTypeOK
<1>0. initialized' = TRUE /\ UNCHANGED <<defaults, disk>> /\ DiskIsSound'
  BY DEF InitQueue, DiskIsSound
<1>1. CASE initialized
  BY <1>0, <1>1 DEF InitQueue
<1>2. CASE ~initialized
  BY <1>0, <1>2, LoadedFile DEF DiskIsSound
<1> QED
  BY <1>1, <1>2

LEMMA EmptyIsSound ==
    /\ <<>> \in Seq(Message) /\ DOMAIN <<>> = {}
    /\ ActiveCount(<<>>) = 0
<1>1. ActiveAt(<<>>) = {}
  BY DEF ActiveAt
<1> QED
  BY <1>1, EmptySeq, FS_EmptySet DEF ActiveCount

LEMMA QueueSaves ==
    ASSUME QueueInv, SaveBegins \/ SaveEnds
    PROVE  QueueInv'
<1> USE DEF QueueInv, QueueTypeOK
<1>1. CASE SaveBegins
  BY <1>1, EmptyIsSound, QueueAssumption DEF SaveBegins, DiskIsSound
<1>2. CASE SaveEnds
  BY <1>2 DEF SaveEnds, DiskIsSound
<1> QED
  BY <1>1, <1>2

LEMMA QueueIsLost ==
    ASSUME QueueInv, QueueLost
    PROVE  QueueInv'
<1> USE DEF QueueInv, QueueTypeOK
<1>1. messages' = <<>> /\ nextId' = 1 /\ initialized' = FALSE /\ disk' = disk
      /\ defaults' \in Limits
  BY DEF QueueLost
<1>2. messages' \in Seq(Message) /\ DOMAIN messages' = {} /\ ActiveCount(messages') = 0
  BY <1>1, EmptyIsSound
<1>3. DiskIsSound'
  BY <1>1 DEF DiskIsSound
<1>4. ActiveCount(messages') <= MaxQueue
  BY <1>2, QueueAssumption
<1>5. nextId' \in Nat
  BY <1>1
<1> QED
  BY <1>1, <1>2, <1>3, <1>4, <1>5

LEMMA QueueStarts == QueueInit => QueueInv
<1> SUFFICES ASSUME QueueInit PROVE QueueInv
  OBVIOUS
<1>1. /\ messages = <<>> /\ nextId = 1 /\ initialized = FALSE /\ disk = <<>>
      /\ defaults \in Limits
  BY DEF QueueInit
<1>2. messages \in Seq(Message) /\ DOMAIN messages = {} /\ ActiveCount(messages) = 0
  BY <1>1, EmptyIsSound
<1>3. ActiveCount(messages) <= MaxQueue
  BY <1>2, QueueAssumption
<1>4. DiskIsSound
  BY <1>1, <1>2, <1>3 DEF DiskIsSound
<1>5. QueueTypeOK
  BY <1>1, <1>2, <1>3 DEF QueueTypeOK
<1> QED
  BY <1>4, <1>5 DEF QueueInv

-----------------------------------------------------------------------------

TaskTypeOK ==
    /\ app \in {"off", "shown", "hidden"}
    /\ ui \in {"idle", "send", "get ready", "dispatch", "save"}
    /\ sending \in [payload : Payloads, id : Nat]
    /\ batch \in Seq(Message) /\ Len(batch) <= Batch
    /\ now \in 0..MaxNow
    /\ unsent \subseteq Payloads /\ taken \subseteq Payloads
    /\ accepted \in [Payloads -> Nat]
    /\ crashes \in 0..MaxCrashes

LEMMA TypeInvParts == TypeInv <=> QueueInv /\ TaskTypeOK /\ QueueLoaded
BY DEF TypeInv, TypeOK, TaskTypeOK, QueueInv

LEMMA NothingTyped == Nothing \in [payload : Payloads, id : Nat]
BY QueueAssumption DEF Nothing

LEMMA TypeInit == Init => TypeInv
<1> SUFFICES ASSUME Init PROVE TypeInv
  OBVIOUS
<1>1. QueueInv
  BY QueueStarts DEF Init
<1>2. TaskTypeOK
  BY NothingTyped, EmptyIsSound, EmptySeq, MessengerAssumption DEF Init, TaskTypeOK
<1>3. QueueLoaded
  BY DEF Init, QueueInit, QueueLoaded
<1> QED
  BY <1>1, <1>2, <1>3, TypeInvParts

\* The names of the actions, for the proofs that go through them one by one.
LEMMA NextSteps ==
    ASSUME Next
    PROVE  \/ Create \/ Show \/ Hide \/ Destroy \/ Saved \/ Clock \/ Crash \/ OtherCall
           \/ \E p \in Payloads : SendMessage(p)
           \/ DirectSend \/ DirectSendFails \/ KernelTick \/ GetReady
           \/ DispatchUnavailable \/ DispatchTaken \/ DispatchRefused
BY DEF Next, UiTask

LEMMA TakesTyped ==
    ASSUME TaskTypeOK, NEW p \in Payloads, Takes(p)
    PROVE  /\ accepted' \in [Payloads -> Nat] /\ taken' \subseteq Payloads
           /\ accepted'[p] = accepted[p] + 1 /\ taken' = taken \cup {p}
           /\ \A q \in Payloads : q # p => accepted'[q] = accepted[q]
<1>0. accepted \in [Payloads -> Nat] /\ taken \subseteq Payloads
  BY DEF TaskTypeOK
<1>1. accepted \in [Payloads -> Nat] /\ taken \subseteq Payloads /\ accepted[p] + 1 \in Nat
  BY <1>0
<1>2. accepted' = [accepted EXCEPT ![p] = accepted[p] + 1] /\ taken' = taken \cup {p}
  BY DEF Takes
<1>3. accepted' \in [Payloads -> Nat] /\ taken' \subseteq Payloads
  BY <1>1, <1>2
<1> QED
  BY <1>1, <1>2, <1>3

LEMMA BatchGoesOn ==
    ASSUME TypeInv, Dispatched
    PROVE  /\ Head(batch) \in Message /\ Head(batch) = batch[1] /\ 1 \in DOMAIN batch
           /\ Head(batch).payload \in Payloads
           /\ batch' \in Seq(Message) /\ Len(batch') = Len(batch) - 1
           /\ \A k \in DOMAIN batch' : k + 1 \in DOMAIN batch /\ batch'[k] = batch[k + 1]
           /\ Len(batch) \in Nat /\ (Len(batch) # 1 => batch' # <<>>)
           /\ \A k \in DOMAIN batch' : k \in Nat /\ k + 1 # 1
<1>1. batch \in Seq(Message) /\ batch # <<>> /\ batch' = Tail(batch)
  BY TypeInvParts DEF TaskTypeOK, QueueLoaded, Dispatched
<1>2. /\ Head(batch) \in Message /\ batch' \in Seq(Message)
      /\ Len(batch') = Len(batch) - 1
      /\ \A k \in 1..Len(batch') : batch'[k] = batch[k + 1]
  BY <1>1, HeadTailProperties
<1>3. Len(batch) \in Nat \ {0} /\ DOMAIN batch = 1..Len(batch)
      /\ DOMAIN batch' = 1..Len(batch')
  BY <1>1, <1>2, EmptySeq, LenProperties
<1>4. Head(batch) = batch[1]
  BY <1>1
<1>5. Len(batch) # 1 => batch' # <<>>
  BY <1>2, <1>3, EmptySeq
<1>6. Head(batch).payload \in Payloads
  BY <1>2 DEF Message
<1> QED
  BY <1>1, <1>2, <1>3, <1>4, <1>5, <1>6

LEMMA BatchIsReady ==
    ASSUME TypeInv, GetReady
    PROVE  /\ batch' \in Seq(Message) /\ Len(batch') <= Batch
           /\ \A k \in DOMAIN batch' :
                 IsActive(batch'[k]) /\ \E i \in DOMAIN messages : messages[i] = batch'[k]
           /\ \A k, l \in DOMAIN batch' : batch'[k].id = batch'[l].id => k = l
<1>1. messages \in Seq(Message)
      /\ \A i, j \in DOMAIN messages : messages[i].id = messages[j].id => i = j
  BY TypeInvParts DEF QueueInv, QueueTypeOK
<1>2. PICK ready \in Ready :
          batch' = SubSeq(ready, 1, IF Len(ready) < Batch THEN Len(ready) ELSE Batch)
  BY DEF GetReady
<1>3. /\ ready \in Seq(Message)
      /\ \A k \in DOMAIN ready :
            IsActive(ready[k]) /\ \E i \in DOMAIN messages : messages[i] = ready[k]
      /\ \A k, l \in DOMAIN ready : ready[k].id = ready[l].id => k = l
  BY <1>1, ReadyOnes
<1>4. PICK n \in 0..Len(ready) : batch' = SubSeq(ready, 1, n) /\ n <= Batch
  BY <1>2, <1>3, LenProperties, MessengerAssumption
<1>5. /\ batch' \in Seq(Message) /\ Len(batch') = n
      /\ DOMAIN batch' = 1..n /\ 1..n \subseteq DOMAIN ready
      /\ \A i \in 1..n : batch'[i] = ready[i]
  BY <1>3, <1>4, FirstOnes
<1>6. Len(batch') <= Batch
  BY <1>4, <1>5
<1>7. \A k \in DOMAIN batch' :
         IsActive(batch'[k]) /\ \E i \in DOMAIN messages : messages[i] = batch'[k]
  BY ONLY <1>3, <1>5
<1>8. \A k, l \in DOMAIN batch' : batch'[k].id = batch'[l].id => k = l
  BY ONLY <1>3, <1>5
<1> QED
  BY <1>5, <1>6, <1>7, <1>8

LEMMA TypeStep == TypeInv /\ [Next]_vars => TypeInv'
<1> SUFFICES ASSUME TypeInv, [Next]_vars PROVE QueueInv' /\ TaskTypeOK' /\ QueueLoaded'
  BY TypeInvParts DEF TypeInv, TypeOK, TaskTypeOK, QueueInv
<1>0. QueueInv /\ TaskTypeOK /\ QueueLoaded
  BY TypeInvParts
<1>b. messages \in Seq(Message) /\ now \in 0..MaxNow /\ crashes \in 0..MaxCrashes
  BY <1>0 DEF QueueInv, QueueTypeOK, TaskTypeOK
<1>a. messages \in Seq(Message) /\ now \in Nat
  BY <1>b, MessengerAssumption
<1>1. CASE Create
  <2>1. QueueInv'
    BY <1>0, <1>1, QueueLoads DEF Create, QueueLoaded
  <2>2. TaskTypeOK' /\ QueueLoaded'
    BY <1>0, <1>1 DEF Create, InitQueue, TaskTypeOK, QueueLoaded
  <2> QED
    BY <2>1, <2>2
<1>2. CASE Show \/ Clock
  <2>1. QueueInv' /\ QueueLoaded'
    BY <1>0, <1>2 DEF Show, Clock, queueVars, QueueInv, QueueTypeOK, DiskIsSound, QueueLoaded
  <2>2. TaskTypeOK'
    <3>1. CASE Show
      BY <1>0, <3>1 DEF Show, TaskTypeOK
    <3>2. CASE Clock
      <4>1. now' \in 0..MaxNow
        BY <1>b, <3>2, MessengerAssumption DEF Clock
      <4> QED
        BY <1>0, <3>2, <4>1 DEF Clock, TaskTypeOK
    <3> QED
      BY <1>2, <3>1, <3>2
  <2> QED
    BY <2>1, <2>2
<1>3. ASSUME NEW to \in {"hidden", "off"}, app # "off", Leave(to)
      PROVE  QueueInv' /\ TaskTypeOK' /\ QueueLoaded'
  <2>1. QueueInv'
    <3>1. CASE SaveBegins
      BY <1>0, <3>1, QueueSaves
    <3>2. CASE UNCHANGED queueVars
      BY <1>0, <3>2 DEF queueVars, QueueInv, QueueTypeOK, DiskIsSound
    <3> QED
      BY <1>3, <3>1, <3>2 DEF Leave
  <2>2. TaskTypeOK'
    BY <1>0, <1>3 DEF Leave, TaskTypeOK
  <2>3. QueueLoaded'
    <3>1. initialized /\ initialized'
      <4>1. initialized
        BY <1>0, <1>3 DEF QueueLoaded
      <4>2. initialized' = initialized
        BY <1>3 DEF Leave, SaveBegins, queueVars
      <4> QED
        BY <4>1, <4>2
    <3>2. ui' # "dispatch"
      BY <1>3 DEF Leave
    <3> QED
      BY <3>1, <3>2 DEF QueueLoaded
  <2> QED
    BY <2>1, <2>2, <2>3
<1>4. CASE Hide \/ Destroy
  BY <1>3, <1>4 DEF Hide, Destroy
<1>5. CASE Saved
  <2>1. QueueInv'
    BY <1>0, <1>5, QueueSaves DEF Saved, queueVars, QueueInv, QueueTypeOK, DiskIsSound
  <2>2. TaskTypeOK' /\ QueueLoaded'
    BY <1>0, <1>5 DEF Saved, SaveEnds, queueVars, TaskTypeOK, QueueLoaded
  <2> QED
    BY <2>1, <2>2
<1>6. ASSUME NEW p \in Payloads, SendMessage(p)
      PROVE  QueueInv' /\ TaskTypeOK' /\ QueueLoaded'
  <2>1. QueueInv'
    BY <1>0, <1>6, QueueEnqueues DEF SendMessage
  <2>2. EnqueueResult(p) \in Nat
    BY <1>0, QueueAssumption DEF EnqueueResult, Refusal, QueueInv, QueueTypeOK
  <2>3. TaskTypeOK'
    BY <1>0, <1>6, <2>2 DEF SendMessage, TaskTypeOK
  <2>4. QueueLoaded'
    BY <1>0, <1>6 DEF SendMessage, Enqueue, QueueLoaded
  <2> QED
    BY <2>1, <2>3, <2>4
<1>7. CASE DirectSend
  <2>1. sending.payload \in Payloads
    BY <1>0 DEF TaskTypeOK
  <2>2. accepted' \in [Payloads -> Nat] /\ taken' \subseteq Payloads
    BY <1>0, <1>7, <2>1, TakesTyped DEF DirectSend
  <2>3. TaskTypeOK'
    BY <1>0, <1>7, <2>2, NothingTyped DEF DirectSend, TaskTypeOK
  <2>4. QueueInv'
    <3>1. CASE sending.id > 0
      BY <1>0, <1>a, <1>7, <3>1, CallsEvolve, QueueEvolves DEF DirectSend, MarkSent
    <3>2. CASE ~(sending.id > 0)
      BY <1>0, <1>7, <3>2 DEF DirectSend, queueVars, QueueInv, QueueTypeOK, DiskIsSound
    <3> QED
      BY <3>1, <3>2
  <2>5. QueueLoaded'
    BY <1>0, <1>7 DEF DirectSend, MarkSent, queueVars, QueueLoaded
  <2> QED
    BY <2>3, <2>4, <2>5
<1>8. CASE DirectSendFails
  BY <1>0, <1>8, NothingTyped
     DEF DirectSendFails, queueVars, QueueInv, QueueTypeOK, DiskIsSound, TaskTypeOK, QueueLoaded
<1>9. CASE KernelTick
  <2>1. QueueInv'
    BY <1>0, <1>a, <1>9, CallsEvolve, QueueEvolves DEF KernelTick, Tick
  <2>2. TaskTypeOK' /\ QueueLoaded'
    BY <1>0, <1>9 DEF KernelTick, Tick, TaskTypeOK, QueueLoaded
  <2> QED
    BY <2>1, <2>2
<1>10. CASE GetReady
  <2>1. QueueInv'
    BY <1>0, <1>10 DEF GetReady, queueVars, QueueInv, QueueTypeOK, DiskIsSound
  <2>2. TaskTypeOK'
    BY <1>0, <1>10, BatchIsReady DEF GetReady, TaskTypeOK
  <2>3. QueueLoaded'
    BY <1>0, <1>10 DEF GetReady, queueVars, QueueLoaded
  <2> QED
    BY <2>1, <2>2, <2>3
<1>11. CASE Dispatched /\ (DispatchUnavailable \/ DispatchTaken \/ DispatchRefused)
  <2>0. /\ batch' \in Seq(Message) /\ Len(batch') <= Batch
        /\ Head(batch).payload \in Payloads /\ (Len(batch) # 1 => batch' # <<>>)
    <3>1. /\ batch' \in Seq(Message) /\ Len(batch') = Len(batch) - 1 /\ Len(batch) \in Nat
          /\ Head(batch).payload \in Payloads /\ (Len(batch) # 1 => batch' # <<>>)
      BY <1>11, BatchGoesOn
    <3>2. Len(batch) <= Batch /\ Batch \in Nat
      BY <1>0, MessengerAssumption DEF TaskTypeOK
    <3> QED
      BY <3>1, <3>2
  <2>1. CASE DispatchUnavailable
    BY <1>0, <1>11, <2>0, <2>1
       DEF DispatchUnavailable, Dispatched, queueVars, QueueInv, QueueTypeOK, DiskIsSound,
           TaskTypeOK, QueueLoaded
  <2>2. CASE DispatchTaken
    <3>1. accepted' \in [Payloads -> Nat] /\ taken' \subseteq Payloads
      BY <1>0, <2>0, <2>2, TakesTyped DEF DispatchTaken
    <3>2. QueueInv'
      BY <1>0, <1>a, <2>2, CallsEvolve, QueueEvolves DEF DispatchTaken, MarkSent
    <3>3. TaskTypeOK' /\ QueueLoaded'
      BY <1>0, <2>0, <2>2, <3>1
         DEF DispatchTaken, Dispatched, MarkSent, TaskTypeOK, QueueLoaded
    <3> QED
      BY <3>2, <3>3
  <2>3. CASE DispatchRefused
    <3>2. QueueInv'
      BY <1>0, <1>a, <2>3, CallsEvolve, QueueEvolves DEF DispatchRefused, MarkFailed
    <3>3. TaskTypeOK' /\ QueueLoaded'
      BY <1>0, <2>0, <2>3
         DEF DispatchRefused, Dispatched, MarkFailed, TaskTypeOK, QueueLoaded
    <3> QED
      BY <3>2, <3>3
  <2> QED
    BY <1>11, <2>1, <2>2, <2>3
<1>12. CASE OtherCall
  <2>1. TaskTypeOK'
    BY <1>0, <1>12 DEF OtherCall, messengerVars, TaskTypeOK
  <2>2. QueueLoaded'
    BY <1>0, <1>12
       DEF OtherCall, messengerVars, QueueLoaded, Cancel, CancelAll, PurgeCompleted, SetDefaults
  <2>3. QueueInv'
    <3>1. ASSUME NEW id, Cancel(id) PROVE QueueInv'
      BY <1>0, <1>a, <3>1, CallsEvolve, QueueEvolves DEF Cancel
    <3>2. CASE CancelAll
      BY <1>0, <1>a, <3>2, CallsEvolve, QueueEvolves DEF CancelAll
    <3>3. CASE PurgeCompleted
      BY <1>0, <3>3, QueuePurges
    <3>4. ASSUME NEW limits, SetDefaults(limits) PROVE QueueInv'
      BY <1>0, <3>4 DEF SetDefaults, QueueInv, QueueTypeOK, DiskIsSound
    <3> QED
      BY <1>12, <3>1, <3>2, <3>3, <3>4 DEF OtherCall
  <2> QED
    BY <2>1, <2>2, <2>3
<1>13. CASE Crash
  <2>1. QueueInv'
    BY <1>0, <1>13, QueueIsLost DEF Crash
  <2>2. TaskTypeOK'
    <3>1. batch' \in Seq(Message) /\ Len(batch') <= Batch
      BY <1>13, EmptySeq, MessengerAssumption DEF Crash
    <3>2. crashes' \in 0..MaxCrashes /\ now' \in 0..MaxNow
      BY <1>b, <1>13, MessengerAssumption DEF Crash
    <3>3. accepted' \in [Payloads -> Nat]
      BY <1>13 DEF Crash
    <3>4. unsent' = unsent /\ taken' = taken /\ sending' = Nothing /\ app' = "off" /\ ui' = "idle"
      BY <1>13 DEF Crash
    <3> QED
      BY <1>0, <3>1, <3>2, <3>3, <3>4, NothingTyped DEF TaskTypeOK
  <2>3. QueueLoaded'
    BY <1>0, <1>13 DEF Crash, QueueLost, QueueLoaded
  <2> QED
    BY <2>1, <2>2, <2>3
<1>14. CASE UNCHANGED vars
  BY <1>0, <1>14
     DEF vars, queueVars, messengerVars, QueueInv, QueueTypeOK, DiskIsSound, TaskTypeOK,
         QueueLoaded
<1> QED
  BY <1>1, <1>2, <1>4, <1>5, <1>6, <1>7, <1>8, <1>9, <1>10, <1>11, <1>12, <1>13, <1>14,
     NextSteps
     DEF DispatchUnavailable, DispatchTaken, DispatchRefused

LEMMA TypeInvariant == Spec => []TypeInv
BY TypeInit, TypeStep, PTL DEF Spec

\* The queue and the UI task stay well formed: no id is given twice, also when the
\* file is loaded, and no more messages wait than the queue may hold.
THEOREM TypeCorrect == Spec => []TypeOK
<1>1. TypeInv => TypeOK
  BY DEF TypeInv
<1> QED
  BY <1>1, TypeInvariant, PTL

-----------------------------------------------------------------------------
(* The batch and the attempts                                              *)

\* What the proofs below need to know of the types.
LEMMA TypeFacts ==
    ASSUME TypeInv
    PROVE  /\ messages \in Seq(Message) /\ disk \in Seq(Message) /\ now \in Nat
           /\ \A i, j \in DOMAIN messages : messages[i].id = messages[j].id => i = j
           /\ \A i \in DOMAIN messages : messages[i].id < nextId
           /\ nextId \in Nat /\ batch \in Seq(Message)
           /\ sending \in [payload : Payloads, id : Nat]
           /\ accepted \in [Payloads -> Nat]
           /\ unsent \subseteq Payloads
           /\ now \in 0..MaxNow
<1>1. QueueTypeOK /\ TaskTypeOK
  BY TypeInvParts DEF QueueInv
<1>2. now \in 0..MaxNow
  BY <1>1 DEF TaskTypeOK
<1>3. now \in Nat
  BY <1>2, MessengerAssumption
<1> QED
  BY <1>1, <1>2, <1>3 DEF QueueTypeOK, TaskTypeOK

LEMMA BatchStep == TypeInv /\ BatchInv /\ [Next]_vars => BatchInv'
<1> SUFFICES ASSUME TypeInv, BatchInv, [Next]_vars, ui' = "dispatch" PROVE BatchInv'
  BY DEF BatchInv
<1>1. CASE GetReady
  BY <1>1, BatchIsReady DEF GetReady, queueVars, BatchInv
<1>2. ASSUME Dispatched, MarkSent(Head(batch).id) \/ MarkFailed(Head(batch).id) \/ UNCHANGED queueVars
      PROVE  BatchInv'
  <2>1. /\ Head(batch) = batch[1] /\ 1 \in DOMAIN batch
        /\ \A k \in DOMAIN batch' : k + 1 \in DOMAIN batch /\ batch'[k] = batch[k + 1]
        /\ \A k \in DOMAIN batch' : k \in Nat /\ k + 1 # 1
    BY <1>2, BatchGoesOn
  <2>2. \A k, l \in DOMAIN batch : batch[k].id = batch[l].id => k = l
    BY <1>2 DEF BatchInv, Dispatched
  <2>3. /\ DOMAIN messages' = DOMAIN messages
        /\ \A i \in DOMAIN messages : messages[i].id # batch[1].id => messages'[i] = messages[i]
    BY <1>2, <2>1 DEF MarkSent, MarkFailed, queueVars
  <2>4. ASSUME NEW k \in DOMAIN batch'
        PROVE  IsActive(batch'[k]) /\ \E i \in DOMAIN messages' : messages'[i] = batch'[k]
    <3>1. k + 1 \in DOMAIN batch /\ batch'[k] = batch[k + 1] /\ k + 1 # 1
      BY <2>1
    <3>2. PICK i \in DOMAIN messages : messages[i] = batch[k + 1]
      BY <1>2, <3>1 DEF BatchInv, Dispatched
    <3>3. messages[i].id # batch[1].id
      BY <2>1, <2>2, <3>1, <3>2
    <3>4. IsActive(batch[k + 1])
      BY <1>2, <3>1 DEF BatchInv, Dispatched
    <3> QED
      BY <2>3, <3>1, <3>2, <3>3, <3>4
  <2>5. \A k, l \in DOMAIN batch' : batch'[k].id = batch'[l].id => k = l
    <3>1. SUFFICES ASSUME NEW k \in DOMAIN batch', NEW l \in DOMAIN batch',
                          batch'[k].id = batch'[l].id
                   PROVE  k = l
      OBVIOUS
    <3>2. k + 1 = l + 1
      BY <2>1, <2>2, <3>1
    <3> QED
      BY <2>1, <3>2
  <2> QED
    BY <2>4, <2>5 DEF BatchInv
<1>3. CASE Clock \/ UNCHANGED vars
  BY <1>3 DEF Clock, vars, queueVars, messengerVars, BatchInv
<1> QED
  BY <1>1, <1>2, <1>3, NextSteps
     DEF Create, Show, Hide, Destroy, Leave, Saved, Crash, OtherCall, messengerVars,
         SendMessage, DirectSend, DirectSendFails, KernelTick,
         DispatchUnavailable, DispatchTaken, DispatchRefused

LEMMA TriesStep == TypeInv /\ BatchInv /\ TriesInv /\ [Next]_vars => TriesInv'
<1> SUFFICES ASSUME TypeInv, BatchInv, TriesInv, [Next]_vars PROVE TriesInv'
  OBVIOUS
<1> USE TypeFacts
<1>a. Tried(messages) /\ Tried(disk)
  BY DEF TriesInv
<1>b. \A q \in {messages, disk} : \A i \in DOMAIN q :
          q[i] \in Message /\ q[i].tries \in Nat /\ q[i].retries \in Nat
  BY MessagesAt
<1>c. now \in Nat /\ \A i \in DOMAIN messages : messages[i] \in Message
  BY TypeFacts, <1>b
<1>d. \A i \in DOMAIN messages :
          LET m == Ticked(messages[i], now) IN
          /\ m.retries = messages[i].retries /\ m.tries = messages[i].tries
          /\ IsActive(m) => Room(messages[i])
  BY <1>c, TickedOne
\* The file.
<1>1. Tried(disk')
  <2>1. disk' \in {disk, messages, <<>>}
    BY NextSteps
       DEF Create, Show, Hide, Destroy, Leave, Saved, Crash, OtherCall, messengerVars,
           SendMessage, DirectSend, DirectSendFails, KernelTick, GetReady, Clock,
           DispatchUnavailable, DispatchTaken, DispatchRefused, vars, queueVars,
           InitQueue, SaveBegins, SaveEnds, Enqueue, MarkSent, MarkFailed, Tick, Cancel,
           CancelAll, PurgeCompleted, SetDefaults, QueueLost
  <2> QED
    BY <1>a, <2>1 DEF Tried
\* The messages.
<1>2. ASSUME UNCHANGED messages PROVE Tried(messages')
  BY <1>a, <1>2
<1>3. ASSUME NEW p \in Payloads, SendMessage(p) PROVE Tried(messages')
  <2>1. CASE Refusal(p) = 0
    <3>1. QueueTypeOK /\ Enqueue(p, 0)
      BY <1>3, TypeInvParts DEF SendMessage, QueueInv
    <3>2. Queued(p).tries = 0
      BY DEF Queued
    <3>3. /\ DOMAIN messages' = DOMAIN messages \cup {Len(messages) + 1}
          /\ \A i \in DOMAIN messages : messages'[i] = messages[i]
          /\ messages'[Len(messages) + 1] = Queued(p)
      BY <2>1, <3>1, EnqueueAppends
    <3>4. Queued(p).retries > 0 => Queued(p).tries <= Queued(p).retries
      <4>1. Queued(p) \in Message
        BY <2>1, <3>1, EnqueueAppends
      <4> QED
        BY <3>2, <4>1 DEF Message
    <3> QED
      BY <1>a, <3>3, <3>4 DEF Tried
  <2>2. CASE Refusal(p) # 0
    BY <1>3, <2>2, <1>a DEF SendMessage, Enqueue
  <2> QED
    BY <2>1, <2>2
<1>4. ASSUME NEW id, MarkSent(id) PROVE Tried(messages')
  BY <1>4, <1>a, <1>b, SentOne DEF MarkSent, Tried
<1>5. ASSUME NEW id, Cancel(id) PROVE Tried(messages')
  BY <1>5, <1>a, <1>b, CancelledOne DEF Cancel, Tried
<1>6. ASSUME CancelAll PROVE Tried(messages')
  <2>1. DOMAIN messages' = DOMAIN messages
        /\ \A i \in DOMAIN messages : messages'[i] = Cancelled(messages[i])
    BY <1>6 DEF CancelAll
  <2>2. \A i \in DOMAIN messages :
           /\ messages'[i].retries = messages[i].retries
           /\ messages'[i].tries = messages[i].tries
    BY <2>1, <1>b, CancelledOne
  <2> QED
    BY <1>a, <2>1, <2>2 DEF Tried
<1>7. ASSUME Tick(now) PROVE Tried(messages')
  BY <1>7, <1>a, <1>d DEF Tick, Tried
<1>8. ASSUME PurgeCompleted PROVE Tried(messages')
  <2>1. messages' \in Ready
    BY <1>8 DEF PurgeCompleted
  <2>2. \A k \in DOMAIN messages' : \E i \in DOMAIN messages : messages[i] = messages'[k]
    BY <1>a, <2>1, ReadyOnes
  <2> QED
    BY <1>a, <2>2 DEF Tried
<1>9. ASSUME Create PROVE Tried(messages')
  <2>1. CASE initialized
    BY <1>9, <2>1, <1>a DEF Create, InitQueue
  <2>2. CASE ~initialized
    <3>1. messages = <<>> /\ QueueInv
      BY <2>2, TypeInvParts DEF QueueLoaded
    <3>2. messages' = disk
      BY <1>9, <2>2, <3>1, LoadedFile DEF Create
    <3> QED
      BY <1>a, <3>2
  <2> QED
    BY <2>1, <2>2
<1>10. ASSUME Crash PROVE Tried(messages')
  BY <1>10 DEF Crash, QueueLost, Tried
<1>11. ASSUME DispatchRefused PROVE Tried(messages')
  <2>1. /\ Head(batch) = batch[1] /\ 1 \in DOMAIN batch /\ ui = "dispatch"
    BY <1>11, BatchGoesOn DEF DispatchRefused, Dispatched
  <2>2. PICK b \in DOMAIN messages : messages[b] = batch[1]
    BY <2>1 DEF BatchInv
  <2>3. IsActive(messages[b]) /\ Room(messages[b]) /\ messages[b].id = Head(batch).id
    BY <2>1, <2>2 DEF BatchInv, TriesInv
  <2>4. /\ DOMAIN messages' = DOMAIN messages
        /\ \A i \in DOMAIN messages : i # b => messages'[i] = messages[i]
        /\ messages'[b] = Failed(messages[b])
    BY <1>11, <2>2, <2>3 DEF DispatchRefused, MarkFailed
  <2>5. messages'[b].retries > 0 => messages'[b].tries <= messages'[b].retries
    <3>1. messages'[b].retries = messages[b].retries
          /\ messages'[b].tries = messages[b].tries + 1
      BY <1>b, <2>3, <2>4, FailedOne
    <3> QED
      BY <1>b, <2>3, <3>1 DEF Room
  <2> QED
    BY <1>a, <2>4, <2>5 DEF Tried
<1>12. Tried(messages')
  BY <1>2, <1>3, <1>4, <1>5, <1>6, <1>7, <1>8, <1>9, <1>10, <1>11, NextSteps
     DEF Show, Hide, Destroy, Leave, Saved, OtherCall, DirectSend, DirectSendFails,
         KernelTick, GetReady, Clock, DispatchUnavailable, DispatchTaken, vars, queueVars,
         SaveBegins, SaveEnds, SetDefaults
\* The callback of the tick.
<1>13. ASSUME ui' = "get ready"
       PROVE  \A i \in DOMAIN messages' : IsActive(messages'[i]) => Room(messages'[i])
  <2>1. CASE KernelTick
    <3> SUFFICES ASSUME NEW i \in DOMAIN messages', IsActive(messages'[i])
                 PROVE  Room(messages'[i])
      OBVIOUS
    <3>1. i \in DOMAIN messages /\ messages'[i] = Ticked(messages[i], now)
      BY <2>1 DEF KernelTick, Tick
    <3>2. /\ Room(messages[i]) /\ messages'[i].retries = messages[i].retries
          /\ messages'[i].tries = messages[i].tries
      BY <1>d, <3>1
    <3> QED
      BY <3>2 DEF Room
  <2>2. CASE Clock \/ UNCHANGED vars
    BY <1>13, <2>2 DEF Clock, vars, queueVars, messengerVars, TriesInv
  <2> QED
    BY <1>13, <2>1, <2>2, NextSteps
       DEF Create, Show, Hide, Destroy, Leave, Saved, Crash, OtherCall, messengerVars,
           SendMessage, DirectSend, DirectSendFails, GetReady, Dispatched,
           DispatchUnavailable, DispatchTaken, DispatchRefused
<1>14. ASSUME ui' = "dispatch" PROVE \A k \in DOMAIN batch' : Room(batch'[k])
  <2>1. CASE GetReady
    <3>1. ui = "get ready"
      BY <2>1 DEF GetReady
    <3> QED
      BY <2>1, <3>1, BatchIsReady DEF TriesInv
  <2>2. CASE Dispatched
    <3>1. ui = "dispatch"
      BY <2>2 DEF Dispatched
    <3> QED
      BY <2>2, <3>1, BatchGoesOn DEF TriesInv
  <2>3. CASE Clock \/ UNCHANGED vars
    BY <1>14, <2>3 DEF Clock, vars, messengerVars, TriesInv
  <2> QED
    BY <1>14, <2>1, <2>2, <2>3, NextSteps
       DEF Create, Show, Hide, Destroy, Leave, Saved, Crash, OtherCall, messengerVars,
           SendMessage, DirectSend, DirectSendFails, KernelTick,
           DispatchUnavailable, DispatchTaken, DispatchRefused
<1> QED
  BY <1>1, <1>12, <1>13, <1>14 DEF TriesInv

-----------------------------------------------------------------------------
(* What is sent once                                                       *)

\* How a step changes the messages: it keeps them, lets them evolve, queues one more,
\* drops those that are over, loads the file or loses them all.
LEMMA MessagesChange ==
    ASSUME TypeInv, [Next]_vars
    PROVE  \/ UNCHANGED <<messages, nextId>>
           \/ Evolves /\ nextId' = nextId
           \/ \E p \in Payloads : SendMessage(p) /\ Refusal(p) = 0
           \/ PurgeCompleted /\ nextId' = nextId
           \/ Create /\ ~initialized
           \/ Crash
<1> USE TypeFacts, CallsEvolve
<1>1. \A p \in Payloads : SendMessage(p) /\ Refusal(p) # 0 => UNCHANGED <<messages, nextId>>
  BY DEF SendMessage, Enqueue
<1>2. Create /\ initialized => UNCHANGED <<messages, nextId>>
  BY DEF Create, InitQueue
<1>3. KernelTick \/ DirectSend \/ DispatchTaken \/ DispatchRefused =>
          UNCHANGED <<messages, nextId>> \/ (Evolves /\ nextId' = nextId)
  <2>1. messages \in Seq(Message) /\ now \in Nat
    BY TypeFacts
  <2>2. KernelTick => Evolves /\ nextId' = nextId
    BY <2>1, CallsEvolve DEF KernelTick, Tick
  <2>3. DispatchTaken => Evolves /\ nextId' = nextId
    BY <2>1, CallsEvolve DEF DispatchTaken, MarkSent
  <2>4. DispatchRefused => Evolves /\ nextId' = nextId
    BY <2>1, CallsEvolve DEF DispatchRefused, MarkFailed
  <2>5. DirectSend => UNCHANGED <<messages, nextId>> \/ (Evolves /\ nextId' = nextId)
    BY <2>1, CallsEvolve DEF DirectSend, MarkSent, queueVars
  <2> QED
    BY <2>2, <2>3, <2>4, <2>5
<1>4. OtherCall => \/ UNCHANGED <<messages, nextId>>
                   \/ Evolves /\ nextId' = nextId
                   \/ PurgeCompleted /\ nextId' = nextId
  <2>1. messages \in Seq(Message) /\ now \in Nat
    BY TypeFacts
  <2> QED
    BY <2>1, CallsEvolve DEF OtherCall, Cancel, CancelAll, PurgeCompleted, SetDefaults
<1> QED
  BY <1>1, <1>2, <1>3, <1>4, NextSteps
     DEF Show, Hide, Destroy, Leave, Saved, DirectSendFails, GetReady, Clock,
         DispatchUnavailable, vars, queueVars, SaveBegins, SaveEnds

LEMMA FileChange ==
    ASSUME [Next]_vars
    PROVE  disk' \in {disk, messages, <<>>}
BY NextSteps
   DEF Create, Show, Hide, Destroy, Leave, Saved, Crash, OtherCall, messengerVars,
       SendMessage, DirectSend, DirectSendFails, KernelTick, GetReady, Clock,
       DispatchUnavailable, DispatchTaken, DispatchRefused, vars, queueVars,
       InitQueue, SaveBegins, SaveEnds, Enqueue, MarkSent, MarkFailed, Tick, Cancel,
       CancelAll, PurgeCompleted, SetDefaults, QueueLost

\* Only Create loads the file, into an empty queue.
LEMMA CreateLoads ==
    ASSUME TypeInv, Create, ~initialized
    PROVE  /\ messages = <<>> /\ nextId = 1 /\ messages' = disk
           /\ nextId' \in Nat /\ nextId <= nextId'
           /\ nextId' = nextId \/ \E i \in DOMAIN disk : nextId' = disk[i].id + 1
           /\ \A p \in Payloads : accepted[p] = 0
           /\ UNCHANGED <<disk, ui, unsent, accepted, taken, sending, crashes>>
<1>1. messages = <<>> /\ nextId = 1 /\ QueueInv /\ \A p \in Payloads : accepted[p] = 0
  BY TypeInvParts DEF QueueLoaded
<1> QED
  BY <1>1, LoadedFile DEF Create, InitQueue

LEMMA SendQueues ==
    ASSUME TypeInv, NEW p \in Payloads, SendMessage(p), Refusal(p) = 0
    PROVE  /\ DOMAIN messages' = DOMAIN messages \cup {Len(messages) + 1}
           /\ Len(messages) + 1 \notin DOMAIN messages
           /\ \A i \in DOMAIN messages : messages'[i] = messages[i]
           /\ messages'[Len(messages) + 1] = Queued(p)
           /\ Queued(p).payload = p /\ Queued(p).id = nextId
           /\ Queued(p).status = "pending" /\ IsActive(Queued(p))
           /\ nextId' = nextId + 1 /\ EnqueueResult(p) = nextId
           /\ sending' = [payload |-> p, id |-> nextId]
<1>1. QueueTypeOK /\ Enqueue(p, 0)
  BY TypeInvParts DEF SendMessage, QueueInv
<1>2. /\ DOMAIN messages' = DOMAIN messages \cup {Len(messages) + 1}
      /\ DOMAIN messages = 1..Len(messages) /\ Len(messages) \in Nat
      /\ \A i \in DOMAIN messages : messages'[i] = messages[i]
      /\ messages'[Len(messages) + 1] = Queued(p)
      /\ nextId' = nextId + 1
  BY <1>1, EnqueueAppends
<1>3. EnqueueResult(p) = nextId
  BY DEF EnqueueResult
<1>4. /\ Queued(p).payload = p /\ Queued(p).id = nextId
      /\ Queued(p).status = "pending" /\ IsActive(Queued(p))
  BY DEF Queued, IsActive, Active
<1>5. sending' = [payload |-> p, id |-> nextId]
  BY <1>3 DEF SendMessage
<1>6. Len(messages) + 1 \notin DOMAIN messages
  BY <1>2
<1> QED
  BY <1>2, <1>3, <1>4, <1>5, <1>6

LEMMA PurgedOnes ==
    ASSUME TypeInv, PurgeCompleted
    PROVE  /\ \A k \in DOMAIN messages' :
                 IsActive(messages'[k]) /\ \E i \in DOMAIN messages : messages[i] = messages'[k]
           /\ \A i \in DOMAIN messages :
                 IsActive(messages[i]) => \E k \in DOMAIN messages' : messages'[k] = messages[i]
           /\ OnePayload(messages) => OnePayload(messages')
BY TypeFacts, ReadyOnes DEF PurgeCompleted, OnePayload

LEMMA PayloadStep == TypeInv /\ PayloadInv /\ [Next]_vars => PayloadInv'
<1> SUFFICES ASSUME TypeInv, PayloadInv, [Next]_vars PROVE PayloadInv'
  OBVIOUS
<1>0. /\ OnePayload(messages) /\ OnePayload(disk)
      /\ NotQueued(messages, unsent) /\ NotQueued(disk, unsent)
      /\ nextId > 0 /\ nextId \in Nat
  BY TypeFacts DEF PayloadInv
<1>1. unsent' \subseteq unsent
  BY NextSteps
     DEF Create, Show, Hide, Destroy, Leave, Saved, Crash, OtherCall, messengerVars,
         SendMessage, DirectSend, DirectSendFails, KernelTick, GetReady, Clock, Dispatched,
         DispatchUnavailable, DispatchTaken, DispatchRefused, vars
<1>2. OnePayload(disk') /\ NotQueued(disk', unsent')
  BY <1>0, <1>1, FileChange DEF OnePayload, NotQueued
<1>3. OnePayload(messages') /\ NotQueued(messages', unsent') /\ nextId' > 0
  <2>1. CASE UNCHANGED <<messages, nextId>>
    BY <1>0, <1>1, <2>1 DEF NotQueued
  <2>2. CASE Evolves /\ nextId' = nextId
    BY <1>0, <1>1, <2>2 DEF Evolves, OnePayload, NotQueued
  <2>3. ASSUME NEW p \in Payloads, SendMessage(p), Refusal(p) = 0
        PROVE  OnePayload(messages') /\ NotQueued(messages', unsent') /\ nextId' > 0
    <3>1. p \in unsent /\ unsent' = unsent \ {p}
      BY <2>3 DEF SendMessage
    <3>2. /\ DOMAIN messages' = DOMAIN messages \cup {Len(messages) + 1}
          /\ \A i \in DOMAIN messages : messages'[i].payload = messages[i].payload
          /\ messages'[Len(messages) + 1].payload = p
          /\ nextId' = nextId + 1
      BY <2>3, SendQueues
    <3>3. \A i \in DOMAIN messages : messages[i].payload \notin unsent
      BY <1>0 DEF NotQueued
    <3>4. OnePayload(messages')
      BY <1>0, <3>1, <3>2, <3>3 DEF OnePayload
    <3>5. NotQueued(messages', unsent')
      BY <3>1, <3>2, <3>3 DEF NotQueued
    <3> QED
      BY <1>0, <3>2, <3>4, <3>5
  <2>4. CASE PurgeCompleted /\ nextId' = nextId
    BY <1>0, <1>1, <2>4, PurgedOnes DEF NotQueued
  <2>5. CASE Create /\ ~initialized
    <3>1. messages' = disk /\ nextId' \in Nat /\ nextId <= nextId'
      BY <2>5, CreateLoads
    <3> QED
      BY <1>0, <1>1, <3>1 DEF NotQueued
  <2>6. CASE Crash
    BY <2>6 DEF Crash, QueueLost, OnePayload, NotQueued
  <2> QED
    BY <2>1, <2>2, <2>3, <2>4, <2>5, <2>6, MessagesChange
<1>4. ASSUME ui' = "send"
      PROVE  /\ sending'.payload \notin unsent'
             /\ \A i \in DOMAIN messages' :
                   messages'[i].payload = sending'.payload =>
                       messages'[i].id = sending'.id /\ sending'.id > 0
  <2>1. ASSUME NEW p \in Payloads, SendMessage(p)
        PROVE  /\ sending'.payload \notin unsent'
               /\ \A i \in DOMAIN messages' :
                     messages'[i].payload = sending'.payload =>
                         messages'[i].id = sending'.id /\ sending'.id > 0
    <3>1. p \in unsent /\ unsent' = unsent \ {p} /\ sending'.payload = p
      BY <2>1 DEF SendMessage
    <3>2. \A i \in DOMAIN messages : messages[i].payload # p
      BY <1>0, <3>1 DEF NotQueued
    <3>3. CASE Refusal(p) # 0
      BY <2>1, <3>1, <3>2, <3>3 DEF SendMessage, Enqueue
    <3>4. CASE Refusal(p) = 0
      BY <1>0, <2>1, <3>1, <3>2, <3>4, SendQueues
    <3> QED
      BY <3>1, <3>3, <3>4
  <2>2. CASE Clock \/ UNCHANGED vars
    BY <1>4, <2>2 DEF Clock, vars, queueVars, messengerVars, PayloadInv
  <2> QED
    BY <1>4, <2>1, <2>2, NextSteps
       DEF Create, Show, Hide, Destroy, Leave, Saved, Crash, OtherCall, messengerVars,
           DirectSend, DirectSendFails, KernelTick, GetReady, Dispatched,
           DispatchUnavailable, DispatchTaken, DispatchRefused
<1> QED
  BY <1>2, <1>3, <1>4 DEF PayloadInv

DeliveryInv ==
    TypeInv /\ BatchInv /\ TriesInv /\ PayloadInv /\ AcceptedInv /\ SentOncePerBoot

\* A transport takes a payload: it was not taken before, and is not queued any more.
LEMMA PayloadTaken ==
    ASSUME DeliveryInv, NEW p \in Payloads, NEW id, Takes(p),
           p \notin unsent, accepted[p] = 0, unsent' = unsent,
           MarkSent(id) \/ UNCHANGED queueVars,
           \A i \in DOMAIN messages :
              messages[i].payload = p => messages[i].id = id /\ MarkSent(id)
    PROVE  /\ \A q \in unsent' : accepted'[q] = 0
           /\ \A i \in DOMAIN messages' :
                 IsActive(messages'[i]) => accepted'[messages'[i].payload] = 0
           /\ SentOncePerBoot'
<1>0. TypeInv /\ TaskTypeOK /\ AcceptedInv /\ SentOncePerBoot
  BY TypeInvParts DEF DeliveryInv
<1>1. /\ accepted'[p] = 1
      /\ \A q \in Payloads : q # p => accepted'[q] = accepted[q]
  BY <1>0, TakesTyped
<1>2. \A q \in unsent' : accepted'[q] = 0
  BY <1>0, <1>1, TypeFacts DEF AcceptedInv
<1>3. SentOncePerBoot'
  BY <1>0, <1>1 DEF SentOncePerBoot
<1>4. ASSUME NEW i \in DOMAIN messages', IsActive(messages'[i])
      PROVE  accepted'[messages'[i].payload] = 0
  <2>1. /\ i \in DOMAIN messages /\ IsActive(messages[i])
        /\ messages'[i].payload = messages[i].payload
    BY <1>0, <1>4, TypeFacts, CallsEvolve DEF Evolves, queueVars
  <2>2. messages[i].payload \in Payloads
    BY <1>0, <2>1, TypeFacts, MessagesAt
  <2>3. messages[i].payload # p
    <3> SUFFICES ASSUME messages[i].payload = p PROVE FALSE
      OBVIOUS
    <3>1. messages'[i] = [messages[i] EXCEPT !.status = "sent"]
      BY <2>1 DEF MarkSent
    <3>2. messages[i] \in Message
      BY <1>0, <2>1, TypeFacts, MessagesAt
    <3> QED
      BY <1>4, <3>1, <3>2, SentOne
  <2> QED
    BY <1>0, <1>1, <2>1, <2>2, <2>3 DEF AcceptedInv
<1> QED
  BY <1>2, <1>3, <1>4

LEMMA AcceptedStep ==
    ASSUME DeliveryInv, [Next]_vars
    PROVE  AcceptedInv' /\ SentOncePerBoot'
<1>0. /\ TypeInv /\ BatchInv /\ PayloadInv /\ AcceptedInv /\ SentOncePerBoot
      /\ PayloadInv'
  BY PayloadStep DEF DeliveryInv
<1> DEFINE Untaken ==
        /\ \A q \in unsent' : accepted'[q] = 0
        /\ \A i \in DOMAIN messages' :
              IsActive(messages'[i]) => accepted'[messages'[i].payload] = 0
        /\ SentOncePerBoot'
<1>1. CASE DirectSend
  <2>1. /\ ui = "send" /\ Takes(sending.payload) /\ unsent' = unsent
        /\ sending.id > 0 => MarkSent(sending.id)
        /\ MarkSent(sending.id) \/ UNCHANGED queueVars
    BY <1>1 DEF DirectSend
  <2>2. sending.payload \in Payloads
    BY <1>0, TypeFacts
  <2>3. /\ sending.payload \notin unsent /\ accepted[sending.payload] = 0
        /\ \A i \in DOMAIN messages : messages[i].payload = sending.payload =>
              messages[i].id = sending.id /\ sending.id > 0
    BY <1>0, <2>1 DEF PayloadInv, AcceptedInv
  <2>4. Untaken
    BY <2>1, <2>2, <2>3, PayloadTaken
  <2> QED
    BY <1>1, <2>4 DEF DirectSend, AcceptedInv
<1>2. CASE DispatchTaken
  <2>1. /\ Head(batch) = batch[1] /\ 1 \in DOMAIN batch /\ ui = "dispatch"
        /\ Head(batch).payload \in Payloads /\ ui' # "send" /\ unsent' = unsent
        /\ Takes(Head(batch).payload) /\ MarkSent(Head(batch).id)
    BY <1>0, <1>2, BatchGoesOn DEF DispatchTaken, Dispatched
  <2>2. PICK b \in DOMAIN messages : messages[b] = Head(batch) /\ IsActive(messages[b])
    BY <1>0, <2>1 DEF BatchInv
  <2>3. Head(batch).payload \notin unsent /\ accepted[Head(batch).payload] = 0
    BY <1>0, <2>2 DEF PayloadInv, NotQueued, AcceptedInv
  <2>4. \A i \in DOMAIN messages :
            messages[i].payload = Head(batch).payload => messages[i].id = Head(batch).id
    BY <1>0, <2>2 DEF PayloadInv, OnePayload
  <2>5. Untaken
    BY <2>1, <2>3, <2>4, PayloadTaken
  <2> QED
    BY <2>1, <2>5 DEF AcceptedInv
<1>3. CASE Crash
  BY <1>0, <1>3, TypeFacts DEF Crash, QueueLost, AcceptedInv, SentOncePerBoot
<1>4. CASE UNCHANGED accepted /\ ~Crash
  <2>1. unsent' \subseteq unsent
    BY <1>4, NextSteps
       DEF Create, Show, Hide, Destroy, Leave, Saved, OtherCall, messengerVars,
           SendMessage, DirectSend, DirectSendFails, KernelTick, GetReady, Clock, Dispatched,
           DispatchUnavailable, DispatchTaken, DispatchRefused, vars
  <2>2. ASSUME NEW i \in DOMAIN messages', IsActive(messages'[i])
        PROVE  accepted[messages'[i].payload] = 0
    <3>1. CASE UNCHANGED <<messages, nextId>> \/ (Evolves /\ nextId' = nextId)
      BY <1>0, <2>2, <3>1 DEF Evolves, AcceptedInv
    <3>2. ASSUME NEW p \in Payloads, SendMessage(p), Refusal(p) = 0
          PROVE  accepted[messages'[i].payload] = 0
      <4>1. p \in unsent /\ accepted[p] = 0
        BY <1>0, <3>2 DEF SendMessage, AcceptedInv
      <4>2. CASE i \in DOMAIN messages
        BY <1>0, <2>2, <3>2, <4>2, SendQueues DEF AcceptedInv
      <4>3. CASE i \notin DOMAIN messages
        BY <1>0, <2>2, <3>2, <4>1, <4>3, SendQueues
      <4> QED
        BY <4>2, <4>3
    <3>3. CASE PurgeCompleted
      BY <1>0, <2>2, <3>3, PurgedOnes DEF AcceptedInv
    <3>4. CASE Create /\ ~initialized
      <4>1. messages' = disk /\ \A p \in Payloads : accepted[p] = 0
        BY <1>0, <3>4, CreateLoads
      <4>2. messages'[i].payload \in Payloads
        BY <1>0, <2>2, <4>1, TypeFacts, MessagesAt
      <4> QED
        BY <4>1, <4>2
    <3> QED
      BY <1>0, <1>4, <3>1, <3>2, <3>3, <3>4, MessagesChange
  <2>3. ASSUME ui' = "send" PROVE accepted[sending'.payload] = 0
    <3>1. ASSUME NEW p \in Payloads, SendMessage(p) PROVE accepted[sending'.payload] = 0
      BY <1>0, <3>1 DEF SendMessage, AcceptedInv
    <3>2. CASE Clock \/ UNCHANGED vars
      BY <1>0, <2>3, <3>2 DEF Clock, vars, messengerVars, AcceptedInv
    <3> QED
      BY <1>4, <2>3, <3>1, <3>2, NextSteps
         DEF Create, Show, Hide, Destroy, Leave, Saved, OtherCall, messengerVars,
             DirectSend, DirectSendFails, KernelTick, GetReady, Dispatched,
             DispatchUnavailable, DispatchTaken, DispatchRefused
  <2> QED
    BY <1>0, <1>4, <2>1, <2>2, <2>3 DEF AcceptedInv, SentOncePerBoot
<1> QED
  BY <1>1, <1>2, <1>3, <1>4, NextSteps
     DEF Create, Show, Hide, Destroy, Leave, Saved, OtherCall, messengerVars,
         SendMessage, DirectSendFails, KernelTick, GetReady, Clock,
         DispatchUnavailable, DispatchRefused, vars

LEMMA DeliveryInit == Init => DeliveryInv
<1> SUFFICES ASSUME Init PROVE DeliveryInv
  OBVIOUS
<1>1. TypeInv
  BY TypeInit
<1>2. messages = <<>> /\ disk = <<>> /\ nextId = 1 /\ ui = "idle"
  BY DEF Init, QueueInit
<1>3. \A p \in Payloads : accepted[p] = 0
  BY DEF Init
<1>4. unsent = Payloads
  BY DEF Init
<1> QED
  BY <1>1, <1>2, <1>3, <1>4
     DEF DeliveryInv, BatchInv, TriesInv, Tried, PayloadInv, OnePayload, NotQueued, AcceptedInv,
         SentOncePerBoot

LEMMA DeliveryStep == DeliveryInv /\ [Next]_vars => DeliveryInv'
BY TypeStep, BatchStep, TriesStep, PayloadStep, AcceptedStep DEF DeliveryInv

LEMMA DeliveryInvariant == Spec => []DeliveryInv
BY DeliveryInit, DeliveryStep, PTL DEF Spec

\* No transport takes a message twice between two restarts, and no message is tried more
\* often than its max_retries: neither needs anything of the error codes.
THEOREM NothingIsSentTwice == Spec => [](SentOncePerBoot /\ TriesAreBounded)
<1>1. DeliveryInv => SentOncePerBoot /\ TriesAreBounded
  BY DEF DeliveryInv, TriesInv, Tried, TriesAreBounded
<1> QED
  BY <1>1, DeliveryInvariant, PTL

-----------------------------------------------------------------------------
(* What counts as sent: the error codes of enqueue must be no ids          *)

SentInv == IdsInv /\ TakenInv

LEMMA GivenCount ==
    ASSUME CodesAreNoIds, unsent \subseteq Payloads
    PROVE  /\ Given \in Nat /\ Given <= Cardinality(Payloads)
           /\ Cardinality(Payloads) \in Nat /\ IsFiniteSet(Payloads \ unsent)
<1>1. IsFiniteSet(Payloads) /\ Payloads \ unsent \in SUBSET Payloads
  BY DEF CodesAreNoIds
<1>2. IsFiniteSet(Payloads \ unsent) /\ Cardinality(Payloads \ unsent) <= Cardinality(Payloads)
  BY <1>1, FS_Subset
<1> QED
  BY <1>1, <1>2, FS_CardinalityType DEF Given

LEMMA GivenOneMore ==
    ASSUME CodesAreNoIds, unsent \subseteq Payloads,
           NEW p \in unsent, unsent' = unsent \ {p}
    PROVE  Given' = Given + 1
<1>1. IsFiniteSet(Payloads \ unsent)
  BY GivenCount
<1>2. Payloads \ unsent' = (Payloads \ unsent) \cup {p} /\ p \notin Payloads \ unsent
  OBVIOUS
<1>3. Cardinality((Payloads \ unsent) \cup {p}) = Cardinality(Payloads \ unsent) + 1
  BY <1>1, <1>2, FS_AddElement
<1> QED
  BY <1>2, <1>3 DEF Given

LEMMA UnsentChange ==
    ASSUME TypeInv, [Next]_vars
    PROVE  UNCHANGED unsent \/ \E p \in unsent : SendMessage(p) /\ unsent' = unsent \ {p}
BY NextSteps
   DEF Create, Show, Hide, Destroy, Leave, Saved, Crash, OtherCall, messengerVars,
       SendMessage, DirectSend, DirectSendFails, KernelTick, GetReady, Clock, Dispatched,
       DispatchUnavailable, DispatchTaken, DispatchRefused, vars

LEMMA IdsStep ==
    ASSUME CodesAreNoIds, DeliveryInv, IdsInv, [Next]_vars
    PROVE  IdsInv'
<1>0. TypeInv /\ PayloadInv /\ TaskTypeOK /\ unsent \subseteq Payloads
  BY TypeInvParts, TypeFacts DEF DeliveryInv
<1>a. Given \in Nat /\ Given <= Cardinality(Payloads) /\ Cardinality(Payloads) \in Nat
  BY <1>0, GivenCount
<1>b. /\ nextId <= Given + 1 /\ nextId \in Nat
      /\ \A i \in DOMAIN disk : disk[i].id <= Given /\ disk[i].id \in Nat
      /\ \A i \in DOMAIN messages : messages[i].id <= Given /\ messages[i].id \in Nat
  <2>1. /\ \A i \in DOMAIN disk : disk[i].id \in Nat
        /\ \A i \in DOMAIN messages : messages[i].id \in Nat /\ messages[i].id < nextId
        /\ nextId \in Nat
    BY <1>0, TypeFacts, MessagesAt
  <2>2. nextId <= Given + 1 /\ \A i \in DOMAIN disk : disk[i].id <= Given
    BY DEF IdsInv
  <2> QED
    BY <1>a, <2>1, <2>2
<1>1. Given' \in Nat /\ Given <= Given'
  <2>1. CASE UNCHANGED unsent
    BY <1>a, <2>1 DEF Given
  <2>2. CASE \E p \in unsent : unsent' = unsent \ {p}
    BY <1>0, <1>a, <2>2, GivenOneMore
  <2> QED
    BY <1>0, <2>1, <2>2, UnsentChange
<1>2. \A i \in DOMAIN disk' : disk'[i].id <= Given'
  <2>1. \A i \in DOMAIN disk' : disk'[i].id \in Nat /\ disk'[i].id <= Given
    BY <1>b, FileChange
  <2> QED
    BY <1>a, <1>1, <2>1
<1>3. nextId' <= Given' + 1
  <2>1. CASE UNCHANGED nextId
    BY <1>a, <1>b, <1>1, <2>1
  <2>2. ASSUME NEW p \in Payloads, SendMessage(p), Refusal(p) = 0 PROVE nextId' <= Given' + 1
    <3>1. Given' = Given + 1
      BY <1>0, <2>2, GivenOneMore DEF SendMessage
    <3>2. nextId' = nextId + 1
      BY <1>0, <2>2, SendQueues
    <3> QED
      BY <1>a, <1>b, <3>1, <3>2
  <2>3. CASE Create /\ ~initialized
    <3>1. nextId' = nextId \/ \E i \in DOMAIN disk : nextId' = disk[i].id + 1
      BY <1>0, <2>3, CreateLoads
    <3> QED
      BY <1>a, <1>b, <1>1, <3>1
  <2>4. CASE Crash
    <3>1. nextId' = 1
      BY <2>4 DEF Crash, QueueLost
    <3>2. \A n \in Nat : 1 <= n + 1
      OBVIOUS
    <3> QED
      BY <1>1, <3>1, <3>2
  <2> QED
    BY <1>0, <2>1, <2>2, <2>3, <2>4, MessagesChange
<1>4. ASSUME ui' = "send"
      PROVE  \A i \in DOMAIN messages' : messages'[i].id = sending'.id =>
                messages'[i].payload = sending'.payload /\ IsActive(messages'[i])
  <2>1. ASSUME NEW p \in Payloads, SendMessage(p), Refusal(p) = 0
        PROVE  \A i \in DOMAIN messages' : messages'[i].id = sending'.id =>
                  messages'[i].payload = sending'.payload /\ IsActive(messages'[i])
    <3>1. \A i \in DOMAIN messages : messages[i].id # nextId
      BY <1>0, <1>b, TypeFacts
    <3> QED
      BY <1>0, <2>1, <3>1, SendQueues
  <2>2. ASSUME NEW p \in Payloads, SendMessage(p), Refusal(p) # 0
        PROVE  \A i \in DOMAIN messages' : messages'[i].id # sending'.id
    <3>1. messages' = messages /\ sending'.id = Refusal(p)
      BY <2>2 DEF SendMessage, Enqueue, EnqueueResult
    <3>2. Refusal(p) \in {NoMem, InvalidArg}
      BY <2>2 DEF Refusal
    <3>3. NoMem > Given /\ InvalidArg > Given
      BY <1>a, QueueAssumption DEF CodesAreNoIds
    <3> QED
      BY <1>a, <1>b, <3>1, <3>2, <3>3, QueueAssumption
  <2>3. CASE Clock \/ UNCHANGED vars
    BY <1>4, <2>3 DEF Clock, vars, queueVars, messengerVars, IdsInv
  <2> QED
    BY <1>4, <2>1, <2>2, <2>3, NextSteps
       DEF Create, Show, Hide, Destroy, Leave, Saved, Crash, OtherCall, messengerVars,
           DirectSend, DirectSendFails, KernelTick, GetReady, Dispatched,
           DispatchUnavailable, DispatchTaken, DispatchRefused
<1> QED
  BY <1>2, <1>3, <1>4 DEF IdsInv

\* A message that is taken out of the queue is marked, and only that message.
LEMMA MarkedOne ==
    ASSUME DeliveryInv, IdsInv,
           NEW p \in Payloads, NEW id, Takes(p), MarkSent(id) \/ UNCHANGED queueVars,
           \A i \in DOMAIN messages :
              messages[i].id = id => messages[i].payload = p
    PROVE  \A i \in DOMAIN messages' :
              /\ i \in DOMAIN messages /\ messages'[i].payload = messages[i].payload
              /\ messages'[i].status = "sent" =>
                    messages[i].status = "sent" \/ messages[i].payload = p
<1>1. TypeInv
  BY DEF DeliveryInv
<1>2. \A i \in DOMAIN messages : messages[i] \in Message
  BY <1>1, TypeFacts, MessagesAt
<1> QED
  BY <1>2, SentOne DEF MarkSent, queueVars

LEMMA TakenStep ==
    ASSUME DeliveryInv, IdsInv, TakenInv, [Next]_vars
    PROVE  TakenInv'
<1>0. TypeInv /\ BatchInv /\ PayloadInv
  BY DEF DeliveryInv
<1>a. /\ \A i \in DOMAIN messages : messages[i].status = "sent" => messages[i].payload \in taken
      /\ \A i \in DOMAIN disk : disk[i].status = "sent" => disk[i].payload \in taken
      /\ messages \in Seq(Message) /\ now \in Nat
      /\ \A i \in DOMAIN messages : messages[i] \in Message
  BY <1>0, TypeFacts, MessagesAt DEF TakenInv, SentMeansTaken
<1>1. taken \subseteq taken'
  BY NextSteps
     DEF Create, Show, Hide, Destroy, Leave, Saved, Crash, OtherCall, messengerVars,
         SendMessage, DirectSend, DirectSendFails, KernelTick, GetReady, Clock, Takes,
         DispatchUnavailable, DispatchTaken, DispatchRefused, vars
<1>2. \A i \in DOMAIN disk' : disk'[i].status = "sent" => disk'[i].payload \in taken'
  BY <1>a, <1>1, FileChange
<1>3. ASSUME NEW p \in Payloads, NEW id \in Nat,
             Takes(p) /\ (MarkSent(id) \/ UNCHANGED queueVars),
             \A i \in DOMAIN messages : messages[i].id = id => messages[i].payload = p
      PROVE  SentMeansTaken'
  <2>1. taken' = taken \cup {p}
    BY <1>3 DEF Takes
  <2> QED
    <3> SUFFICES ASSUME NEW i \in DOMAIN messages', messages'[i].status = "sent"
                 PROVE  messages'[i].payload \in taken'
      BY DEF SentMeansTaken
    <3>1. /\ i \in DOMAIN messages /\ messages'[i].payload = messages[i].payload
          /\ messages[i].status = "sent" \/ messages[i].payload = p
      BY <1>3, MarkedOne
    <3> QED
      BY <1>a, <2>1, <3>1
<1>4. ASSUME DirectSend PROVE SentMeansTaken'
  <2>1. /\ ui = "send" /\ Takes(sending.payload) /\ sending.payload \in Payloads
        /\ sending.id \in Nat
        /\ MarkSent(sending.id) \/ UNCHANGED queueVars
    BY <1>0, <1>4, TypeFacts DEF DirectSend
  <2>2. \A i \in DOMAIN messages :
            messages[i].id = sending.id => messages[i].payload = sending.payload
    BY <2>1 DEF IdsInv
  <2> QED
    BY <1>3, <2>1, <2>2
<1>5. ASSUME DispatchTaken PROVE SentMeansTaken'
  <2>1. /\ Head(batch) = batch[1] /\ 1 \in DOMAIN batch /\ ui = "dispatch"
        /\ Head(batch).payload \in Payloads /\ Head(batch) \in Message
        /\ Takes(Head(batch).payload) /\ MarkSent(Head(batch).id)
    BY <1>0, <1>5, BatchGoesOn DEF DispatchTaken, Dispatched
  <2>2. PICK b \in DOMAIN messages : messages[b] = Head(batch)
    BY <1>0, <2>1 DEF BatchInv
  <2>3. \A i \in DOMAIN messages :
            messages[i].id = Head(batch).id => messages[i].payload = Head(batch).payload
    BY <1>0, <2>2, TypeFacts
  <2>4. Head(batch).id \in Nat
    BY <2>1 DEF Message
  <2> QED
    BY <1>3, <2>1, <2>3, <2>4
<1>6. ASSUME UNCHANGED messages PROVE SentMeansTaken'
  BY <1>a, <1>1, <1>6 DEF SentMeansTaken
<1>7. ASSUME NEW p \in Payloads, SendMessage(p), Refusal(p) = 0 PROVE SentMeansTaken'
  BY <1>0, <1>a, <1>1, <1>7, SendQueues DEF SentMeansTaken
<1>8. ASSUME PurgeCompleted PROVE SentMeansTaken'
  BY <1>0, <1>a, <1>1, <1>8, PurgedOnes DEF SentMeansTaken
<1>9. ASSUME Create PROVE SentMeansTaken'
  <2>1. CASE initialized
    BY <1>6, <1>9, <2>1 DEF Create, InitQueue
  <2>2. CASE ~initialized
    <3>1. messages' = disk
      BY <1>0, <1>9, <2>2, CreateLoads
    <3> QED
      BY <1>a, <1>1, <3>1 DEF SentMeansTaken
  <2> QED
    BY <2>1, <2>2
<1>10. ASSUME Crash PROVE SentMeansTaken'
  BY <1>10 DEF Crash, QueueLost, SentMeansTaken
<1>11. ASSUME DOMAIN messages' = DOMAIN messages,
              \A i \in DOMAIN messages :
                  /\ messages'[i].payload = messages[i].payload
                  /\ messages'[i].status = "sent" => messages[i].status = "sent"
       PROVE  SentMeansTaken'
  BY <1>a, <1>1, <1>11 DEF SentMeansTaken
<1>12. ASSUME NEW id, Cancel(id) PROVE SentMeansTaken'
  BY <1>a, <1>11, <1>12, CancelledOne DEF Cancel
<1>13. ASSUME CancelAll PROVE SentMeansTaken'
  BY <1>a, <1>11, <1>13, CancelledOne DEF CancelAll
<1>14. ASSUME KernelTick PROVE SentMeansTaken'
  BY <1>a, <1>11, <1>14, TickedOne DEF KernelTick, Tick
<1>15. ASSUME DispatchRefused PROVE SentMeansTaken'
  BY <1>a, <1>11, <1>15, FailedOne DEF DispatchRefused, MarkFailed
<1>16. SentMeansTaken'
  <2>1. ASSUME NEW p \in Payloads, SendMessage(p) PROVE SentMeansTaken'
    BY <1>6, <1>7, <2>1 DEF SendMessage, Enqueue
  <2>2. ASSUME OtherCall PROVE SentMeansTaken'
    BY <1>6, <1>8, <1>12, <1>13, <2>2 DEF OtherCall, SetDefaults
  <2>3. Show \/ Hide \/ Destroy \/ Saved \/ DirectSendFails \/ GetReady \/ Clock
            \/ DispatchUnavailable \/ UNCHANGED vars => UNCHANGED messages
    BY DEF Show, Hide, Destroy, Leave, Saved, DirectSendFails, GetReady, Clock,
           DispatchUnavailable, vars, queueVars, SaveBegins, SaveEnds
  <2> QED
    BY <1>4, <1>5, <1>6, <1>9, <1>10, <1>14, <1>15, <2>1, <2>2, <2>3, NextSteps
<1> QED
  BY <1>2, <1>16 DEF TakenInv

LEMMA SentInit == CodesAreNoIds /\ Init => IdsInv /\ TakenInv
<1> SUFFICES ASSUME CodesAreNoIds, Init PROVE IdsInv /\ TakenInv
  OBVIOUS
<1>1. messages = <<>> /\ disk = <<>> /\ nextId = 1 /\ ui = "idle" /\ unsent = Payloads
  BY DEF Init, QueueInit
<1>2. Given \in Nat
  BY <1>1, GivenCount
<1>3. \A n \in Nat : 1 <= n + 1
  OBVIOUS
<1> QED
  BY <1>1, <1>2, <1>3 DEF IdsInv, TakenInv, SentMeansTaken

LEMMA SentStep ==
    ASSUME CodesAreNoIds
    PROVE  DeliveryInv /\ SentInv /\ [Next]_vars => SentInv'
BY IdsStep, TakenStep DEF SentInv

\* As long as no id can be mistaken for an error code of enqueue, a message counts as sent
\* only if a transport took it, is taken once between two restarts and is tried no more
\* often than it may be (send_message, kernel_tick_cb).
THEOREM DeliveryBounded ==
    ASSUME CodesAreNoIds
    PROVE  Spec => []DeliveryIsBounded
<1>1. DeliveryInv /\ SentInv /\ [Next]_vars => SentInv'
  BY SentStep
<1>2. Init => SentInv
  BY SentInit DEF SentInv
<1>3. DeliveryInv /\ SentInv => DeliveryIsBounded
  BY DEF DeliveryInv, TriesInv, Tried, TriesAreBounded, SentInv, TakenInv, DeliveryIsBounded
<1> QED
  BY <1>1, <1>2, <1>3, DeliveryInvariant, PTL DEF Spec

LEMMA OverStep ==
    ASSUME DeliveryInv, IdsInv, [Next]_vars, crashes' = crashes,
           NEW i \in DOMAIN messages
    PROVE  LET later == {j \in DOMAIN messages' : messages'[j].id = messages[i].id} IN
           IF IsActive(messages[i]) THEN later # {}
           ELSE \A j \in later : messages'[j].status = messages[i].status
<1> DEFINE Stays ==
        /\ IsActive(messages[i]) =>
              \E j \in DOMAIN messages' : messages'[j].id = messages[i].id
        /\ ~IsActive(messages[i]) =>
              \A j \in DOMAIN messages' : messages'[j].id = messages[i].id =>
                    messages'[j].status = messages[i].status
<1> SUFFICES Stays
  OBVIOUS
<1>0. TypeInv /\ BatchInv
  BY DEF DeliveryInv
<1>a. /\ messages \in Seq(Message) /\ now \in Nat
      /\ \A k, j \in DOMAIN messages : messages[k].id = messages[j].id => k = j
      /\ \A k \in DOMAIN messages : messages[k] \in Message /\ messages[k].id < nextId
      /\ \A k \in DOMAIN messages : messages[k].id \in Nat
      /\ nextId \in Nat
  BY <1>0, TypeFacts, MessagesAt
\* The messages evolve, and this one only if it is active.
<1>1. ASSUME Evolves, ~IsActive(messages[i]) => messages'[i].status = messages[i].status
      PROVE  Stays
  BY <1>1, <1>a DEF Evolves
<1>2. ASSUME NEW id, Cancel(id) PROVE Stays
  <2>1. Evolves
    BY <1>2, <1>a, CallsEvolve
  <2>2. ~IsActive(messages[i]) => messages'[i] = messages[i]
    BY <1>2 DEF Cancel, Cancelled
  <2> QED
    BY <1>1, <2>1, <2>2
<1>3. ASSUME CancelAll PROVE Stays
  <2>1. Evolves /\ (~IsActive(messages[i]) => messages'[i] = messages[i])
    BY <1>3, <1>a, CallsEvolve, CancelledOne DEF CancelAll
  <2> QED
    BY <1>1, <2>1
<1>4. ASSUME KernelTick PROVE Stays
  <2>1. Evolves /\ (~IsActive(messages[i]) => messages'[i] = messages[i])
    BY <1>4, <1>a, CallsEvolve, TickedOne DEF KernelTick, Tick
  <2> QED
    BY <1>1, <2>1
<1>5. ASSUME DispatchRefused PROVE Stays
  <2>1. Evolves
    BY <1>5, <1>a, CallsEvolve DEF DispatchRefused
  <2>2. ~IsActive(messages[i]) => messages'[i] = messages[i]
    BY <1>5 DEF DispatchRefused, MarkFailed, Failed
  <2> QED
    BY <1>1, <2>1, <2>2
<1>6. ASSUME NEW id, MarkSent(id), messages[i].id = id => IsActive(messages[i]) PROVE Stays
  <2>1. Evolves /\ (~IsActive(messages[i]) => messages'[i] = messages[i])
    BY <1>6, <1>a, CallsEvolve DEF MarkSent
  <2> QED
    BY <1>1, <2>1
<1>7. ASSUME UNCHANGED messages PROVE Stays
  BY <1>7, <1>a
<1>8. ASSUME DirectSend PROVE Stays
  <2>1. messages[i].id = sending.id => IsActive(messages[i])
    BY <1>8 DEF DirectSend, IdsInv
  <2> QED
    BY <1>6, <1>7, <1>8, <2>1 DEF DirectSend, queueVars
<1>9. ASSUME DispatchTaken PROVE Stays
  <2>1. /\ Head(batch) = batch[1] /\ 1 \in DOMAIN batch /\ ui = "dispatch"
    BY <1>0, <1>9, BatchGoesOn DEF DispatchTaken, Dispatched
  <2>2. PICK b \in DOMAIN messages : messages[b] = Head(batch) /\ IsActive(messages[b])
    BY <1>0, <2>1 DEF BatchInv
  <2>3. messages[i].id = Head(batch).id => IsActive(messages[i])
    BY <1>a, <2>2
  <2> QED
    BY <1>6, <1>9, <2>3 DEF DispatchTaken
<1>10. ASSUME NEW p \in Payloads, SendMessage(p) PROVE Stays
  <2>1. CASE Refusal(p) # 0
    BY <1>7, <1>10, <2>1 DEF SendMessage, Enqueue
  <2>2. CASE Refusal(p) = 0
    <3>1. /\ DOMAIN messages' = DOMAIN messages \cup {Len(messages) + 1}
          /\ \A k \in DOMAIN messages : messages'[k] = messages[k]
          /\ messages'[Len(messages) + 1].id = nextId
      BY <1>0, <1>10, <2>2, SendQueues
    <3>2. messages[i].id # nextId
      BY <1>a
    <3> QED
      BY <1>a, <3>1, <3>2
  <2> QED
    BY <2>1, <2>2
<1>11. ASSUME PurgeCompleted PROVE Stays
  <2>1. ASSUME ~IsActive(messages[i]), NEW j \in DOMAIN messages', messages'[j].id = messages[i].id
        PROVE  FALSE
    <3>1. PICK k \in DOMAIN messages : messages[k] = messages'[j] /\ IsActive(messages[k])
      BY <1>0, <1>11, PurgedOnes
    <3> QED
      BY <1>a, <2>1, <3>1
  <2> QED
    BY <1>0, <1>11, <2>1, PurgedOnes
<1>12. ASSUME Create PROVE Stays
  <2>1. CASE initialized
    BY <1>7, <1>12, <2>1 DEF Create, InitQueue
  <2>2. CASE ~initialized
    BY <1>0, <1>12, <2>2, CreateLoads
  <2> QED
    BY <2>1, <2>2
<1>13. ~Crash
  <2>1. crashes \in 0..MaxCrashes
    BY <1>0, TypeInvParts DEF TaskTypeOK
  <2> QED
    BY <2>1, MessengerAssumption DEF Crash
<1> HIDE DEF Stays
<1> QED
  BY <1>2, <1>3, <1>4, <1>5, <1>7, <1>8, <1>9, <1>10, <1>11, <1>12, <1>13, NextSteps
     DEF Show, Hide, Destroy, Leave, Saved, OtherCall, DirectSendFails, GetReady, Clock,
         DispatchUnavailable, vars, queueVars, SaveBegins, SaveEnds, SetDefaults

\* Under the same assumption a message that is over stays what it is until it is purged,
\* and none that is active leaves the queue, restarts aside (mark_sent, purge_completed).
THEOREM OverStaysOver ==
    ASSUME CodesAreNoIds
    PROVE  Spec => OverIsOver
<1>1. DeliveryInv /\ SentInv /\ [Next]_vars => SentInv'
  BY SentStep
<1>2. Init => SentInv
  BY SentInit DEF SentInv
<1>3. DeliveryInv /\ SentInv /\ [Next]_vars =>
        [crashes' = crashes =>
          \A i \in DOMAIN messages :
              LET later == {j \in DOMAIN messages' : messages'[j].id = messages[i].id} IN
              IF IsActive(messages[i]) THEN later # {}
              ELSE \A j \in later : messages'[j].status = messages[i].status]_vars
  BY OverStep DEF SentInv
<1> QED
  BY <1>1, <1>2, <1>3, DeliveryInvariant, PTL DEF Spec, OverIsOver
=============================================================================
