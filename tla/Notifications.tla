--------------------------- MODULE Notifications ---------------------------
(***************************************************************************)
(* The list of notifications of src/components/kernel_rs/src/notification.rs: *)
(* posting with eviction, expiry, reading and dismissal.  Texts are left   *)
(* out; of the categories only whether it is progress matters.             *)
(***************************************************************************)
EXTENDS Integers, Sequences, FiniteSets, SequencesExt, FiniteSetsExt

CONSTANTS
    Sources,   \* app ids
    Capacity,  \* max_capacity of the manager
    MaxPosts,  \* bound on the notifications ever posted
    MaxNow     \* bound on the times of expiry

VARIABLES
    list,   \* Vec of notifications
    nextId  \* the id the next notification gets

vars == <<list, nextId>>

Priorities == 0 .. 3  \* Low, Normal, High, Urgent
Never == MaxNow + 1

Notification ==
    [id : 1 .. MaxPosts, app : Sources, priority : Priorities, progress : -1 .. 100,
     expires : 1 .. Never, read : BOOLEAN, dismissed : BOOLEAN]

Ids == {list[i].id : i \in DOMAIN list}

\* The list holds at most what it may (and one if that is 0), in the order of posting.
TypeOK ==
    /\ ToSet(list) \subseteq Notification
    /\ Len(list) <= Max({1, Capacity})
    /\ nextId \in 1 .. MaxPosts + 1
    /\ \A i, j \in DOMAIN list : i < j => list[i].id < list[j].id /\ list[j].id < nextId

Init == list = <<>> /\ nextId = 1

Candidates(dismissed, priority) ==
    {i \in DOMAIN list : list[i].dismissed = dismissed /\ list[i].priority = priority}

\* (mutant: active ones of any low priority go before dismissed urgent ones)
EvictedMutant ==
    LET classes == <<Candidates(TRUE, 0), Candidates(TRUE, 1), Candidates(FALSE, 0),
                     Candidates(TRUE, 2), Candidates(TRUE, 3), DOMAIN list>>
    IN  CHOOSE i \in DOMAIN list :
            \E k \in DOMAIN classes :
                /\ \A j \in 1 .. k - 1 : classes[j] = {}
                /\ classes[k] # {} /\ i = Min(classes[k])

\* evict_if_needed: the index that goes when the list is full.
Evicted ==
    LET classes == <<Candidates(TRUE, 0), Candidates(TRUE, 1), Candidates(TRUE, 2),
                     Candidates(TRUE, 3), Candidates(FALSE, 0), DOMAIN list>>
    IN  CHOOSE i \in DOMAIN list :
            \E k \in DOMAIN classes :
                /\ \A j \in 1 .. k - 1 : classes[j] = {}
                /\ classes[k] # {} /\ i = Min(classes[k])

Kept == IF Len(list) < Capacity \/ list = <<>> THEN list ELSE RemoveAt(list, Evicted)

\* post, post_with_expiry and post_progress
Post(app, priority, progress, expires) ==
    /\ nextId <= MaxPosts
    /\ list' = Append(Kept, [id |-> nextId, app |-> app, priority |-> priority,
                             progress |-> progress, expires |-> expires,
                             read |-> FALSE, dismissed |-> FALSE])
    /\ nextId' = nextId + 1

Change(selected(_), changed(_)) ==
    /\ \E n \in ToSet(list) : selected(n) /\ changed(n) # n
    /\ list' = [i \in DOMAIN list |-> IF selected(list[i]) THEN changed(list[i]) ELSE list[i]]
    /\ UNCHANGED nextId

Dismissed(n) == [n EXCEPT !.dismissed = TRUE]
Anything(n) == TRUE

UpdateProgress(id, p) ==
    LET IsProgress(n) == n.id = id /\ n.progress # -1
        Progressed(n) == [n EXCEPT !.progress = Min({p, 100})]
    IN  Change(IsProgress, Progressed)

MarkRead(id) ==
    LET IsIt(n) == n.id = id
        Read(n) == [n EXCEPT !.read = TRUE]
    IN  Change(IsIt, Read)

Dismiss(id) == LET IsIt(n) == n.id = id IN Change(IsIt, Dismissed)

DismissAllFromApp(app) == LET IsOf(n) == n.app = app IN Change(IsOf, Dismissed)

ExpireOld(now) == LET IsOver(n) == now >= n.expires IN Change(IsOver, Dismissed)

ClearAll == Change(Anything, Dismissed)

\* The list the window manager shows: active ones, the most urgent first; equal ones
\* stay in the order of posting, since every timestamp is 0.
ActiveNotifications ==
    LET active == SelectSeq(list, LAMBDA n : ~n.dismissed)
    IN  FoldLeft(LAMBDA s, p : s \o SelectSeq(active, LAMBDA n : n.priority = p), <<>>, <<3, 2, 1, 0>>)

Unread == {n \in ToSet(list) : ~n.read /\ ~n.dismissed}
NextUrgent == {n \in Unread : n.priority = 3}

\* The exported functions.
Next ==
    \/ \E a \in Sources, p \in Priorities : Post(a, p, -1, Never)
    \/ \E a \in Sources, p \in {1, 3}, t \in 1 .. MaxNow : Post(a, p, -1, t)
    \/ \E a \in Sources : Post(a, 1, 0, Never) \/ DismissAllFromApp(a)
    \/ \E id \in Ids : UpdateProgress(id, 200) \/ MarkRead(id) \/ Dismiss(id)
    \/ \E t \in 1 .. MaxNow : ExpireOld(t)
    \/ ClearAll

Spec == Init /\ [][Next]_vars

-----------------------------------------------------------------------------

\* A notification leaves the list only if it was wanted less than all that stay: no
\* active one goes while a dismissed one stays, no dismissed one before one of lower
\* priority, and the older of two equals goes (evict_if_needed).
LeastWantedGoes ==
    [][\A gone, stays \in ToSet(list) :
        gone.id \notin Ids' /\ stays.id \in Ids' =>
            /\ stays.dismissed => gone.dismissed /\ gone.priority <= stays.priority
            /\ gone.dismissed = stays.dismissed /\ gone.priority = stays.priority =>
                   gone.id < stays.id]_vars

\* What is shown is what is active, each once, and never one below a less urgent one.
ShownInOrder ==
    LET shown == ActiveNotifications
    IN  /\ ToSet(shown) = {n \in ToSet(list) : ~n.dismissed} /\ IsInjective(shown)
        /\ \A i, j \in DOMAIN shown : i < j => shown[i].priority >= shown[j].priority
=============================================================================
