----------------------------- MODULE MeshChat -----------------------------
(***************************************************************************)
(* The inbox of the mesh (src/components/kernel_rs/src/mesh_manager.rs), a *)
(* ring that forgets its oldest message, the chat over it (tk_meshchat.rs) *)
(* and the shim to MeshCore below it (meshcore_shim.cpp), which hears      *)
(* peers and messages.  The chat's functions exclude each other.  An app   *)
(* may call those of the mesh at any time, and the mesh gives its lock up  *)
(* between the steps of a start, of a stop, and of every look of the chat  *)
(* at the inbox.  A message is known by its number.                        *)
(***************************************************************************)
EXTENDS Integers, Sequences, FiniteSets, SequencesExt, FiniteSetsExt

CONSTANTS
    Peers,        \* other nodes
    InboxSize,    \* places of the ring, INBOX_SIZE
    MaxWidgets,   \* lines of the chat, MAX_CHAT_WIDGETS
    MaxMessages   \* bound on the messages that come in or go out

VARIABLES
    meshUp,    \* initialized of the manager
    ring,      \* the places of the inbox
    head,      \* the oldest of them
    count,     \* how many are in use
    core,      \* s_mesh: "none", "deaf" without a message callback, or "hearing"
    heard,     \* its contacts, in order
    at,        \* what the chat and the app do next in the call they are in
    screen,    \* "off", "empty", "contacts" or "chat"
    lines,     \* lines of the list of peers, contact_count
    listedFor, \* the number of contacts it was made for, last_contact_count
    peer,      \* the peer of the chat, "none" before the first
    shown,     \* the lines of the chat
    work,      \* of an update or a move: contacts found, messages counted, the next of them
    last,      \* number of the last message
    raced      \* those that came, or that one that came moved, during the move to the chat

inbox == <<meshUp, ring, head, count>>
shim == <<core, heard>>
list == <<lines, listedFor>>
chat == <<screen, list, peer, shown>>
history == <<last, raced>>
vars == <<inbox, shim, at, chat, work, history>>

Places == 0 .. InboxSize - 1
Numbers == 1 .. MaxMessages
Message == [from : Peers, n : Numbers]
Own == [from : {"me"}, n : 0 .. 2]
NoMessage == [from |-> "none", n |-> 0]
Starting == {"register", "start", "undo"}
Stopping == {"delete", "sweep"}
Moving == {"get", "clear"}
NoWork == [found |-> 0, count |-> 0, next |-> 0]

TypeOK ==
    /\ meshUp \in BOOLEAN /\ \A p \in Places : ring[p] \in Message \cup {NoMessage}
    /\ head \in Places /\ count \in 0 .. InboxSize
    /\ core \in {"none", "deaf", "hearing"} /\ heard \in Seq(Peers)
    /\ at.app \in {"idle"} \cup Starting \cup Stopping
    /\ at.chat \in {"idle", "list", "look"} \cup Starting \cup Stopping \cup Moving
    /\ lines \in 0 .. Cardinality(Peers) /\ listedFor \in -1 .. Cardinality(Peers)
    /\ screen \in {"off", "empty", "contacts", "chat"} /\ peer \in Peers \cup {"none"}
    /\ shown \in Seq(Message \cup Own) /\ Len(shown) <= MaxWidgets
    /\ work.found \in -1 .. Cardinality(Peers) /\ work.next \in 0 .. work.count + 1
    /\ last \in 0 .. MaxMessages
    /\ raced \subseteq Numbers

Init ==
    /\ meshUp = FALSE /\ ring = [p \in Places |-> NoMessage] /\ head = 0 /\ count = 0
    /\ core = "none" /\ heard = <<>>
    /\ at = [app |-> "idle", chat |-> "idle"]
    /\ screen = "off" /\ lines = 0 /\ listedFor = -1 /\ peer = "none" /\ shown = <<>>
    /\ work = NoWork
    /\ last = 0 /\ raced = {}

\* inbox_get for every place in use
Inbox == [i \in 1 .. count |-> ring[(head + i - 1) % InboxSize]]
Goes(t, from, to) == at[t] = from /\ at' = [at EXCEPT ![t] = to]

-----------------------------------------------------------------------------
\* (mutant: the head stays when the oldest message is overwritten)
PushMutant(m) ==
    /\ ring' = [ring EXCEPT ![(head + count) % InboxSize] = m]
    /\ count' = Min({count + 1, InboxSize})
    /\ UNCHANGED head

\* inbox_push
Push(m) ==
    /\ ring' = [ring EXCEPT ![(head + count) % InboxSize] = m]
    /\ count' = Min({count + 1, InboxSize})
    /\ head' = IF count = InboxSize THEN (head + 1) % InboxSize ELSE head

\* inbox_clear; what is out of use is never read, so that it may as well go.
ClearInbox == count' = 0 /\ head' = 0 /\ ring' = [p \in Places |-> NoMessage]

\* The message the move would look at next takes a place it has looked at already when
\* the ring is full and one more comes.
Skipped == IF count = InboxSize /\ work.next <= count THEN {Inbox[work.next].n} ELSE {}

\* on_mesh_message, if MeshCore was given it, in anybody's rs_mesh_loop: the loop asks
\* whether the mesh is up, gives the lock up, and may come to MeshCore much later.
Deliver(p) ==
    /\ core = "hearing" /\ last < MaxMessages /\ last' = last + 1
    /\ Push([from |-> p, n |-> last + 1])
    /\ raced' = raced \cup (IF at.chat \in Moving THEN {last + 1} \cup Skipped ELSE {})
    /\ UNCHANGED <<meshUp, shim, at, chat, work>>

HearPeer(p) ==
    /\ core # "none" /\ p \notin ToSet(heard) /\ heard' = Append(heard, p)
    /\ UNCHANGED <<inbox, core, at, chat, work, history>>

\* rs_mesh_init, step by step: the claim under the lock, the callback, which the shim
\* keeps only if it has a mesh already, the mesh, and the claim taken back if the shim
\* finds no radio.
Claim(t) ==
    /\ ~meshUp /\ Goes(t, "idle", "register")
    /\ meshUp' = TRUE /\ ClearInbox
    /\ UNCHANGED <<shim, chat, work, history>>

Register(t) ==
    /\ Goes(t, "register", "start")
    /\ core' = IF core = "none" THEN "none" ELSE "hearing"
    /\ UNCHANGED <<inbox, heard, chat, work, history>>

Opened(t) ==
    screen' = (IF t = "chat" THEN "empty" ELSE screen) /\ UNCHANGED <<list, peer, shown>>

StartCore(t) ==
    /\ Goes(t, "start", "idle") /\ Opened(t)
    /\ core' = IF core = "none" THEN "deaf" ELSE core
    /\ UNCHANGED <<inbox, heard, work, history>>

NoRadio(t) ==
    /\ core = "none" /\ Goes(t, "start", "undo")
    /\ UNCHANGED <<inbox, shim, chat, work, history>>

UndoClaim(t) ==
    /\ Goes(t, "undo", "idle") /\ meshUp' = FALSE
    /\ UNCHANGED <<ring, head, count, shim, chat, work, history>>

\* rs_mesh_deinit: the flag, the mesh, the inbox.  The shim never refuses, so that the
\* flag is never set back.
Closed(t) ==
    IF t = "app" THEN UNCHANGED chat
    ELSE screen' = "off" /\ lines' = 0 /\ listedFor' = -1
         /\ peer' = "none" /\ shown' = <<>>

Release(t) ==
    /\ meshUp /\ Goes(t, "idle", "delete") /\ meshUp' = FALSE
    /\ UNCHANGED <<ring, head, count, shim, chat, work, history>>

DeleteCore(t) ==
    /\ Goes(t, "delete", "sweep") /\ core' = "none" /\ heard' = <<>>
    /\ UNCHANGED <<inbox, chat, work, history>>

Sweep(t) ==
    /\ Goes(t, "sweep", "idle") /\ Closed(t)
    /\ ClearInbox
    /\ UNCHANGED <<meshUp, shim, work, history>>

\* rs_mesh_clear_inbox of an app
AppClears ==
    /\ meshUp /\ ClearInbox
    /\ UNCHANGED <<meshUp, shim, at, chat, work, history>>

-----------------------------------------------------------------------------
\* rs_meshchat_init is a start of the mesh and refuses while it is up;
\* rs_meshchat_deinit is a stop, and forgets the chat even if there is none.
InitChat == screen = "off" /\ Claim("chat")

DeinitChat ==
    /\ screen # "off" /\ at.chat = "idle"
    /\ \/ Release("chat")
       \/ ~meshUp /\ Closed("chat") /\ UNCHANGED <<inbox, shim, at, work, history>>

\* rs_meshchat_update, after its loop: the list is made again when the number of
\* contacts is not the one it was made for; then the inbox is looked at.
Contacts == IF ~meshUp THEN -1 ELSE Len(heard)

Update ==
    /\ screen # "off" /\ Goes("chat", "idle", IF Contacts = listedFor THEN "look" ELSE "list")
    /\ work' = [NoWork EXCEPT !.found = Contacts]
    /\ UNCHANGED <<inbox, shim, chat, history>>

\* rebuild_contacts asks for the number once more and does not note that there is none.
UpdateList ==
    /\ Goes("chat", "list", "look")
    /\ lines' = Max({Contacts, 0})
    /\ listedFor' = IF Contacts > 0 THEN Contacts ELSE listedFor
    /\ screen' = CASE work.found > 0 /\ screen = "empty" -> "contacts"
                   [] work.found = 0 /\ screen = "contacts" -> "empty"
                   [] OTHER -> screen
    /\ UNCHANGED <<inbox, shim, peer, shown, work, history>>

\* append_inbox_messages takes the lock for the count, for each message and to clear.
CountInbox ==
    LET moves == screen = "chat" /\ meshUp /\ count > 0
    IN  /\ Goes("chat", "look", IF moves THEN "get" ELSE "idle")
        /\ work' = IF moves THEN [NoWork EXCEPT !.count = count, !.next = 1] ELSE NoWork
        /\ raced' = {}
        /\ UNCHANGED <<inbox, shim, chat, last>>

Full == Len(shown) >= MaxWidgets
Relevant(m) == peer = "none" \/ m.from = peer

GetMessage ==
    LET got == IF meshUp /\ work.next <= count THEN <<Inbox[work.next]>> ELSE <<>>
        added == SelectSeq(got, Relevant)
    IN  /\ ~Full /\ Goes("chat", "get", IF work.next = work.count THEN "clear" ELSE "get")
        /\ work' = [work EXCEPT !.next = @ + 1]
        /\ shown' = shown \o added
        /\ UNCHANGED <<inbox, shim, screen, list, peer, history>>

\* Without a line left the rest is not looked at, and cleared all the same.
StopGetting ==
    /\ Full /\ Goes("chat", "get", "clear")
    /\ UNCHANGED <<inbox, shim, chat, work, history>>

ClearRead ==
    /\ Goes("chat", "clear", "idle") /\ work' = NoWork
    /\ IF meshUp THEN ClearInbox ELSE UNCHANGED <<ring, head, count>>
    /\ UNCHANGED <<meshUp, shim, chat, history>>

\* rs_meshchat_on_key on the list, with any line selected that it has.  The peer is the
\* one MeshCore has at the line now; the lines of the last chat go, and the inbox is moved
\* before the chat is shown.
OpenChat(line) ==
    /\ screen = "contacts" /\ line <= lines /\ Goes("chat", "idle", "look")
    /\ peer' = IF line <= Contacts THEN heard[line] ELSE peer
    /\ shown' = <<>> /\ screen' = "chat"
    /\ UNCHANGED <<inbox, shim, list, work, history>>

Back ==
    /\ at.chat = "idle" /\ screen = "chat" /\ screen' = "contacts"
    /\ UNCHANGED <<inbox, shim, at, list, peer, shown, work, history>>

\* rs_meshchat_send: the shim answers MESHCORE_SEND_FAILED, which is 0, or how it sent, 1
\* or 2, and the chat takes 0 for ESP_OK.  A line of one's own is known by the answer.
Answers == IF core # "none" /\ peer \in ToSet(heard) THEN 0 .. 2 ELSE {0}
IsOk(answer) == answer = 0

Send ==
    /\ at.chat = "idle" /\ screen # "off" /\ peer # "none" /\ meshUp
    /\ \E answer \in Answers :
          shown' = IF IsOk(answer) /\ ~Full THEN Append(shown, [from |-> "me", n |-> answer]) ELSE shown
    /\ UNCHANGED <<inbox, shim, at, screen, list, peer, work, history>>

Start(t) == Register(t) \/ StartCore(t) \/ NoRadio(t) \/ UndoClaim(t)
Stop(t) == DeleteCore(t) \/ Sweep(t)

Next ==
    \/ \E p \in Peers : Deliver(p) \/ HearPeer(p)
    \/ Claim("app") \/ Release("app") \/ AppClears
    \/ \E t \in {"app", "chat"} : Start(t) \/ Stop(t)
    \/ InitChat \/ DeinitChat \/ Update \/ UpdateList \/ CountInbox \/ GetMessage
    \/ StopGetting \/ ClearRead
    \/ Back \/ Send \/ \E line \in 1 .. Cardinality(Peers) : OpenChat(line)

Spec == Init /\ [][Next]_vars

-----------------------------------------------------------------------------

\* The chat shows messages of its peer in the order they came, as they lie in the inbox;
\* and a message of the peer that the move is about to clear was shown, found no line, came
\* during the move, or was moved by one that came to a place that had been looked at
\* (inbox_push, mesh_manager.rs; append_inbox_messages, tk_meshchat.rs).
ChatIsOfItsPeer ==
    /\ \A i \in DOMAIN shown : peer # "none" => shown[i].from \in {peer, "me"}
    /\ \A i, j \in DOMAIN shown :
          i < j /\ "me" \notin {shown[i].from, shown[j].from} => shown[i].n < shown[j].n
    /\ \A i, j \in DOMAIN Inbox : i < j => Inbox[i].n < Inbox[j].n
    /\ at.chat = "clear" /\ meshUp /\ work.next > work.count =>
          \A i \in DOMAIN Inbox : Relevant(Inbox[i]) => Inbox[i] \in ToSet(shown) \/ Inbox[i].n \in raced
=============================================================================
