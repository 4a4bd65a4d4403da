------------------------------ MODULE Contacts ------------------------------
(***************************************************************************)
(* The address book and its file                                           *)
(* (src/components/kernel_rs/src/contact_manager.rs), the enciphered       *)
(* channels that are kept by the number of a contact (msg_crypto.rs), and  *)
(* the messenger, which opens both and looks a contact up by its phone     *)
(* before it sends.  A name is whose it is, and whether reading the file   *)
(* back has spoilt it.                                                     *)
(***************************************************************************)
EXTENDS Integers, Sequences, FiniteSets, SequencesExt, FiniteSetsExt

CONSTANTS
    People,       \* whom a contact may stand for
    Quoted,       \* those whose name has a quote or a backslash in it
    Phones,       \* phone numbers
    Passphrases,  \* what a channel may be opened with
    MaxContacts,  \* MAX_CONTACTS
    MaxChannels,  \* slots of the channels, MAX_CHANNELS
    MaxIds,       \* bound on the numbers given out
    MaxSalts      \* bound on the salts drawn

VARIABLES
    contacts,  \* the address book, in order
    nextId,    \* the next number
    ready,     \* the address book was initialised
    dirty,     \* it was changed since it was loaded or saved
    file,      \* the file: a sequence of contacts or one of a torn record
    unread,    \* the file could not be read when the address book was initialised
    channels,  \* the slots of the channels
    count,     \* and the count of those in use
    salts,     \* salts drawn so far
    air        \* the last message that went out

book == <<contacts, nextId, ready, dirty, unread>>
secrets == <<channels, count, salts>>
vars == <<book, file, secrets, air>>

Contact == [id : 1 .. MaxIds, who : People, phone : Phones, spoilt : BOOLEAN]
Torn == <<[id |-> 0]>>
Closed == [contact |-> 0]
Plain == [pass |-> "none"]
Slots == 1 .. MaxChannels
Open == {s \in Slots : channels[s] # Closed}
Channel == [contact : 1 .. MaxIds, pass : Passphrases, salt : 1 .. MaxSalts, of : People]

TypeOK ==
    /\ contacts \in Seq(Contact) /\ Len(contacts) <= MaxContacts
    /\ nextId \in 1 .. MaxIds + 1 /\ ready \in BOOLEAN /\ dirty \in BOOLEAN /\ unread \in BOOLEAN
    /\ file = Torn \/ file \in Seq(Contact)
    /\ \A s \in Slots : channels[s] \in Channel \cup {Closed}
    /\ count \in 0 .. MaxChannels /\ salts \in 0 .. MaxSalts
    /\ air = Plain \/ air \in [pass : Passphrases, salt : 1 .. MaxSalts, key : Passphrases \X (1 .. MaxSalts)]

Init ==
    /\ contacts = <<>> /\ nextId = 1 /\ ready = FALSE /\ dirty = FALSE /\ unread = FALSE
    /\ file = <<>> /\ channels = [s \in Slots |-> Closed] /\ count = 0 /\ salts = 0 /\ air = Plain

Ids == {contacts[i].id : i \in DOMAIN contacts}

-----------------------------------------------------------------------------
\* from_json: the values are taken as they were written, escapes and all.
ReadBack(c) == [c EXCEPT !.spoilt = @ \/ c.who \in Quoted]

\* load_from_disk: a file that cannot be read, or has no end, is an empty address book.
Loaded == IF file = Torn THEN <<>> ELSE [i \in DOMAIN file |-> ReadBack(file[i])]

Load(readable) ==
    /\ contacts' = IF readable THEN Loaded ELSE <<>>
    /\ nextId' = IF contacts' = <<>> THEN 1 ELSE Max({contacts'[i].id : i \in DOMAIN contacts'}) + 1
    /\ dirty' = FALSE /\ ready' = TRUE /\ unread' = ~readable

\* on_create of the messenger: the address book is loaded once, the channels are
\* forgotten each time.
CreateMessenger ==
    /\ \/ ready /\ UNCHANGED book
       \/ ~ready /\ \E readable \in BOOLEAN : Load(readable)
    /\ channels' = [s \in Slots |-> Closed] /\ count' = 0
    /\ UNCHANGED <<file, salts, air>>

\* (mutant: the number of a contact that was removed is given again)
AddMutant(w, p) ==
    LET id == Min(1 .. MaxIds \ Ids)
    IN  /\ Len(contacts) < MaxContacts
        /\ contacts' = Append(contacts, [id |-> id, who |-> w, phone |-> p, spoilt |-> FALSE])
        /\ dirty' = TRUE
        /\ UNCHANGED <<nextId, ready, unread, file, secrets, air>>

\* add, and import_vcard of a card that has a name.  Nobody adds before the messenger has
\* opened the address book.
Add(w, p) ==
    /\ Len(contacts) < MaxContacts /\ nextId <= MaxIds
    /\ contacts' = Append(contacts, [id |-> nextId, who |-> w, phone |-> p, spoilt |-> FALSE])
    /\ nextId' = nextId + 1 /\ dirty' = TRUE
    /\ UNCHANGED <<ready, unread, file, secrets, air>>

\* (mutant: a removal is not noted)
DropMutant(id) ==
    /\ contacts' = SelectSeq(contacts, LAMBDA c : c.id # id)
    /\ UNCHANGED <<dirty, nextId, ready, unread, file, secrets, air>>

\* remove
Drop(id) ==
    /\ contacts' = SelectSeq(contacts, LAMBDA c : c.id # id) /\ dirty' = TRUE
    /\ UNCHANGED <<nextId, ready, unread, file, secrets, air>>

\* update, and set_pubkey for the key
Update(id, p) ==
    /\ contacts' = [i \in DOMAIN contacts |->
                      IF contacts[i].id = id THEN [contacts[i] EXCEPT !.phone = p] ELSE contacts[i]]
    /\ dirty' = TRUE
    /\ UNCHANGED <<nextId, ready, unread, file, secrets, air>>

\* save_to_disk writes over the file; a write that fails may leave a part of it.
Save ==
    /\ ready /\ file' = contacts /\ dirty' = FALSE /\ unread' = FALSE
    /\ UNCHANGED <<contacts, nextId, ready, secrets, air>>

SaveFails == ready /\ file' = Torn /\ UNCHANGED <<book, secrets, air>>

\* Power is lost, possibly while the file is written.
Crash ==
    /\ contacts' = <<>> /\ nextId' = 1 /\ ready' = FALSE /\ dirty' = FALSE /\ unread' = FALSE
    /\ channels' = [s \in Slots |-> Closed] /\ count' = 0 /\ air' = Plain
    /\ file' \in {file} \cup (IF ready THEN {Torn} ELSE {})
    /\ UNCHANGED salts

-----------------------------------------------------------------------------
ChannelOf(id) == {s \in Open : channels[s].contact = id}

\* rs_msg_crypto_establish: a new salt; an old channel of the contact is closed first.
Establish(i, pass) ==
    LET slot == IF ChannelOf(contacts[i].id) # {} THEN ChannelOf(contacts[i].id) ELSE Slots \ Open
    IN  /\ slot # {} /\ salts < MaxSalts /\ salts' = salts + 1
        /\ channels' = [channels EXCEPT ![Min(slot)] =
              [contact |-> contacts[i].id, pass |-> pass, salt |-> salts + 1, of |-> contacts[i].who]]
        /\ count' = count + 1 - Cardinality(ChannelOf(contacts[i].id))
        /\ UNCHANGED <<book, file, air>>

Destroy(id) ==
    /\ ChannelOf(id) # {}
    /\ channels' = [s \in Slots |-> IF s \in ChannelOf(id) THEN Closed ELSE channels[s]]
    /\ count' = count - 1
    /\ UNCHANGED <<book, file, salts, air>>

DestroyAll ==
    /\ channels' = [s \in Slots |-> Closed] /\ count' = 0
    /\ UNCHANGED <<book, file, salts, air>>

\* A key comes of a passphrase and a salt.
Key(pass, salt) == <<pass, salt>>

\* (mutant: the salt of the channel is used for every message)
OpensMutant(s, envelope) == Key(channels[s].pass, channels[s].salt) = envelope.key

\* rs_msg_crypto_decrypt takes the salt from the message, not from the channel.
Opens(s, envelope) == Key(channels[s].pass, envelope.salt) = envelope.key

\* The messenger sends to a phone: enciphered for the first contact with that number if
\* a channel of it is open, else, or if enciphering fails, in plain.
Send(p) ==
    LET with == {i \in DOMAIN contacts : contacts[i].phone = p}
        open == IF with = {} THEN {} ELSE ChannelOf(contacts[Min(with)].id)
    IN  /\ air' \in {Plain} \cup {[pass |-> channels[s].pass, salt |-> channels[s].salt,
                                   key |-> Key(channels[s].pass, channels[s].salt)] : s \in open}
        /\ UNCHANGED <<book, file, secrets>>

Next ==
    \/ CreateMessenger \/ Save \/ SaveFails \/ Crash \/ (ready /\ DestroyAll)
    \/ \E p \in Phones : Send(p) \/ (ready /\ \E w \in People : Add(w, p))
    \/ \E id \in Ids : Drop(id) \/ \E p \in Phones : Update(id, p)
    \/ \E i \in DOMAIN contacts, pass \in Passphrases : Establish(i, pass)
    \/ \E id \in 1 .. MaxIds : Destroy(id)

Spec == Init /\ [][Next]_vars

-----------------------------------------------------------------------------

\* An address book without changes is what the file says, spoilt names apart, unless the
\* file could not be read or a write of it failed (load_from_disk, save_to_disk).
Essence(c) == [id |-> c.id, who |-> c.who, phone |-> c.phone]
CleanMeansSaved ==
    (ready /\ ~dirty /\ ~unread /\ file # Torn) =>
        [i \in DOMAIN contacts |-> Essence(contacts[i])] = [i \in DOMAIN file |-> Essence(file[i])]

\* Numbers are unique, a channel is never used for another person than the one it was
\* opened with, and it opens exactly the messages of its passphrase, those of an
\* earlier salt too (add and remove, contact_manager.rs; establish and decrypt,
\* msg_crypto.rs).
ChannelsAreOwn ==
    /\ \A i, j \in DOMAIN contacts : contacts[i].id = contacts[j].id => i = j
    /\ count = Cardinality(Open)
    /\ \A s, t \in Open : channels[s].contact = channels[t].contact => s = t
    /\ \A s \in Open, i \in DOMAIN contacts :
          contacts[i].id = channels[s].contact => contacts[i].who = channels[s].of
    /\ air # Plain => \A s \in Open : Opens(s, air) = (channels[s].pass = air.pass)

=============================================================================
