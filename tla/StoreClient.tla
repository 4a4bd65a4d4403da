---------------------------- MODULE StoreClient ----------------------------
(***************************************************************************)
(* The app store client (src/components/kernel_rs/src/appstore_client.rs): *)
(* the catalogue, whose text is gathered chunk by chunk in a buffer of     *)
(* fixed size and cut into entries, and the stream of a download, whose    *)
(* length is checked while it comes.  The text of the catalogue is two     *)
(* halves for each item, the one that opens its object and the one that    *)
(* closes it: a chunk may end in the middle of an object.  What is done    *)
(* with a file that was downloaded is in PackageInstall.                   *)
(*                                                                         *)
(* The App Store of the Rust window manager (tk_appstore.rs) shows entries *)
(* of the cached catalogue, one screen at a time, whose buttons carry the  *)
(* index of an entry.  Callbacks run on the render task; another task may  *)
(* destroy the app in between.  on_destroy forgets the screen but leaves   *)
(* its widgets on the tree.                                                *)
(***************************************************************************)
EXTENDS Integers, Sequences, FiniteSets, SequencesExt

CONSTANTS
    MaxItems,  \* items 1 .. MaxItems of the catalogue
    Foreign,   \* those of another processor
    Tools,     \* those of the category asked for
    Room,      \* MAX_CATALOG_JSON, in halves of items
    MaxEntries,\* entries the caller has room for
    MaxSize,   \* bound on sizes
    Ids,            \* ids of entries
    CachedCatalogs, \* catalogues the cache may hold, each a sequence of [id, rating]
    PerPage         \* cards of a page, 4 in render_browse

VARIABLES
    fetch,   \* "idle" or "runs"
    sent,    \* halves the server has sent
    buffer,  \* HttpBuf: the halves that found room
    holed,   \* one did not and a later one did
    entries, \* the entries handed to the caller
    stream,  \* the download: phase, declared length, expected size, received
    written  \* bytes in the staged file

catalog == <<fetch, sent, buffer, holed, entries>>
download == <<stream, written>>
vars == <<catalog, download>>

Unknown == -1
Halves == [item : 1 .. MaxItems, opens : BOOLEAN]
Text == [h \in 1 .. 2 * MaxItems |-> [item |-> (h + 1) \div 2, opens |-> h % 2 = 1]]
\* CatalogEntry: which item its fields are of, those at its head and those at its tail.
Entries == [id : 1 .. MaxItems, rest : 1 .. MaxItems]
NoStream == [phase |-> "idle", length |-> 0, expected |-> Unknown, limit |-> 0, received |-> 0]

TypeOK ==
    /\ fetch \in {"idle", "runs"} /\ sent \in 0 .. 2 * MaxItems /\ holed \in BOOLEAN
    /\ ToSet(buffer) \subseteq Halves /\ Len(buffer) <= Room
    /\ ToSet(entries) \subseteq Entries
    /\ Len(entries) <= MaxEntries
    /\ stream.phase \in {"idle", "reads", "done", "failed"}
    /\ stream.received \in 0 .. MaxSize /\ written \in 0 .. MaxSize + 1

Init ==
    /\ fetch = "idle" /\ sent = 0 /\ buffer = <<>> /\ holed = FALSE /\ entries = <<>>
    /\ stream = NoStream /\ written = 0

-----------------------------------------------------------------------------
\* appstore_fetch_catalog
BeginFetch ==
    /\ fetch = "idle"
    /\ fetch' = "runs" /\ sent' = 0 /\ buffer' = <<>> /\ holed' = FALSE /\ entries' = <<>>
    /\ UNCHANGED download

\* http_buf_data_handler: a chunk that does not fit is left out, a later one may fit.
Chunk(n) ==
    LET chunk == SubSeq(Text, sent + 1, sent + n)
        fits == Len(buffer) + n <= Room
    IN  /\ fetch = "runs" /\ sent + n <= Len(Text)
        /\ sent' = sent + n
        /\ buffer' = IF fits THEN buffer \o chunk ELSE buffer
        /\ holed' = (holed \/ (fits /\ Len(buffer) < sent))
        /\ UNCHANGED <<fetch, entries, download>>

\* The helpers take the first field of a name that lies between the two braces.
Entry(head, tail) == [id |-> head.open, rest |-> tail.item]

\* From the first brace that opens to the first that closes is an object.
Objects(text) ==
    LET Step(r, half) ==
            IF half.opens THEN [r EXCEPT !.open = IF @ = 0 THEN half.item ELSE @]
            ELSE IF r.open = 0 THEN r
            ELSE [open |-> 0, all |-> Append(r.all, Entry(r, half))]
    IN  FoldLeft(Step, [open |-> 0, all |-> <<>>], text).all

\* Those of this processor.
ParseCatalogEntries(text) == SelectSeq(Objects(text), LAMBDA o : o.id \notin Foreign)

\* (mutant: what was sent last is taken for an object that is not closed)
ParsedMutant(text, n) ==
    LET cut == IF text # <<>> /\ Last(text).opens THEN Append(text, [item |-> 1, opens |-> FALSE]) ELSE text
        ours == ParseCatalogEntries(cut)
    IN  SubSeq(ours, 1, IF Len(ours) < n THEN Len(ours) ELSE n)

\* As many as there is room for.
Parsed(text, n) ==
    LET ours == ParseCatalogEntries(text)
    IN  SubSeq(ours, 1, IF Len(ours) < n THEN Len(ours) ELSE n)

EndFetch ==
    /\ fetch = "runs" /\ sent = Len(Text)
    /\ fetch' = "idle" /\ entries' = Parsed(buffer, MaxEntries)
    /\ UNCHANGED <<sent, buffer, holed, download>>

\* Anything else than a complete answer with status 200.
FetchFails ==
    /\ fetch = "runs" /\ fetch' = "idle"
    /\ UNCHANGED <<sent, buffer, holed, entries, download>>

\* appstore_fetch_by_category: the entries there was room for, then the filter.
FilterTools ==
    /\ fetch = "idle" /\ entries # <<>>
    /\ entries' = SelectSeq(entries, LAMBDA e : e.rest \in Tools)
    /\ UNCHANGED <<fetch, sent, buffer, holed, download>>

\* appstore_sort_entries, by name
Sort(ascending) ==
    /\ fetch = "idle" /\ entries # <<>>
    /\ entries' = SortSeq(entries, LAMBDA a, b : IF ascending THEN a.id < b.id ELSE a.id > b.id)
    /\ UNCHANGED <<fetch, sent, buffer, holed, download>>

-----------------------------------------------------------------------------
\* StreamValidator::new; the caller may know the size, or not.
Open(length, expected, limit) ==
    /\ stream.phase # "reads"
    /\ written' = 0
    /\ stream' = [phase |-> IF length \in 0 .. limit /\ expected \in {Unknown, length}
                            THEN "reads" ELSE "failed",
                  length |-> length, expected |-> expected, limit |-> limit, received |-> 0]
    /\ UNCHANGED catalog

\* The connection gives more bytes; what is more than was declared ends the download.
Read(n) ==
    LET received == stream.received + n
    IN  /\ stream.phase = "reads"
        /\ IF received > stream.length
           THEN stream' = [stream EXCEPT !.phase = "failed"] /\ UNCHANGED written
           ELSE stream' = [stream EXCEPT !.received = received] /\ written' = written + n
        /\ UNCHANGED catalog

\* (mutant: the end of the stream is the end of the file)
StreamEndsMutant ==
    /\ stream.phase = "reads"
    /\ stream' = [stream EXCEPT !.phase = "done"]
    /\ UNCHANGED <<written, catalog>>

StreamEnds ==
    /\ stream.phase = "reads"
    /\ stream' = [stream EXCEPT !.phase = IF stream.received = stream.length
                                          THEN "done" ELSE "failed"]
    /\ UNCHANGED <<written, catalog>>

\* The connection breaks, the hash differs, the disk is full, or sync fails.
DownloadFails ==
    /\ stream.phase = "reads"
    /\ stream' = [stream EXCEPT !.phase = "failed"]
    /\ UNCHANGED <<written, catalog>>

Next ==
    \/ BeginFetch \/ EndFetch \/ FetchFails \/ FilterTools
    \/ \E n \in 1 .. 3 : Chunk(n)
    \/ \E up \in BOOLEAN : Sort(up)
    \/ \E l, m \in Unknown .. MaxSize, e \in Unknown .. MaxSize : m >= 0 /\ Open(l, e, m)
    \/ \E n \in 1 .. 2 : Read(n)
    \/ StreamEnds \/ DownloadFails

Spec == Init /\ [][Next]_vars

-----------------------------------------------------------------------------
\* Every entry is one item of the catalogue, each once and none of another processor;
\* with a hole in the text the head of one item gets the tail of another (HttpBuf).
EntriesAreItems ==
    holed \/ (/\ \A i \in DOMAIN entries : entries[i].id = entries[i].rest
              /\ \A i \in DOMAIN entries : entries[i].id \notin Foreign
              /\ IsInjective(entries))

\* A download that counts as done has all the bytes the server declared and the
\* catalogue promised, and no more than the limit of its kind (StreamValidator).
DownloadIsWhole ==
    stream.phase = "done" =>
        /\ written = stream.length /\ written <= stream.limit
        /\ stream.expected \in {Unknown, written}

-----------------------------------------------------------------------------
(* The screens of the store.                                               *)

VARIABLES
    alive,       \* the app exists
    shopEntries, \* APPSTORE.entries
    screen,      \* what the state believes is shown: "loading", "browse", ...
    widgets,     \* screens on the tree: kind, entries, index, and if root_widgets has them
    installing,  \* install_clicked: "none" or the entry and the one its screen showed
    installDone  \* the last install that ended: what was shown and what was installed

shop == <<alive, shopEntries, screen, widgets, installing, installDone>>

NoInstall == [shown |-> "none", entry |-> "none", kept |-> TRUE]
Kinds == {"browse", "detail", "installing"}
Screens == [kind : Kinds, cards : UNION {[1 .. n -> Ids] : n \in 0 .. PerPage},
            index : Nat, kept : BOOLEAN]

ShopTypeOK ==
    /\ alive \in BOOLEAN /\ screen \in Kinds \cup {"loading"}
    /\ \A i \in DOMAIN shopEntries : shopEntries[i].id \in Ids
    /\ \A w \in widgets : w \in Screens
    /\ \A k \in {installing, installDone} : {k.shown, k.entry} \subseteq Ids \cup {"none", "gone"}

ShopInit ==
    /\ alive = FALSE /\ shopEntries = <<>> /\ screen = "loading" /\ widgets = {}
    /\ installing = NoInstall /\ installDone = NoInstall

\* sort_entries_slice by rating, the best first; equal ones stay in their order.
Sorted(cached) ==
    LET at(i) == [e |-> cached[i], i |-> i]
        before(a, b) == a.e.rating > b.e.rating \/ (a.e.rating = b.e.rating /\ a.i < b.i)
        order == SortSeq([i \in DOMAIN cached |-> at(i)], before)
    IN  [i \in DOMAIN order |-> order[i].e]

\* clear_screen destroys the screens it knows of.
Others == {w \in widgets : ~w.kept}
Shows(kind, cards, index) == [kind |-> kind, cards |-> cards, index |-> index, kept |-> TRUE]

\* (mutant: the old screen is not taken down)
RenderMutant(kind, cards, index) ==
    widgets' = widgets \cup {Shows(kind, cards, index)} /\ screen' = kind

Render(kind, cards, index) ==
    widgets' = Others \cup {Shows(kind, cards, index)} /\ screen' = kind

\* render_browse: the first page, no button leads to another.
FirstPage(list) == [i \in {n \in DOMAIN list : n <= PerPage} |-> list[i].id]

Create ==
    \E cached \in CachedCatalogs :
        /\ ~alive
        /\ alive' = TRUE /\ shopEntries' = Sorted(cached)
        /\ Render("browse", FirstPage(Sorted(cached)), 0)
        /\ UNCHANGED <<installing, installDone>>

\* on_destroy, by whatever task, also during an install: the list of the screens is
\* emptied, they stay on the tree.
Destroy ==
    /\ alive
    /\ alive' = FALSE /\ shopEntries' = <<>> /\ screen' = "loading"
    /\ widgets' = {[w EXCEPT !.kept = FALSE] : w \in widgets}
    /\ installing' = IF installing # NoInstall THEN [installing EXCEPT !.entry = "gone"] ELSE installing
    /\ UNCHANGED installDone

\* Buttons answer while the render task is not in the middle of an install; those of a
\* screen left behind too, with the indices they were made with.
Clicks(kind) == {w \in widgets : w.kind = kind /\ installing = NoInstall}

\* detail_clicked, render_detail
ClickCard(w, i) ==
    /\ w \in Clicks("browse") /\ i \in DOMAIN w.cards /\ i <= Len(shopEntries)
    /\ Render("detail", <<shopEntries[i].id>>, i)
    /\ UNCHANGED <<alive, shopEntries, installing, installDone>>

\* back_clicked
ClickBack(w) ==
    /\ w \in Clicks("detail")
    /\ Render("browse", FirstPage(shopEntries), 0)
    /\ UNCHANGED <<alive, shopEntries, installing, installDone>>

\* install_clicked, up to the call that installs: the entry is a pointer from here on.
ClickInstall(w) ==
    /\ w \in Clicks("detail") /\ w.index <= Len(shopEntries)
    /\ LET entry == shopEntries[w.index].id
       IN  /\ installing' = [shown |-> w.cards[1], entry |-> entry, kept |-> w.kept]
           /\ Render("installing", <<entry>>, 0)
    /\ UNCHANGED <<alive, shopEntries, installDone>>

\* appstore_install_entry has returned; there is no button on the last screen.
InstallEnds ==
    /\ installing # NoInstall
    /\ Render("installing", <<installing.shown>>, 0)
    /\ installDone' = installing /\ installing' = NoInstall
    /\ UNCHANGED <<alive, shopEntries>>

ShopNext ==
    \/ Create \/ Destroy \/ InstallEnds
    \/ \E w \in widgets : ClickBack(w) \/ ClickInstall(w) \/ \E i \in 1 .. PerPage : ClickCard(w, i)

ShopSpec == ShopInit /\ [][ShopNext]_shop

-----------------------------------------------------------------------------
\* What is installed is what the screen showed whose button was pressed, unless that
\* screen was left behind by an app destroyed since (install_clicked, on_destroy).
InstallsWhatWasShown ==
    \A k \in {installing, installDone} : k.entry \in {k.shown, "gone"} \/ ~k.kept

\* One screen of the app is on the tree, and the one the state believes.
OneScreen ==
    alive => {w.kind : w \in widgets \ Others} = {screen} /\ Cardinality(widgets \ Others) = 1
=============================================================================
