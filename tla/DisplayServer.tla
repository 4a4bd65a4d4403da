--------------------------- MODULE DisplayServer ---------------------------
(***************************************************************************)
(* The display server (src/components/kernel_rs/src/display_server.rs):    *)
(* the window manager that is active, and the surfaces, which are given    *)
(* out under numbers that only grow and found under the number minus one.  *)
(* Every function holds the mutex of the server to its end.                *)
(***************************************************************************)
EXTENDS Integers, FiniteSets

CONSTANTS
    Managers,    \* window managers
    MaxSurfaces, \* MAX_SURFACES
    MaxIds       \* bound on the numbers given out

VARIABLES
    up,       \* display_server_init was called
    wm,       \* the active window manager or "none"
    ready,    \* window managers that are initialised
    surfaces, \* the places: allocated, dirty, and the owner: the number given out
    nextId,   \* the next number
    reused    \* history: a place was given out again

vars == <<up, wm, ready, surfaces, nextId, reused>>

Places == 1 .. MaxSurfaces
Empty == [owner |-> 0, dirty |-> FALSE, visible |-> FALSE]

TypeOK ==
    /\ up \in BOOLEAN /\ wm \in Managers \cup {"none"} /\ ready \subseteq Managers
    /\ surfaces \in [Places -> [owner : 0 .. MaxIds, dirty : BOOLEAN, visible : BOOLEAN]]
    /\ nextId \in 1 .. MaxIds + 1 /\ reused \in BOOLEAN

Init ==
    /\ up = FALSE /\ wm = "none" /\ ready = {}
    /\ surfaces = [p \in Places |-> Empty] /\ nextId = 1 /\ reused = FALSE

\* display_server_init, once at boot
StartServer ==
    /\ ~up /\ up' = TRUE
    /\ UNCHANGED <<wm, ready, surfaces, nextId, reused>>

\* (mutant: the window manager before is left as it is)
RegisterMutant(m, succeeds) ==
    /\ up
    /\ wm' = IF succeeds THEN m ELSE "none"
    /\ ready' = ready \cup IF succeeds THEN {m} ELSE {}
    /\ UNCHANGED <<up, surfaces, nextId, reused>>

\* display_server_register_wm: the one before is taken down first, and not brought
\* back when the new one fails.
Register(m, succeeds) ==
    /\ up
    /\ wm' = IF succeeds THEN m ELSE "none"
    /\ ready' = (ready \ {wm}) \cup IF succeeds THEN {m} ELSE {}
    /\ UNCHANGED <<up, surfaces, nextId, reused>>

Free == {p \in Places : surfaces[p].owner = 0}
First(set) == CHOOSE p \in set : \A q \in set : p <= q

CreateSurface(visible) ==
    /\ up /\ Free # {} /\ nextId <= MaxIds
    /\ surfaces' = [surfaces EXCEPT ![First(Free)] = [owner |-> nextId, dirty |-> FALSE, visible |-> visible]]
    /\ nextId' = nextId + 1
    /\ reused' = (reused \/ First(Free) # nextId)
    /\ UNCHANGED <<up, wm, ready>>

\* destroy_surface, mark_dirty, mark_dirty_full and set_visible, called with a number
\* that was given out; a place that does not exist is passed over.
Change(id, surface) ==
    /\ up /\ id < nextId
    /\ surfaces' = IF id \in Places THEN [surfaces EXCEPT ![id] = surface] ELSE surfaces
    /\ UNCHANGED <<up, wm, ready, nextId, reused>>

DestroySurface(id) == Change(id, Empty)
MarkDirty(id) == id \in Places => Change(id, [surfaces[id] EXCEPT !.dirty = TRUE])
SetVisible(id, v) == id \in Places => Change(id, [surfaces[id] EXCEPT !.visible = v])

\* get_buffer, get_info: whose memory a number leads to
Buffer(id) == IF id \in Places THEN surfaces[id].owner ELSE 0

Next ==
    \/ StartServer
    \/ \E m \in Managers, s \in BOOLEAN : Register(m, s)
    \/ \E v \in BOOLEAN : CreateSurface(v)
    \/ \E id \in Places : DestroySurface(id) \/ MarkDirty(id) \/ \E v \in BOOLEAN : SetVisible(id, v)

Spec == Init /\ [][Next]_vars

-----------------------------------------------------------------------------
\* Exactly the active window manager is initialised (register_wm); a number leads to its
\* own surface or to none, until the first place is given out again (create_surface).
ServerIsSound ==
    /\ ready = {wm} \ {"none"}
    /\ reused \/ \A id \in 1 .. nextId - 1 : Buffer(id) \in {0, id}
=============================================================================
