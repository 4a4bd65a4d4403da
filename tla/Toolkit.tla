------------------------------ MODULE Toolkit ------------------------------
(***************************************************************************)
(* The widgets of the Rust window manager: the tree of                     *)
(* src/crates/thistle-tk/src/tree.rs, which uses the places of removed     *)
(* widgets again, the focus, and the input of src/crates/thistle-tk/src/   *)
(* input.rs, behind the exported functions of                              *)
(* src/components/kernel_rs/src/tk_wm.rs.  Every function holds the mutex  *)
(* of the window manager; only the call of an app's callback does not, so  *)
(* that another task may come in between.  A button stands for everything  *)
(* that takes the focus, a container for everything else; positions are    *)
(* left out: a finger may hit any widget that is visible.                  *)
(***************************************************************************)
EXTENDS Integers, Sequences, FiniteSets, SequencesExt, FiniteSetsExt

CONSTANTS
    MaxNodes,    \* bound on the places of the tree
    MaxChildren, \* MAX_CHILDREN
    Capacity,    \* C_CALLBACK_CAPACITY
    Callbacks    \* functions of apps

VARIABLES
    nodes,     \* the places: kind, parent, children, visible, pressed, press, alive
    free,      \* places to use again, the last one first
    focus,     \* the widget that gets the keys, -1 for none
    callbacks, \* for each widget number the function registered, "none"
    pending,   \* the button whose function is to be called, 0 for none
    wanted,    \* history: the function it had when it was pressed, "lost" if it went since
    dirty,     \* something is to be drawn
    undrawn    \* history: "yes" what was drawn is out of date, "released" only by a finger lifted

vars == <<nodes, free, focus, callbacks, pending, wanted, dirty, undrawn>>
table == <<callbacks, pending, wanted>>

Root == 0
Ids == 0 .. Len(nodes) - 1
Node(id) == nodes[id + 1]
Alive(id) == id \in Ids /\ Node(id).alive
IsButton(id) == Alive(id) /\ Node(id).kind = "button"

NewNode(kind, parent) ==
    [kind |-> kind, parent |-> parent, children |-> <<>>, visible |-> TRUE, pressed |-> FALSE,
     press |-> FALSE, alive |-> TRUE]

TypeOK ==
    /\ Len(nodes) \in 1 .. MaxNodes
    /\ \A id \in Ids :
        /\ Node(id).kind \in {"container", "button"} /\ Node(id).parent \in Ids \cup {-1}
        /\ ToSet(Node(id).children) \subseteq Ids /\ Len(Node(id).children) <= MaxChildren
        /\ {Node(id).visible, Node(id).pressed, Node(id).press, Node(id).alive} \subseteq BOOLEAN
    /\ ToSet(free) \subseteq Ids /\ focus \in Ids \cup {-1}
    /\ callbacks \in [0 .. Capacity - 1 -> Callbacks \cup {"none"}]
    /\ pending \in 0 .. Capacity - 1 /\ wanted \in Callbacks \cup {"none", "lost"}
    /\ dirty \in BOOLEAN /\ undrawn \in {"no", "released", "yes"}

\* tk_wm_init
Init ==
    /\ nodes = <<NewNode("container", -1)>> /\ free = <<>> /\ focus = -1
    /\ callbacks = [id \in 0 .. Capacity - 1 |-> "none"] /\ pending = 0 /\ wanted = "none"
    /\ dirty = TRUE /\ undrawn = "yes"

\* walk, from a widget down, past what is not visible
Below(visibleOnly) ==
    LET from[id \in Ids] ==
            IF visibleOnly /\ ~Node(id).visible THEN <<>>
            ELSE <<id>> \o FoldLeft(LAMBDA s, c : s \o from[c], <<>>, Node(id).children)
    IN  from

Subtree(id) == Below(FALSE)[id]
Seen == Below(TRUE)[Root]
Focusable == SelectSeq(Seen, IsButton)

Changed == dirty' = TRUE /\ undrawn' = "yes"

-----------------------------------------------------------------------------
\* add_child.  With no room in the parent the place goes back to the free ones.
AddChild(kind, parent) ==
    LET id == IF free = <<>> THEN Len(nodes) ELSE Last(free)
        rest == IF free = <<>> THEN free ELSE Front(free)
        placed == IF free = <<>> THEN Append(nodes, NewNode(kind, parent))
                  ELSE [nodes EXCEPT ![id + 1] = NewNode(kind, parent)]
    IN  IF Len(Node(parent).children) < MaxChildren
        THEN [fits |-> TRUE, free |-> rest,
              nodes |-> [placed EXCEPT ![parent + 1].children = Append(@, id)]]
        ELSE [fits |-> FALSE, free |-> Append(rest, id),
              nodes |-> [placed EXCEPT ![id + 1].alive = FALSE]]

\* tk_wm_widget_create_container and its kin
Create(kind, parent) ==
    /\ Alive(parent) /\ (free # <<>> \/ Len(nodes) < MaxNodes)
    /\ LET grown == AddChild(kind, parent)
       IN  /\ nodes' = grown.nodes /\ free' = grown.free
           /\ IF grown.fits THEN Changed ELSE UNCHANGED <<dirty, undrawn>>
    /\ UNCHANGED <<focus, table>>

SwapRemove(s, x) ==
    LET at == SelectInSeq(s, LAMBDA y : y = x)
    IN  [i \in 1 .. Len(s) - 1 |-> IF i = at THEN Last(s) ELSE s[i]]

\* (mutant: the focus stays on a widget below the one removed)
DestroyMutant(id) ==
    LET gone == Subtree(id)
    IN  /\ id # Root /\ Alive(id)
        /\ nodes' = [i \in DOMAIN nodes |->
               IF i - 1 \in ToSet(gone) THEN [nodes[i] EXCEPT !.alive = FALSE, !.children = <<>>]
               ELSE IF i - 1 = Node(id).parent
               THEN [nodes[i] EXCEPT !.children = SwapRemove(@, id)] ELSE nodes[i]]
        /\ free' = free \o gone
        /\ focus' = IF focus = id THEN -1 ELSE focus
        /\ callbacks' = IF id < Capacity THEN [callbacks EXCEPT ![id] = "none"] ELSE callbacks
        /\ wanted' = IF pending \in ToSet(gone) THEN "lost" ELSE wanted
        /\ Changed /\ UNCHANGED pending

\* tk_wm_widget_destroy: everything below goes too, but only the function of the widget
\* itself is forgotten; its last sibling takes its place.
Destroy(id) ==
    LET gone == Subtree(id)
    IN  /\ id # Root /\ Alive(id)
        /\ nodes' = [i \in DOMAIN nodes |->
               IF i - 1 \in ToSet(gone) THEN [nodes[i] EXCEPT !.alive = FALSE, !.children = <<>>]
               ELSE IF i - 1 = Node(id).parent
               THEN [nodes[i] EXCEPT !.children = SwapRemove(@, id)] ELSE nodes[i]]
        /\ free' = free \o gone
        /\ focus' = IF focus \in ToSet(gone) THEN -1 ELSE focus
        /\ callbacks' = IF id < Capacity THEN [callbacks EXCEPT ![id] = "none"] ELSE callbacks
        /\ wanted' = IF pending \in ToSet(gone) THEN "lost" ELSE wanted
        /\ Changed /\ UNCHANGED pending

SetVisible(id, visible) ==
    /\ Alive(id) /\ nodes' = [nodes EXCEPT ![id + 1].visible = visible]
    /\ Changed /\ UNCHANGED <<free, focus, table>>

\* The functions that change how a widget looks or where it is.
SetLook(id) == Alive(id) /\ Changed /\ UNCHANGED <<nodes, free, focus, table>>

\* tk_wm_widget_on_event
OnEvent(id, callback) ==
    /\ IsButton(id) /\ (callback = "none" \/ id < Capacity)
    /\ nodes' = [nodes EXCEPT ![id + 1].press = callback # "none"]
    /\ callbacks' = IF id < Capacity THEN [callbacks EXCEPT ![id] = callback] ELSE callbacks
    /\ wanted' = IF id = pending /\ pending # 0 THEN "lost" ELSE wanted
    /\ UNCHANGED <<free, focus, pending, dirty, undrawn>>

\* focus_first_descendant
FocusFirst(top) ==
    LET inside == SelectSeq(IF Alive(top) THEN Below(TRUE)[top] ELSE <<>>, IsButton)
    IN  /\ focus' = IF inside = <<>> THEN -1 ELSE Head(inside)
        /\ dirty' = (dirty \/ inside # <<>>)
        /\ undrawn' = IF focus' # focus /\ inside # <<>> THEN "yes" ELSE undrawn
        /\ UNCHANGED <<nodes, free, table>>

-----------------------------------------------------------------------------
\* tk_wm_on_input.  A key without a focus first goes to the first button there is.
KeyFocus == IF focus = -1 /\ Focusable # <<>> THEN Head(Focusable) ELSE focus

\* queue_c_callback
Press(id) ==
    IF Node(id).press THEN pending' = id /\ wanted' = callbacks[id] ELSE UNCHANGED <<pending, wanted>>

KeyTab ==
    LET at == Max({1} \cup {i \in DOMAIN Focusable : Focusable[i] = KeyFocus})
    IN  /\ pending = 0 /\ Focusable # <<>>
        /\ focus' = Focusable[(at % Len(Focusable)) + 1]
        /\ Changed /\ UNCHANGED <<nodes, free, table>>

\* move_focus_spatial, if there is a button in that direction
KeyArrow(to) ==
    /\ pending = 0 /\ KeyFocus # -1 /\ to \in ToSet(Focusable) \ {KeyFocus}
    /\ focus' = to /\ Changed /\ UNCHANGED <<nodes, free, table>>

\* handle_enter: nobody asks whether the button can be seen.
KeyEnter ==
    /\ pending = 0 /\ KeyFocus # -1 /\ focus' = KeyFocus
    /\ Press(KeyFocus)
    /\ IF Node(KeyFocus).press \/ KeyFocus # focus THEN Changed ELSE UNCHANGED <<dirty, undrawn>>
    /\ UNCHANGED <<nodes, free, callbacks>>

\* dispatch_touch_down, of one finger
TouchDown(id) ==
    /\ pending = 0 /\ id \in ToSet(Seen) /\ \A i \in ToSet(Seen) : ~Node(i).pressed
    /\ nodes' = [nodes EXCEPT ![id + 1].pressed = TRUE]
    /\ focus' = IF IsButton(id) THEN id ELSE focus
    /\ Changed /\ UNCHANGED <<free, table>>

\* dispatch_touch_up: a finger that is lifted where nothing waits for it changes what was
\* pressed and says that nothing happened.
TouchUp(id) ==
    LET pressed == {i \in ToSet(Seen) : Node(i).pressed}
        answered == IsButton(id) /\ Node(id).press
    IN  /\ pending = 0 /\ id \in ToSet(Seen)
        /\ nodes' = [i \in DOMAIN nodes |->
               IF i - 1 \in pressed THEN [nodes[i] EXCEPT !.pressed = FALSE] ELSE nodes[i]]
        /\ IF answered THEN Press(id) /\ Changed
           ELSE /\ undrawn' = IF undrawn = "no" /\ pressed # {} THEN "released" ELSE undrawn
                /\ UNCHANGED <<dirty, pending, wanted>>
        /\ UNCHANGED <<free, focus, callbacks>>

\* dispatch_pending_c_callback, without the mutex
Dispatch == pending # 0 /\ pending' = 0 /\ wanted' = "none" /\ UNCHANGED <<nodes, free, focus, callbacks, dirty, undrawn>>

\* tk_wm_render
Render ==
    /\ pending = 0 /\ dirty /\ dirty' = FALSE /\ undrawn' = "no"
    /\ UNCHANGED <<nodes, free, focus, table>>

Next ==
    \/ \E kind \in {"container", "button"}, id \in Ids : Create(kind, id)
    \/ \E id \in Ids :
        \/ Destroy(id) \/ SetLook(id) \/ FocusFirst(id) \/ TouchDown(id) \/ TouchUp(id)
        \/ KeyArrow(id)
        \/ \E visible \in BOOLEAN : SetVisible(id, visible)
        \/ \E callback \in Callbacks \cup {"none"} : OnEvent(id, callback)
    \/ KeyTab \/ KeyEnter \/ Dispatch \/ Render

Spec == Init /\ [][Next]_vars

-----------------------------------------------------------------------------

\* The widgets are a tree, a place is either in it or free, once, and the focus is on a
\* button of it (add_child, remove, set_focus; tree.rs).
TreeIsSound ==
    /\ IsInjective(Subtree(Root)) /\ IsInjective(free)
    /\ ToSet(free) = Ids \ ToSet(Subtree(Root))
    /\ \A id \in Ids : Node(id).alive = (id \notin ToSet(free))
    /\ \A id \in ToSet(Subtree(Root)), c \in Ids :
           c \in ToSet(Node(id).children) => Node(c).parent = id
    /\ focus # -1 => IsButton(focus)

\* The function that is called is the one the button had when it was pressed, unless it
\* was taken away in between; and whatever changed is drawn again, but for what a lifted
\* finger leaves (dispatch_pending_c_callback, tk_wm_on_input; tk_wm.rs).
PressIsAnswered ==
    /\ pending # 0 /\ wanted # "lost" => wanted # "none" /\ callbacks[pending] = wanted
    /\ ~dirty => undrawn # "yes"

=============================================================================
