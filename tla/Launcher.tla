------------------------------ MODULE Launcher ------------------------------
(***************************************************************************)
(* The launcher of the Rust window manager (src/components/kernel_rs/src/  *)
(* tk_launcher.rs) with the focus of tk_wm.rs: the home view with its dock *)
(* and the drawer with all apps, of which one is shown (nothing opens the  *)
(* folder of tools).  What a button asks for is noted while the window     *)
(* manager is locked and done after that; launching an app pauses the      *)
(* launcher.  Another app is one button on a screen of its own.            *)
(***************************************************************************)
EXTENDS Integers, FiniteSets

CONSTANTS
    Apps,   \* the other apps
    MaxTime \* bound on the minutes that pass

VARIABLES
    created,       \* the launcher has built its widgets
    shellShown,    \* they are shown at all
    view,          \* "home" or "drawer": the flags and the visible view
    front,         \* app on the screen, "launcher" or "none"
    screens,       \* apps whose widgets can be seen
    focus,         \* the button that gets the keys: where it is and what it is for
    pendingAction, \* "none", a view, or an app to launch
    hit,           \* history: "unseen" if the last button that acted could not be seen
    now,           \* minute of the clock
    clock          \* minute the status bar shows

vars == <<created, shellShown, view, front, screens, focus, pendingAction, hit, now, clock>>

Views == {"home", "drawer"}
NoFocus == <<"none", "none">>

\* A view has a tile for each app and the button to the other view.
Tiles(v) == {<<v, a>> : a \in Apps}
Buttons(v) == Tiles(v) \cup {<<v, IF v = "home" THEN "drawer" ELSE "home">>}
ButtonOf(app) == <<app, "button">>

TypeOK ==
    /\ created \in BOOLEAN /\ shellShown \in BOOLEAN /\ view \in Views
    /\ front \in Apps \cup {"launcher", "none"} /\ screens \subseteq Apps
    /\ focus \in Buttons("home") \cup Buttons("drawer") \cup {ButtonOf(a) : a \in Apps} \cup {NoFocus}
    /\ pendingAction \in Views \cup Apps \cup {"none"} /\ hit \in {"seen", "unseen"}
    /\ now \in 0 .. MaxTime /\ clock \in 0 .. MaxTime

Init ==
    /\ created = FALSE /\ shellShown = FALSE /\ view = "home" /\ front = "none"
    /\ screens = {} /\ focus = NoFocus /\ pendingAction = "none" /\ hit = "seen"
    /\ now = 0 /\ clock = 0

Visible == (IF shellShown THEN Buttons(view) ELSE {}) \cup {ButtonOf(a) : a \in screens}

\* on_create, at boot
Create ==
    /\ ~created /\ created' = TRUE /\ shellShown' = TRUE /\ front' = "launcher" /\ clock' = now
    /\ UNCHANGED <<view, screens, focus, pendingAction, hit, now>>

\* show_view: the focus goes to a tile of the view, even if the launcher is hidden; the
\* button that closes the view is passed over.
FirstOf(v) == CHOOSE b \in Tiles(v) : TRUE

\* (mutant: the focus stays where it was)
ShowViewMutant(v) == view' = v /\ UNCHANGED focus

ShowView(v) == view' = v /\ focus' = FirstOf(v)

\* launcher_on_press, apps_on_press and home_on_press, with the window manager locked
Press(b) ==
    /\ hit' = IF b \in Visible THEN "seen" ELSE "unseen"
    /\ pendingAction' = IF b[1] \in Views THEN b[2] ELSE pendingAction

\* tk_wm_on_input: a finger, Tab or an arrow, Enter.  Enter acts on the button with the
\* focus, seen or not; without one a button that is seen gets it.
Idle == pendingAction = "none" /\ UNCHANGED <<created, shellShown, view, front, screens, now, clock>>

Touch(b) == Idle /\ b \in Visible /\ focus' = b /\ Press(b)

Move(b) == Idle /\ b \in Visible /\ focus' = b /\ UNCHANGED <<pendingAction, hit>>

Enter ==
    /\ Idle
    /\ \E b \in IF focus = NoFocus THEN Visible ELSE {focus} : focus' = b /\ Press(b)

\* handle_back_key, whatever app is on the screen
Back == Idle /\ view # "home" /\ pendingAction' = "home" /\ UNCHANGED <<focus, hit>>

-----------------------------------------------------------------------------
\* process_pending_launch
DoShow ==
    /\ pendingAction \in Views /\ ShowView(pendingAction) /\ pendingAction' = "none"
    /\ UNCHANGED <<created, shellShown, front, screens, hit, now, clock>>

\* app_manager::launch of another app: the launcher on the screen is paused and hides its
\* widgets, another app is destroyed (some leave their widgets), and only then is it seen
\* whether the new one can be created; the launcher put back is not resumed.
SwitchTo(app) ==
    /\ shellShown' = (shellShown /\ front # "launcher")
    /\ \E rest \in {screens, screens \ {front}} :
        \/ front' = app /\ screens' = rest \cup {app}
        \/ UNCHANGED front /\ screens' = rest

\* The launcher first goes home and gives the focus to its dock.
DoLaunch ==
    /\ pendingAction \in Apps /\ ShowView("home") /\ pendingAction' = "none"
    /\ IF front = pendingAction THEN UNCHANGED <<front, shellShown, screens>> ELSE SwitchTo(pendingAction)
    /\ UNCHANGED <<created, hit, now, clock>>

\* The same from the shell
Launched(app) ==
    /\ pendingAction = "none" /\ created /\ app # front /\ SwitchTo(app)
    /\ focus' = IF focus[1] \in screens \ screens' THEN NoFocus ELSE focus
    /\ UNCHANGED <<created, view, pendingAction, hit, now, clock>>

\* on_resume
Resume ==
    /\ pendingAction = "none" /\ front \in Apps
    /\ front' = "launcher" /\ shellShown' = TRUE /\ ShowView("home")
    /\ screens' \in {screens, screens \ {front}}
    /\ UNCHANGED <<created, pendingAction, hit, now, clock>>

MinutePasses ==
    /\ now < MaxTime /\ now' = now + 1
    /\ UNCHANGED <<created, shellShown, view, front, screens, focus, pendingAction, hit, clock>>

\* tk_launcher_tick: hidden or not, the status bar is set when the minute has changed.
Tick ==
    /\ created /\ clock # now /\ clock' = now
    /\ UNCHANGED <<created, shellShown, view, front, screens, focus, pendingAction, hit, now>>

Next ==
    \/ Create \/ Enter \/ Back \/ DoShow \/ DoLaunch \/ Resume \/ MinutePasses \/ Tick
    \/ \E v \in Views : \E b \in Buttons(v) : Touch(b) \/ Move(b)
    \/ \E a \in Apps : Launched(a) \/ Touch(ButtonOf(a)) \/ Move(ButtonOf(a))

Spec == Init /\ [][Next]_vars

-----------------------------------------------------------------------------

\* While the launcher is shown, whatever view it changes to, the focus is on a button that
\* can be seen, and an app that was asked for is started from the home view
\* (show_view, focus_first_descendant).
FocusIsSeen ==
    /\ shellShown => focus \in Visible \cup {NoFocus}
    /\ front # "launcher" => ~shellShown

\* What focus_first_descendant is there to prevent (tk_wm.rs:1176): Enter does not
\* activate an item the user can no longer see.
EnterHitsTheSeen == hit = "seen"

=============================================================================
