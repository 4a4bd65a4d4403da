------------------------------ MODULE Devices ------------------------------
(***************************************************************************)
(* The drivers of a board: how they start and stop (DeviceStart), how the  *)
(* inputs are polled and how pictures reach the e-paper panel beside them. *)
(*                                                                         *)
(* The render task of main.c calls the poll functions one after the other. *)
(* An interrupt sets a flag; a poll looks at the flag, reads the chip over *)
(* its bus, tells the listener and clears the flag, and an interrupt may   *)
(* come between any two of these.                                          *)
(*                                                                         *)
(* A finger is on or off; where it is does not matter.  A chip repeats its *)
(* edge while the finger stays on, and may or may not give one when it is  *)
(* lifted (drv_touch_cst328.rs:523).  The keyboard controller queues keys  *)
(* and holds its line low from the first until its status is cleared.      *)
(*                                                                         *)
(* A change marks the widget tree of tk_wm.rs dirty, the render task draws *)
(* it and flushes it to the driver's framebuffer, and a later refresh of   *)
(* drv_epaper_gdeq031t10.c brings it to the panel.  A fast refresh changes *)
(* only the pixels in which the new picture differs from the old one,      *)
(* which the driver keeps, and none is made of a picture that has not      *)
(* changed: the panel shows what it should only if the old picture is what *)
(* it showed before.                                                       *)
(*                                                                         *)
(* A picture is a number, 0 is white.  The panel keeps its picture when    *)
(* the driver stops, which puts it into a deep sleep: a reset or its power *)
(* wakes it again, the commands of the driver do not.                      *)
(***************************************************************************)
EXTENDS DeviceStart

CONSTANT MaxKeys   \* bound: keys in the queue of the keyboard controller

ASSUME KeysAssumption == MaxKeys \in Nat

VARIABLES
    finger,    \* is there a finger on the screen?
    irq,       \* the flag each driver's interrupt handler sets
    touching,  \* the touch driver's own view of the finger
    pending,   \* xpt2046: a first reading of a touch waits for the second
    heard,     \* history: the listener's last event was a TouchDown or TouchMove
    polling,   \* the driver that is being polled, and what it has read
    fifo,      \* keys in the keyboard controller
    status,    \* its K_INT bit: the line is low
    late       \* history: a key came during a poll, or a poll left keys behind

touchVars == <<finger, touching, pending, heard>>
keyVars == <<fifo, status, late>>
inputVars == <<finger, irq, touching, pending, heard, polling, fifo, status, late>>

Interrupted == {"cst328", "cst816", "xpt2046", "ft3x68", "tca8418"}
Idle == [driver |-> "none", seen |-> "nothing"]
Seen == {"nothing", "on", "off", "events", "drained", "cleared", "empty"}

InputTypeOK ==
    /\ {finger, touching, pending, heard, status, late} \subseteq BOOLEAN
    /\ irq \in [Interrupted -> BOOLEAN]
    /\ polling \in [driver : Touches \cup Keyboards \cup {"none"}, seen : Seen]
    /\ fifo \in 0..MaxKeys

InputInit ==
    /\ finger = FALSE /\ touching = FALSE /\ pending = FALSE /\ heard = FALSE
    /\ irq = [d \in Interrupted |-> FALSE]
    /\ polling = Idle
    /\ fifo = 0 /\ status = FALSE /\ late = FALSE

-----------------------------------------------------------------------------
(* Start and stop, with what they do to the state of the inputs.           *)

\* The keyboard's flag is left alone.
IrqAfterInitMutant(d) == IF d = "ft3x68" THEN [irq EXCEPT ![d] = FALSE] ELSE irq

\* The flags that an init function sets when it returns.
IrqAfterInit(d) ==
    CASE d = "ft3x68" -> [irq EXCEPT ![d] = FALSE]
      [] d = "tca8418" -> [irq EXCEPT ![d] = TRUE]
      [] OTHER -> irq

Starts ==
    \/ /\ StartAll \/ InitStep \/ InitFails \/ StopAll
       /\ UNCHANGED inputVars
    \/ /\ InitReturns
       /\ irq' = IrqAfterInit(Current)
       /\ UNCHANGED <<finger, touching, pending, heard, polling, fifo, status, late>>

\* The callback goes as well: whoever registers the next one has heard
\* nothing.  The render task is not inside a poll.
Forgets ==
    /\ polling = Idle
    /\ Deinit
    /\ irq' = IF Current \in Interrupted THEN [irq EXCEPT ![Current] = FALSE] ELSE irq
    /\ IF Current \in Touches \cap ready
       THEN touching' = FALSE /\ pending' = FALSE /\ heard' = FALSE /\ UNCHANGED finger
       ELSE UNCHANGED touchVars
    /\ IF Current \in Keyboards
       THEN fifo' = 0 /\ status' = FALSE /\ late' = FALSE
       ELSE UNCHANGED keyVars
    /\ UNCHANGED polling

-----------------------------------------------------------------------------
(* The finger, and the touch drivers.                                      *)

Touch == CHOOSE d \in Touches : d \in ToSet(board)
HasTouch == ToSet(board) \cap Touches # {}

\* The interrupt handler runs if it is installed.
Edge(d) ==
    irq' = IF d \in Interrupted /\ "isr" \in held[d] THEN [irq EXCEPT ![d] = TRUE] ELSE irq

FingerDown ==
    /\ HasTouch /\ ~finger /\ finger' = TRUE
    /\ Edge(Touch)
    /\ UNCHANGED <<startVars, touching, pending, heard, polling, keyVars>>

FingerStays ==
    /\ HasTouch /\ finger /\ Edge(Touch)
    /\ UNCHANGED <<startVars, touchVars, polling, keyVars>>

FingerUp ==
    /\ HasTouch /\ finger /\ finger' = FALSE
    /\ Edge(Touch) \/ UNCHANGED irq
    /\ UNCHANGED <<startVars, touching, pending, heard, polling, keyVars>>

\* A touch is not followed once it has begun.
Cst328PollMutant == [reads |-> "edge", clears |-> "after", failure |-> "keeps the flag"]

\* How a poll function goes about it: when it reads the chip, when it clears
\* its flag and what a failed read does.
Cst328Poll == [reads |-> "edge or touching", clears |-> "after", failure |-> "keeps the flag"]
Cst816Poll == [reads |-> "edge or touching", clears |-> "after", failure |-> "keeps the flag"]
Xpt2046Poll == [reads |-> "edge or touching", clears |-> "after", failure |-> "clears the flag"]
\* The condition is the other way round.
Ft3x68Poll == [reads |-> "edge or not touching", clears |-> "before", failure |-> "keeps the flag"]
Cst9217Poll == [reads |-> "always", clears |-> "never", failure |-> "may lift"]

PollOf == [cst328 |-> Cst328Poll, cst816 |-> Cst816Poll, xpt2046 |-> Xpt2046Poll,
           ft3x68 |-> Ft3x68Poll, cst9217 |-> Cst9217Poll]

ReadsChip(d) ==
    CASE PollOf[d].reads = "edge or touching" -> irq[d] \/ touching
      [] PollOf[d].reads = "edge or not touching" -> irq[d] \/ ~touching
      [] PollOf[d].reads = "edge" -> irq[d]
      [] OTHER -> TRUE

Cleared(d, now) == IF PollOf[d].clears = now THEN [irq EXCEPT ![d] = FALSE] ELSE irq

TouchPoll ==
    /\ phase = "up" /\ polling = Idle
    /\ \E d \in Touches \cap ready :
         /\ ReadsChip(d)
         /\ polling' = [driver |-> d, seen |-> "nothing"]
         /\ irq' = Cleared(d, "before")
    /\ UNCHANGED <<startVars, touchVars, keyVars>>

TouchReads ==
    /\ polling.driver \in Touches /\ polling.seen = "nothing"
    /\ polling' = [polling EXCEPT !.seen = IF finger THEN "on" ELSE "off"]
    /\ UNCHANGED <<startVars, irq, touchVars, keyVars>>

\* The bus fails.  An answer of cst9217 without the acknowledgement ends the
\* touch, and so does too little pressure on xpt2046.
TouchReadFails ==
    /\ polling.driver \in Touches /\ polling.seen = "nothing"
    /\ faults < MaxFaults /\ faults' = faults + 1
    /\ polling' = Idle
    /\ IF PollOf[polling.driver].failure = "keeps the flag"
       THEN UNCHANGED <<touching, heard>>
       ELSE \/ UNCHANGED <<touching, heard>>
            \/ touching' = FALSE /\ heard' = IF touching THEN FALSE ELSE heard
    /\ IF PollOf[polling.driver].failure = "clears the flag"
       THEN irq' = [irq EXCEPT ![polling.driver] = FALSE] /\ pending' = FALSE
       ELSE UNCHANGED <<irq, pending>>
    /\ UNCHANGED <<board, phase, at, starts, ready, held, finger, keyVars>>

\* The first reading is not kept.
FirstReadingMutant == polling.driver = "xpt2046" /\ ~touching

\* A resistive screen needs two readings before it believes in a touch.
FirstReading == polling.driver = "xpt2046" /\ ~touching /\ ~pending

\* The flag of the touch is not kept.
TouchReportsMutant ==
    /\ polling.driver \in Touches /\ polling.seen \in {"on", "off"}
    /\ touching' = FALSE /\ pending' = FALSE
    /\ heard' = IF polling.seen = "on" THEN TRUE ELSE IF touching THEN FALSE ELSE heard
    /\ irq' = Cleared(polling.driver, "after")
    /\ polling' = Idle
    /\ UNCHANGED <<startVars, finger, keyVars>>

TouchReports ==
    /\ polling.driver \in Touches /\ polling.seen \in {"on", "off"}
    /\ IF polling.seen = "on" /\ FirstReading
       THEN pending' = TRUE /\ UNCHANGED <<touching, heard>>
       ELSE /\ touching' = (polling.seen = "on") /\ pending' = FALSE
            /\ heard' = IF polling.seen = "on" THEN TRUE ELSE IF touching THEN FALSE ELSE heard
    /\ irq' = Cleared(polling.driver, "after")
    /\ polling' = Idle
    /\ UNCHANGED <<startVars, finger, keyVars>>

-----------------------------------------------------------------------------
(* The keyboards.                                                          *)

\* The controller scans from the third step of its initialisation on.
Scanning(k) ==
    \/ k \in ready
    \/ k = "tca8418" /\ phase = "starting" /\ Current = k /\ at.step >= 3

\* A key gives an edge only if the line was high.
Key ==
    /\ \E k \in Keyboards \cap ToSet(board) :
         /\ Scanning(k)
         /\ IF status THEN UNCHANGED irq ELSE Edge(k)
         /\ late' = (late \/ (polling.driver = k /\ k = "tca8418"))
    /\ fifo < MaxKeys /\ fifo' = fifo + 1
    /\ status' = TRUE
    /\ UNCHANGED <<startVars, touchVars, polling>>

Tca8418Poll ==
    /\ phase = "up" /\ polling = Idle
    /\ "tca8418" \in ready /\ irq["tca8418"]
    /\ polling' = [driver |-> "tca8418", seen |-> IF status THEN "events" ELSE "empty"]
    /\ UNCHANGED <<startVars, irq, touchVars, keyVars>>

\* A failed read of the status or the count leaves everything for the next poll.
Tca8418Fails ==
    /\ polling = [driver |-> "tca8418", seen |-> "events"]
    /\ faults < MaxFaults /\ faults' = faults + 1
    /\ polling' = Idle
    /\ UNCHANGED <<board, phase, at, starts, ready, held, irq, touchVars, keyVars>>

\* Reads two slots, whatever is in them.
Tca8418DrainsMutant ==
    /\ polling = [driver |-> "tca8418", seen |-> "events"]
    /\ fifo' = fifo - 2
    /\ polling' = [polling EXCEPT !.seen = "drained"]
    /\ UNCHANGED <<startVars, irq, touchVars, status, late>>

\* A failed read of an event ends the loop but not the poll.
Tca8418Drains ==
    /\ polling = [driver |-> "tca8418", seen |-> "events"]
    /\ \/ fifo' = 0 /\ UNCHANGED <<faults, late>>
       \/ /\ faults < MaxFaults /\ faults' = faults + 1
          /\ fifo' \in 1..fifo /\ late' = TRUE
    /\ polling' = [polling EXCEPT !.seen = "drained"]
    /\ UNCHANGED <<board, phase, at, starts, ready, held, irq, touchVars, status>>

\* What the chip does when it is told to clear a status whose queue is not
\* empty is left open.
Tca8418Clears ==
    /\ polling = [driver |-> "tca8418", seen |-> "drained"]
    /\ status' \in IF fifo = 0 THEN {FALSE} ELSE BOOLEAN
    /\ polling' = [polling EXCEPT !.seen = "cleared"]
    /\ UNCHANGED <<startVars, irq, touchVars, fifo, late>>

Tca8418Returns ==
    /\ polling.driver = "tca8418" /\ polling.seen \in {"cleared", "empty"}
    /\ irq' = [irq EXCEPT !["tca8418"] = FALSE]
    /\ polling' = Idle
    /\ UNCHANGED <<startVars, touchVars, keyVars>>

\* No interrupt: the bus is read until it has no key.
CardkbPoll ==
    /\ phase = "up" /\ polling = Idle
    /\ "cardkb" \in ready /\ fifo > 0
    /\ \/ fifo' = 0 /\ UNCHANGED faults
       \/ faults < MaxFaults /\ faults' = faults + 1 /\ fifo' \in 1..fifo
    /\ status' = (fifo' > 0)
    /\ UNCHANGED <<board, phase, at, starts, ready, held, irq, touchVars, polling, late>>

PollGoesOn == TouchReads \/ TouchReports \/ Tca8418Drains \/ Tca8418Clears \/ Tca8418Returns
Polls == TouchPoll \/ Tca8418Poll \/ PollGoesOn \/ TouchReadFails \/ Tca8418Fails \/ CardkbPoll

InputNext ==
    \/ Starts \/ Forgets
    \/ Services /\ UNCHANGED inputVars
    \/ FingerDown \/ FingerStays \/ FingerUp \/ Key
    \/ Polls

-----------------------------------------------------------------------------
(* The e-paper panel.                                                       *)

CONSTANT Pictures  \* what the widgets may look like

ASSUME PicturesAssumption == Pictures \subseteq Nat \ {0} /\ Pictures # {}

VARIABLES
    picture,  \* what the widgets look like
    dirty,    \* TkWmState.dirty
    needed,   \* REFRESH_NEEDED
    fb,       \* the driver's framebuffer
    old,      \* its fb_old
    shown,    \* what the panel shows
    deaf,     \* the panel is in its deep sleep
    mode,     \* refresh_mode
    first,    \* first_refresh_done
    missed    \* history: a refresh failed since the last one that worked

panelVars == <<picture, dirty, needed, fb, old, shown, deaf, mode, first, missed>>

All == Pictures \cup {0}

PanelTypeOK ==
    /\ picture \in Pictures /\ {fb, old, shown} \subseteq All
    /\ {dirty, needed, deaf, first, missed} \subseteq BOOLEAN
    /\ mode \in {"full", "fast", "partial"}

PanelInit ==
    /\ picture = (CHOOSE p \in Pictures : TRUE) /\ dirty = TRUE /\ needed = FALSE
    /\ fb = 0 /\ old = 0 /\ mode = "full" /\ first = FALSE
    /\ shown \in IF "gdeq" \in ToSet(board) THEN All ELSE {0}
    /\ deaf = FALSE /\ missed = FALSE

\* A driver that goes on as it stopped.
GdeqStartsMutant == fb' = 0 /\ old' = 0 /\ UNCHANGED <<mode, first>>

\* The driver's state after its init function.
GdeqStarts == fb' = 0 /\ old' = 0 /\ mode' = "full" /\ first' = FALSE

\* The window manager, which comes up after the drivers, has all to draw.
WmStarts == dirty' = TRUE

\* The panel's reset may be wired, or its power have been off meanwhile.
PanelStarts ==
    /\ GdeqStarts /\ WmStarts
    /\ deaf' \in {deaf, FALSE}
    /\ UNCHANGED <<picture, needed, shown, missed>>

\* Nobody looks whether the command for the deep sleep arrives.
PanelStops ==
    /\ deaf' \in {deaf, TRUE}
    /\ UNCHANGED <<picture, dirty, needed, fb, old, shown, mode, first, missed>>

PanelRuns == phase = "up" /\ "gdeq" \in ready

Draw ==
    /\ PanelRuns /\ picture' \in Pictures \ {picture} /\ dirty' = TRUE
    /\ UNCHANGED <<startVars, needed, fb, old, shown, deaf, mode, first, missed>>

\* Asks for no refresh.
RenderMutant ==
    /\ PanelRuns /\ dirty /\ dirty' = FALSE
    /\ fb' = picture
    /\ UNCHANGED <<startVars, picture, needed, old, shown, deaf, mode, first, missed>>

\* Drawing and flushing the whole screen.
Render ==
    /\ PanelRuns /\ dirty /\ dirty' = FALSE
    /\ fb' = picture /\ needed' = TRUE
    /\ UNCHANGED <<startVars, picture, old, shown, deaf, mode, first, missed>>

SetRefreshMode ==
    /\ PanelRuns /\ mode' \in {"full", "fast", "partial"} \ {mode}
    /\ UNCHANGED <<startVars, picture, dirty, needed, fb, old, shown, deaf, first, missed>>

\* tk_wm_do_refresh takes the flag back before it asks the driver, and does
\* not look at what the driver answers.
Asked == PanelRuns /\ needed /\ needed' = FALSE

\* The driver sends nothing, whatever the mode, if the picture has not changed.
NothingNew == first /\ fb = old

RefreshSkips ==
    /\ Asked /\ NothingNew
    /\ missed' = FALSE
    /\ UNCHANGED <<startVars, picture, dirty, fb, old, shown, deaf, mode, first>>

\* Only the command for the refresh changes the panel, and an error of any before it
\* ends the call; a panel that does not hear is not noticed.
Refresh ==
    /\ Asked /\ ~NothingNew
    /\ shown' = IF deaf THEN shown ELSE fb
    /\ old' = fb /\ first' = TRUE
    /\ mode' = IF mode = "full" THEN "fast" ELSE mode
    /\ missed' = FALSE
    /\ UNCHANGED <<startVars, picture, dirty, fb, deaf>>

RefreshFails ==
    /\ Asked /\ ~NothingNew
    /\ faults < MaxFaults /\ faults' = faults + 1
    /\ missed' = TRUE
    /\ UNCHANGED <<board, phase, at, starts, ready, held>>
    /\ UNCHANGED <<picture, dirty, fb, old, shown, deaf, mode, first>>

PanelNext == Draw \/ Render \/ SetRefreshMode \/ RefreshSkips \/ Refresh \/ RefreshFails

-----------------------------------------------------------------------------
(* The board.                                                              *)

\* The drivers that the profiles in sdcard_layout/config/boards list, but for the radio and
\* the modem; the T-Deck Pro, whose parts do not meet, in two halves.
BoardProfiles ==
    {<<"ssd1306">>,
     <<"st7789", "cardkb", "sdcard">>,
     <<"st7789", "cst816", "sdcard">>,
     <<"ili9341", "xpt2046", "sdcard">>,
     <<"tca8418", "cst328", "gps", "power">>,
     <<"gdeq", "audio", "power", "bhi260ap", "sdcard">>,
     <<"co5300", "cst9217", "gps", "bhi260ap">>,
     <<"co5300", "ft3x68", "qmi8658", "sdcard">>}

vars == <<startVars, inputVars, panelVars>>

TypeOK == StartTypeOK /\ InputTypeOK /\ PanelTypeOK

Init == StartInit /\ InputInit /\ PanelInit

InputSteps ==
    /\ InputNext
    /\ CASE "gdeq" \in ready' \ ready -> PanelStarts
         [] "gdeq" \in ready \ ready' -> PanelStops
         [] OTHER -> UNCHANGED panelVars

PanelSteps == PanelNext /\ UNCHANGED inputVars

Next == InputSteps \/ PanelSteps

\* The render task polls every input in each of its rounds, which is strong
\* fairness of a poll that others come between, and draws and refreshes for
\* ever; a chip under a finger repeats its edge.  Failures, fingers and callers
\* promise nothing.
Fairness ==
    /\ SF_vars(TouchPoll /\ UNCHANGED panelVars)
    /\ SF_vars(Tca8418Poll /\ UNCHANGED panelVars)
    /\ WF_vars(PollGoesOn /\ UNCHANGED panelVars)
    /\ WF_vars(CardkbPoll /\ fifo' = 0 /\ UNCHANGED panelVars)
    /\ WF_vars(FingerStays /\ UNCHANGED panelVars)
    /\ WF_vars((Render \/ RefreshSkips \/ Refresh) /\ UNCHANGED inputVars)

Spec == Init /\ [][Next]_vars /\ Fairness

-----------------------------------------------------------------------------

Settled(d) == phase \in {"up", "down"} \/ (phase = "starting" /\ at.driver # 0 /\ Current # d)

\* A driver that did not come up, or was stopped, holds nothing of the bus, the
\* interrupt controller or the heap, whichever step failed.  ft3x68_init does
\* not keep this (drv_touch_ft3x68.rs:320).
NothingIsLeaked ==
    \A d \in ToSet(board) \ {"ft3x68"} : Settled(d) /\ d \notin ready => held[d] = {}

\* Whoever listens believes in a finger exactly when the driver does, so every
\* TouchDown is followed by a TouchUp before the next TouchDown.
ListenerAgrees == Touches \cap ready # {} => heard = touching

\* A finger that is lifted is reported as lifted, with or without an edge.
\* ft3x68_poll waits for an edge that may not come (drv_touch_ft3x68.rs:372).
LiftIsReported ==
    (touching /\ ~finger) ~> (~touching \/ finger \/ phase # "up" \/ "ft3x68" \in ready)

\* A key is read from the controller unless it came while a poll of it went on or
\* a poll gave up in the middle.
KeysAreRead ==
    (fifo > 0 /\ phase = "up" /\ Keyboards \cap ready # {}) ~> (fifo = 0 \/ late \/ phase # "up")

\* What fingers and keys do is reported, in order and in the end (the polls of the
\* touch and keyboard drivers).
InputIsReported == []ListenerAgrees /\ LiftIsReported /\ KeysAreRead

\* The driver knows what a panel that hears it shows, also after refreshes that failed
\* and after a restart, so that a fast refresh changes the right pixels and the one that
\* is left out was not needed (gdeq031t10_init, gdeq031t10_refresh).
OldPictureIsShown == PanelRuns /\ first /\ ~deaf => old = shown

\* What the widgets look like is what the panel shows in the end, unless it sleeps or a
\* refresh failed: nobody asks again for the one that did.
ScreenCatchesUp ==
    \A p \in Pictures :
        (PanelRuns /\ picture = p)
            ~> (shown = p \/ picture # p \/ missed \/ deaf \/ ~PanelRuns)

=============================================================================
