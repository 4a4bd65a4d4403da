---------------------------- MODULE DeviceStart ----------------------------
(***************************************************************************)
(* How the drivers of a board are initialised and stopped: the start and   *)
(* stop of hal_registry.rs and, as data, the init and deinit functions of  *)
(* the drivers in drv_*.rs and drv_epaper_gdeq031t10.c.                    *)
(*                                                                         *)
(* An init function is the sequence of its fallible steps.  A step takes   *)
(* resources when it succeeds, and gives some back when it fails; steps    *)
(* that neither take nor differ in what they give back are one.  Any step  *)
(* may fail, at most MaxFaults times in a behaviour.                       *)
(***************************************************************************)
EXTENDS Integers, Sequences, FiniteSets, SequencesExt

CONSTANTS
    Boards,     \* the boards to check: drivers in the order of the registry
    MaxStarts,  \* bound: how often start_all is called
    MaxFaults   \* bound: how many steps fail

VARIABLES
    board,   \* the drivers that are registered
    phase,   \* "down", "starting", "up" (start_all has returned) or "stopping"
    at,      \* the driver start_all or stop_all is at, and its step
    starts,  \* calls of start_all so far
    ready,   \* the drivers whose initialized flag is set
    held,    \* what each driver has taken and not given back
    faults   \* steps that failed so far

startVars == <<board, phase, at, starts, ready, held, faults>>

-----------------------------------------------------------------------------
(* The drivers.                                                            *)

Step(takes, undo) == [takes |-> takes, undo |-> undo, works |-> TRUE]
NotSupported == [takes |-> {}, undo |-> {}, works |-> FALSE]

\* Forgets the device when the interrupt cannot be set up.
Cst328InitMutant == <<Step({}, {}), Step({"dev"}, {}), Step({}, {"dev"}), Step({"isr"}, {})>>

\* Reset pin, device on the bus, probe and mode, interrupt.
Cst328Init == <<Step({}, {}), Step({"dev"}, {}), Step({}, {"dev"}), Step({"isr"}, {"dev"})>>
Cst328Deinit == {"isr", "dev"}

Cst816Init == <<Step({}, {}), Step({"dev"}, {}), Step({}, {"dev"}), Step({"isr"}, {"dev"})>>
Cst816Deinit == {"isr", "dev"}

\* The bus is the touch controller's own.
Xpt2046Init == <<Step({"bus"}, {}), Step({"dev"}, {"bus"}), Step({"isr"}, {"dev", "bus"})>>
Xpt2046Deinit == {"isr", "dev", "bus"}

\* No interrupt: it is read at every poll.
Cst9217Init == <<Step({}, {}), Step({"dev"}, {}), Step({}, {"dev"})>>
Cst9217Deinit == {"dev"}

\* A failure to set up the interrupt leaves the device on the bus.
Ft3x68Init == <<Step({}, {}), Step({"dev"}, {}), Step({}, {"dev"}), Step({"isr"}, {})>>
Ft3x68Deinit == {"isr", "dev"}

Tca8418Init == <<Step({"dev"}, {}), Step({}, {"dev"}), Step({"isr"}, {"dev"})>>
Tca8418Deinit == {"isr", "dev"}

CardkbInit == <<Step({"dev"}, {})>>
CardkbDeinit == {"dev"}

\* Backlight, panel I/O, panel, reset and commands.
Ili9341Commands == Step({}, {"panel", "io"})
Ili9341Init == <<Step({}, {}), Step({"io"}, {}), Step({"panel"}, {"io"}), Ili9341Commands>>
Ili9341Deinit == {"panel", "io"}

St7789Init == <<Step({}, {}), Step({"io"}, {}), Step({"panel"}, {"io"}), Step({}, {"panel", "io"})>>
St7789Deinit == {"panel", "io"}

\* The bus, which other devices share, is never given back.
Co5300Commands == Step({}, {"io"})
Co5300Init == <<Step({}, {}), Step({"io"}, {}), Co5300Commands>>
Co5300Deinit == {"io"}

Ssd1306Commands == Step({}, {"dev"})
Ssd1306Init == <<Step({"dev"}, {}), Ssd1306Commands>>
Ssd1306Deinit == {"dev"}

\* The two framebuffers, pins, device on the bus and commands.
GdeqInit ==
    <<Step({"frames"}, {}), Step({}, {"frames"}), Step({"dev"}, {"frames"}),
      Step({}, {"dev", "frames"})>>
GdeqDeinit == {"dev", "frames"}

GpsInit == <<Step({}, {}), Step({"uart"}, {})>>
GpsDeinit == {"task", "uart"}

AudioInit == <<Step({"channel"}, {}), Step({}, {"channel"})>>
AudioDeinit == {"running", "channel"}

\* The calibration, which may be missing, goes with the unit.
PowerInit == <<Step({"adc"}, {}), Step({}, {"adc"}), Step({}, {"adc"})>>
PowerDeinit == {"adc"}

QmiInit == <<Step({"dev"}, {}), Step({}, {"dev"})>>
QmiDeinit == {"dev"}

Bhi260apInit == <<NotSupported>>
Bhi260apDeinit == {}

\* Nothing can fail before the card is mounted.
SdcardInit == <<>>
SdcardDeinit == {"card"}

InitOf == [cst328 |-> Cst328Init, cst816 |-> Cst816Init, xpt2046 |-> Xpt2046Init,
           cst9217 |-> Cst9217Init, ft3x68 |-> Ft3x68Init, tca8418 |-> Tca8418Init,
           cardkb |-> CardkbInit, ili9341 |-> Ili9341Init, st7789 |-> St7789Init,
           co5300 |-> Co5300Init, ssd1306 |-> Ssd1306Init, gdeq |-> GdeqInit,
           gps |-> GpsInit, audio |-> AudioInit, power |-> PowerInit,
           qmi8658 |-> QmiInit, bhi260ap |-> Bhi260apInit, sdcard |-> SdcardInit]

DeinitOf == [cst328 |-> Cst328Deinit, cst816 |-> Cst816Deinit, xpt2046 |-> Xpt2046Deinit,
             cst9217 |-> Cst9217Deinit, ft3x68 |-> Ft3x68Deinit, tca8418 |-> Tca8418Deinit,
             cardkb |-> CardkbDeinit, ili9341 |-> Ili9341Deinit, st7789 |-> St7789Deinit,
             co5300 |-> Co5300Deinit, ssd1306 |-> Ssd1306Deinit, gdeq |-> GdeqDeinit,
             gps |-> GpsDeinit, audio |-> AudioDeinit, power |-> PowerDeinit,
             qmi8658 |-> QmiDeinit, bhi260ap |-> Bhi260apDeinit, sdcard |-> SdcardDeinit]

Drivers == DOMAIN InitOf
Displays == {"ili9341", "st7789", "co5300", "ssd1306", "gdeq"}
Touches == {"cst328", "cst816", "xpt2046", "cst9217", "ft3x68"}
Keyboards == {"tca8418", "cardkb"}
Resources == {"isr", "dev", "bus", "io", "panel", "frames", "uart", "task", "channel", "running",
              "adc", "card"}

\* Without its display or an input, start_all gives up.
Fatal == Displays \cup Touches \cup Keyboards

ASSUME BoardsAssumption ==
    \A b \in Boards : b \in Seq(Drivers) /\ b # <<>> /\ IsInjective(b)
ASSUME BoundsAssumption == MaxStarts \in Nat /\ MaxFaults \in Nat

-----------------------------------------------------------------------------

StartTypeOK ==
    /\ board \in Boards
    /\ phase \in {"down", "starting", "up", "stopping"}
    /\ at \in [driver : 0..Len(board) + 1, step : 1..5]
    /\ starts \in 0..MaxStarts
    /\ ready \subseteq ToSet(board)
    /\ held \in [Drivers -> SUBSET Resources]
    /\ faults \in 0..MaxFaults

StartInit ==
    /\ board \in Boards
    /\ phase = "down" /\ at = [driver |-> 0, step |-> 1] /\ starts = 0
    /\ ready = {} /\ held = [d \in Drivers |-> {}] /\ faults = 0

Current == board[at.driver]
CurrentStep == InitOf[Current][at.step]

StartAll ==
    /\ phase = "down" /\ starts < MaxStarts
    /\ starts' = starts + 1
    /\ phase' = "starting" /\ at' = [driver |-> 1, step |-> 1]
    /\ UNCHANGED <<board, ready, held, faults>>

\* The next driver, or the end of start_all.
Onward ==
    IF at.driver = Len(board)
    THEN phase' = "up" /\ at' = [driver |-> 0, step |-> 1]
    ELSE phase' = phase /\ at' = [driver |-> at.driver + 1, step |-> 1]

InitStep ==
    /\ phase = "starting" /\ at.step <= Len(InitOf[Current]) /\ CurrentStep.works
    /\ held' = [held EXCEPT ![Current] = @ \cup CurrentStep.takes]
    /\ at' = [at EXCEPT !.step = @ + 1]
    /\ UNCHANGED <<board, phase, starts, ready, faults>>

InitFails ==
    /\ phase = "starting" /\ at.step <= Len(InitOf[Current])
    /\ IF CurrentStep.works THEN faults < MaxFaults /\ faults' = faults + 1 ELSE UNCHANGED faults
    /\ held' = [held EXCEPT ![Current] = @ \ CurrentStep.undo]
    /\ IF Current \in Fatal
       THEN phase' = "up" /\ at' = [driver |-> 0, step |-> 1]
       ELSE Onward
    /\ UNCHANGED <<board, starts, ready>>

\* Storage is mounted as well; start_all does not ask whether that worked.
InitReturns ==
    /\ phase = "starting" /\ at.step > Len(InitOf[Current])
    /\ ready' = ready \cup {Current}
    /\ \E mounted \in IF Current = "sdcard" THEN BOOLEAN ELSE {FALSE} :
         held' = [held EXCEPT ![Current] = @ \cup IF mounted THEN {"card"} ELSE {}]
    /\ Onward
    /\ UNCHANGED <<board, starts, faults>>

StopAll ==
    /\ phase = "up"
    /\ phase' = "stopping" /\ at' = [driver |-> Len(board), step |-> 1]
    /\ UNCHANGED <<board, starts, ready, held, faults>>

\* A deinit function does nothing unless the driver is initialised.
Deinit ==
    /\ phase = "stopping"
    /\ held' = [held EXCEPT ![Current] = @ \ IF Current \in ready THEN DeinitOf[Current] ELSE {}]
    /\ ready' = ready \ {Current}
    /\ IF at.driver = 1
       THEN phase' = "down" /\ at' = [driver |-> 0, step |-> 1]
       ELSE phase' = phase /\ at' = [at EXCEPT !.driver = @ - 1]
    /\ UNCHANGED <<board, starts, faults>>

-----------------------------------------------------------------------------
(* What a service takes and gives back while its driver is initialised.    *)

Takes(d, r) ==
    /\ phase = "up" /\ d \in ready /\ r \notin held[d]
    /\ held' = [held EXCEPT ![d] = @ \cup {r}]
    /\ UNCHANGED <<board, phase, at, starts, ready, faults>>

Gives(d, r) ==
    /\ phase = "up" /\ d \in ready /\ r \in held[d]
    /\ held' = [held EXCEPT ![d] = @ \ {r}]
    /\ UNCHANGED <<board, phase, at, starts, ready, faults>>

GpsEnable == Takes("gps", "task")
GpsDisable == Gives("gps", "task")
AudioPlay == Takes("audio", "running")
AudioStop == Gives("audio", "running")
\* The channel stays disabled, whether or not the new format is accepted.
AudioConfigure == Gives("audio", "running")
SdcardMount == Takes("sdcard", "card")
SdcardUnmount == Gives("sdcard", "card")

Services ==
    \/ GpsEnable \/ GpsDisable \/ AudioPlay \/ AudioStop \/ AudioConfigure
    \/ SdcardMount \/ SdcardUnmount

=============================================================================
