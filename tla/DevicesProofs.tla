--------------------------- MODULE DevicesProofs ---------------------------
(***************************************************************************)
(* That the drivers of a board leak nothing, whichever steps of their init *)
(* functions fail, that touches are told of in order, and that a fast      *)
(* refresh starts from what the panel shows: for every board, and any      *)
(* number of starts, failures, keys and pictures.                          *)
(*                                                                         *)
(* The three parts share the phase and what is ready, and only the start   *)
(* changes those, so each has an inductive invariant of its own.  That of  *)
(* the start says what a driver holds in the middle of its init function,  *)
(* too: no more than the steps done so far took, which is what the error   *)
(* path of the next one gives back.                                        *)
(*                                                                         *)
(* Below, with the state of its own each has, what is made of the devices: *)
(* the Wi-Fi link and the Bluetooth link, the display server, the table of *)
(* drivers that may be replaced, the logs, what there is for an emergency, *)
(* and the list of notifications.                                          *)
(***************************************************************************)
EXTENDS Devices, Sequences, FiniteSetTheorems, WellFoundedInduction, TLAPS

-----------------------------------------------------------------------------
(* The invariant of the start                                              *)

\* What the first steps of a driver's init function take.
Taken(d, k) == UNION {InitOf[d][i].takes : i \in 1..k - 1}

\* start_all and stop_all are at a driver of the board, at a step of its init function.
WhereItIs ==
    /\ phase \in {"starting", "stopping"} => at.driver \in 1..Len(board)
    /\ phase = "starting" => at.step <= Len(InitOf[Current]) + 1

\* Before start_all no driver is ready, in start_all none that it has still to come to,
\* and in stop_all none that it has been at.
ReadyInOrder ==
    /\ phase = "down" => ready = {}
    /\ phase = "starting" => \A i \in at.driver..Len(board) : board[i] \notin ready
    /\ phase = "stopping" => \A i \in at.driver + 1..Len(board) : board[i] \notin ready

\* A driver holds no more than its deinit function gives back; nothing at all when it is
\* not ready, unless start_all is at it: then no more than the steps it has done took.
HoldingsAreKnown ==
    /\ \A d \in Drivers : held[d] \subseteq DeinitOf[d]
    /\ \A d \in ToSet(board) \ {"ft3x68"} :
         d \notin ready /\ ~(phase = "starting" /\ d = Current) => held[d] = {}
    /\ phase = "starting" /\ Current # "ft3x68" => held[Current] \subseteq Taken(Current, at.step)

StartInv == StartTypeOK /\ WhereItIs /\ ReadyInOrder /\ HoldingsAreKnown

\* What start_all, stop_all and the services do to the state of DeviceStart, and what the
\* rest does: a failed call is counted.
StartSteps == StartAll \/ InitStep \/ InitFails \/ InitReturns \/ StopAll \/ Deinit \/ Services

CountsFaults ==
    /\ UNCHANGED <<board, phase, at, starts, ready, held>>
    /\ faults' = faults \/ (faults < MaxFaults /\ faults' = faults + 1)

-----------------------------------------------------------------------------
(* The drivers                                                             *)

\* An init function has at most four steps, takes no more than its deinit function gives
\* back, and gives back what the steps before took when one fails; all but ft3x68_init do.
Keeps(d) ==
    /\ Len(InitOf[d]) \in 0..4
    /\ DeinitOf[d] \subseteq Resources
    /\ \A i \in 1..Len(InitOf[d]) :
         /\ InitOf[d][i].takes \subseteq DeinitOf[d]
         /\ d # "ft3x68" => \A j \in 1..i - 1 : InitOf[d][j].takes \subseteq InitOf[d][i].undo

\* The tables of the drivers, row by row.
LEMMA DriversKeep == \A d \in Drivers : Keeps(d)
<1>1. Keeps("cst328")
  BY DEF Keeps, InitOf, DeinitOf, Cst328Init, Cst328Deinit, Step, NotSupported, Resources
<1>2. Keeps("cst816")
  BY DEF Keeps, InitOf, DeinitOf, Cst816Init, Cst816Deinit, Step, NotSupported, Resources
<1>3. Keeps("xpt2046")
  BY DEF Keeps, InitOf, DeinitOf, Xpt2046Init, Xpt2046Deinit, Step, NotSupported, Resources
<1>4. Keeps("cst9217")
  BY DEF Keeps, InitOf, DeinitOf, Cst9217Init, Cst9217Deinit, Step, NotSupported, Resources
<1>5. Keeps("ft3x68")
  BY DEF Keeps, InitOf, DeinitOf, Ft3x68Init, Ft3x68Deinit, Step, NotSupported, Resources
<1>6. Keeps("tca8418")
  BY DEF Keeps, InitOf, DeinitOf, Tca8418Init, Tca8418Deinit, Step, NotSupported, Resources
<1>7. Keeps("cardkb")
  BY DEF Keeps, InitOf, DeinitOf, CardkbInit, CardkbDeinit, Step, NotSupported, Resources
<1>8. Keeps("ili9341")
  BY DEF Keeps, InitOf, DeinitOf, Ili9341Init, Ili9341Deinit, Ili9341Commands, Step, NotSupported, Resources
<1>9. Keeps("st7789")
  BY DEF Keeps, InitOf, DeinitOf, St7789Init, St7789Deinit, Step, NotSupported, Resources
<1>10. Keeps("co5300")
  BY DEF Keeps, InitOf, DeinitOf, Co5300Init, Co5300Deinit, Co5300Commands, Step, NotSupported, Resources
<1>11. Keeps("ssd1306")
  BY DEF Keeps, InitOf, DeinitOf, Ssd1306Init, Ssd1306Deinit, Ssd1306Commands, Step, NotSupported, Resources
<1>12. Keeps("gdeq")
  BY DEF Keeps, InitOf, DeinitOf, GdeqInit, GdeqDeinit, Step, NotSupported, Resources
<1>13. Keeps("gps")
  BY DEF Keeps, InitOf, DeinitOf, GpsInit, GpsDeinit, Step, NotSupported, Resources
<1>14. Keeps("audio")
  BY DEF Keeps, InitOf, DeinitOf, AudioInit, AudioDeinit, Step, NotSupported, Resources
<1>15. Keeps("power")
  BY DEF Keeps, InitOf, DeinitOf, PowerInit, PowerDeinit, Step, NotSupported, Resources
<1>16. Keeps("qmi8658")
  BY DEF Keeps, InitOf, DeinitOf, QmiInit, QmiDeinit, Step, NotSupported, Resources
<1>17. Keeps("bhi260ap")
  BY DEF Keeps, InitOf, DeinitOf, Bhi260apInit, Bhi260apDeinit, Step, NotSupported, Resources
<1>18. Keeps("sdcard")
  BY DEF Keeps, InitOf, DeinitOf, SdcardInit, SdcardDeinit, Step, NotSupported, Resources
<1> QED
  BY <1>1, <1>2, <1>3, <1>4, <1>5, <1>6, <1>7, <1>8, <1>9, <1>10, <1>11, <1>12, <1>13, <1>14, <1>15, <1>16, <1>17, <1>18 DEF Drivers, InitOf

\* The same for the steps done so far together.
LEMMA TakenSteps ==
    ASSUME NEW d \in Drivers
    PROVE  /\ Taken(d, 1) = {}
           /\ \A k \in 1..Len(InitOf[d]) :
                /\ Taken(d, k) \cup InitOf[d][k].takes \subseteq Taken(d, k + 1)
                /\ d # "ft3x68" => Taken(d, k) \subseteq InitOf[d][k].undo
<1>1. Taken(d, 1) = {}
  BY DEF Taken
<1>2. ASSUME NEW k \in 1..Len(InitOf[d])
      PROVE  /\ Taken(d, k) \cup InitOf[d][k].takes \subseteq Taken(d, k + 1)
             /\ d # "ft3x68" => Taken(d, k) \subseteq InitOf[d][k].undo
  <2>1. Len(InitOf[d]) \in 0..4 /\ k \in 1..4 /\ Keeps(d)
    BY DriversKeep DEF Keeps
  <2>2. 1..k - 1 \subseteq 1..(k + 1) - 1 /\ k \in 1..(k + 1) - 1
    BY <2>1
  <2>3. Taken(d, k) \cup InitOf[d][k].takes \subseteq Taken(d, k + 1)
    BY <2>2 DEF Taken
  <2>4. d # "ft3x68" => Taken(d, k) \subseteq InitOf[d][k].undo
    BY <1>2, <2>1 DEF Taken, Keeps
  <2> QED BY <2>3, <2>4
<1> QED BY <1>1, <1>2

\* A board has a driver at each of its places, and no driver at two.
LEMMA BoardIsSound ==
    ASSUME board \in Boards
    PROVE  /\ Len(board) \in Nat \ {0} /\ DOMAIN board = 1..Len(board)
           /\ \A i \in 1..Len(board) : board[i] \in Drivers /\ board[i] \in ToSet(board)
           /\ \A d \in ToSet(board) : d \in Drivers /\ \E i \in 1..Len(board) : board[i] = d
           /\ \A i, j \in 1..Len(board) : board[i] = board[j] => i = j
<1>1. board \in Seq(Drivers) /\ board # <<>> /\ IsInjective(board)
  BY BoardsAssumption
<1>2. Len(board) \in Nat \ {0} /\ DOMAIN board = 1..Len(board)
  BY <1>1
<1>3. \A i \in 1..Len(board) : board[i] \in Drivers
  BY <1>1
<1> QED BY <1>1, <1>2, <1>3 DEF ToSet, IsInjective

-----------------------------------------------------------------------------
(* Start and stop                                                          *)

LEMMA StartHolds == StartInit => StartInv
<1> SUFFICES ASSUME StartInit PROVE StartInv
  OBVIOUS
<1>1. StartTypeOK
  BY BoardIsSound, BoundsAssumption DEF StartInit, StartTypeOK
<1>2. WhereItIs /\ ReadyInOrder
  BY DEF StartInit, WhereItIs, ReadyInOrder
<1>3. HoldingsAreKnown
  BY BoardIsSound DEF StartInit, HoldingsAreKnown
<1> QED BY <1>1, <1>2, <1>3 DEF StartInv

LEMMA StartAllKeeps == StartInv /\ StartAll => StartInv'
<1> SUFFICES ASSUME StartInv, StartAll PROVE StartInv'
  OBVIOUS
<1> USE BoardIsSound DEF StartInv, StartTypeOK, StartAll
<1>1. board' = board /\ Current' = board[1] /\ Current' \in Drivers /\ ready = {}
  BY DEF Current, ReadyInOrder
<1>2. StartTypeOK'
  BY BoundsAssumption
<1>3. WhereItIs'
  BY <1>1, DriversKeep DEF WhereItIs, Keeps
<1>4. ReadyInOrder'
  BY <1>1 DEF ReadyInOrder
<1>5. held[Current'] \subseteq {} \/ Current' = "ft3x68"
  BY <1>1 DEF HoldingsAreKnown
<1>6. HoldingsAreKnown'
  BY <1>1, <1>5 DEF HoldingsAreKnown
<1> QED BY <1>2, <1>3, <1>4, <1>6

\* The driver start_all is at.
LEMMA CurrentIsKnown ==
    ASSUME StartInv, phase \in {"starting", "stopping"}
    PROVE  /\ at.driver \in 1..Len(board) /\ Len(board) \in Nat \ {0}
           /\ Current = board[at.driver] /\ Current \in Drivers /\ Current \in ToSet(board)
           /\ phase = "starting" => /\ at.step \in 1..Len(InitOf[Current]) + 1
                                    /\ Len(InitOf[Current]) \in 0..4 /\ Current \notin ready
BY BoardIsSound, DriversKeep
   DEF StartInv, StartTypeOK, WhereItIs, ReadyInOrder, Current, Keeps

LEMMA InitStepKeeps == StartInv /\ InitStep => StartInv'
<1> SUFFICES ASSUME StartInv, InitStep PROVE StartInv'
  OBVIOUS
<1> USE CurrentIsKnown DEF StartInv, StartTypeOK, InitStep
<1>1. Current' = Current /\ CurrentStep = InitOf[Current][at.step] /\ at.step \in 1..Len(InitOf[Current])
  BY DEF Current, CurrentStep
<1>2. CurrentStep.takes \subseteq DeinitOf[Current] /\ DeinitOf[Current] \subseteq Resources
  BY <1>1, DriversKeep DEF Keeps
<1>3. StartTypeOK'
  <2>1. held' \in [Drivers -> SUBSET Resources]
    BY <1>2
  <2>2. at' \in [driver : 0..Len(board) + 1, step : 1..5]
    <3>1. \E n \in 0..4 : at.step \in 1..n
      BY <1>1
    <3>2. \A n \in 0..4 : \A k \in 1..n : k + 1 \in 1..5
      BY ONLY TRUE
    <3>3. at.step + 1 \in 1..5
      BY ONLY <3>1, <3>2
    <3>4. at \in [driver : 0..Len(board) + 1, step : 1..5] /\ at' = [at EXCEPT !.step = at.step + 1]
      OBVIOUS
    <3> QED BY ONLY <3>3, <3>4
  <2>3. UNCHANGED <<board, phase, starts, ready, faults>>
    OBVIOUS
  <2> QED BY <2>1, <2>2, <2>3
<1>4. WhereItIs' /\ ReadyInOrder'
  BY <1>1 DEF WhereItIs, ReadyInOrder
<1>5. \A d \in Drivers : held'[d] = held[d] \/ (d = Current /\ held'[d] = held[d] \cup CurrentStep.takes)
  OBVIOUS
<1>6. Current # "ft3x68" => held'[Current] \subseteq Taken(Current, at'.step)
  BY <1>1, <1>5, TakenSteps DEF HoldingsAreKnown
<1>7. HoldingsAreKnown'
  BY <1>1, <1>2, <1>5, <1>6, BoardIsSound DEF HoldingsAreKnown
<1> QED BY <1>3, <1>4, <1>7

\* start_all goes on, or gives up, after a driver that is ready or holds nothing.
LEMMA OnwardKeeps ==
    ASSUME StartInv, phase = "starting",
           Onward \/ (phase' = "up" /\ at' = [driver |-> 0, step |-> 1]),
           UNCHANGED <<board, starts>>, faults' \in 0..MaxFaults,
           ready' \in {ready, ready \cup {Current}}, held' \in [Drivers -> SUBSET Resources],
           \A d \in Drivers \ {Current} : held'[d] = held[d],
           held'[Current] \subseteq DeinitOf[Current],
           Current \notin ready' /\ Current # "ft3x68" => held'[Current] = {}
    PROVE  StartInv'
<1> USE CurrentIsKnown DEF StartInv, StartTypeOK
<1>1. \/ phase' = "up" /\ at' = [driver |-> 0, step |-> 1]
      \/ /\ phase' = "starting" /\ at.driver + 1 \in 1..Len(board)
         /\ at' = [driver |-> at.driver + 1, step |-> 1]
  BY DEF Onward
<1>2. StartTypeOK'
  BY <1>1
<1>3. \A i \in at.driver + 1..Len(board) : board[i] \notin ready'
  BY BoardIsSound DEF ReadyInOrder
<1>4. \A d \in Drivers : held'[d] \subseteq DeinitOf[d]
  BY DEF HoldingsAreKnown
<1>5. \A d \in ToSet(board) \ {"ft3x68"} : d \notin ready' => held'[d] = {}
  BY BoardIsSound DEF HoldingsAreKnown
<1>6. CASE phase' = "up"
  BY <1>2, <1>4, <1>5, <1>6 DEF WhereItIs, ReadyInOrder, HoldingsAreKnown
<1>7. CASE phase' = "starting"
  <2>1. Current' = board[at.driver + 1] /\ Current' \in Drivers /\ Current' \in ToSet(board)
    BY <1>1, <1>7, BoardIsSound DEF Current
  <2>2. WhereItIs'
    BY <1>1, <1>7, <2>1, DriversKeep DEF WhereItIs, Keeps
  <2>3. ReadyInOrder'
    BY <1>1, <1>3, <1>7 DEF ReadyInOrder
  <2>4. Current' # "ft3x68" => held'[Current'] = {}
    BY <1>1, <1>3, <1>5, <1>7, <2>1
  <2>5. HoldingsAreKnown'
    BY <1>1, <1>4, <1>5, <1>7, <2>1, <2>4 DEF HoldingsAreKnown
  <2> QED BY <1>2, <2>2, <2>3, <2>5
<1> QED BY <1>1, <1>6, <1>7

LEMMA InitFailsKeeps == StartInv /\ InitFails => StartInv'
<1> SUFFICES ASSUME StartInv, InitFails PROVE StartInv'
  OBVIOUS
<1> USE CurrentIsKnown DEF StartInv, StartTypeOK, InitFails
<1>1. CurrentStep = InitOf[Current][at.step] /\ at.step \in 1..Len(InitOf[Current])
  BY DEF CurrentStep
<1>2. faults' \in 0..MaxFaults
  BY BoundsAssumption
<1>3. /\ \A d \in Drivers \ {Current} : held'[d] = held[d]
      /\ held'[Current] = held[Current] \ CurrentStep.undo
      /\ held' \in [Drivers -> SUBSET Resources]
  OBVIOUS
<1>4. Current # "ft3x68" => held'[Current] = {}
  BY <1>1, <1>3, TakenSteps DEF HoldingsAreKnown
<1>5. held'[Current] \subseteq DeinitOf[Current]
  BY <1>3 DEF HoldingsAreKnown
<1>6. Onward \/ (phase' = "up" /\ at' = [driver |-> 0, step |-> 1])
  OBVIOUS
<1> QED BY <1>2, <1>3, <1>4, <1>5, <1>6, OnwardKeeps

LEMMA InitReturnsKeeps == StartInv /\ InitReturns => StartInv'
<1> SUFFICES ASSUME StartInv, InitReturns PROVE StartInv'
  OBVIOUS
<1> USE CurrentIsKnown DEF StartInv, StartTypeOK, InitReturns
<1>1. PICK mounted \in IF Current = "sdcard" THEN BOOLEAN ELSE {FALSE} :
        held' = [held EXCEPT ![Current] = @ \cup IF mounted THEN {"card"} ELSE {}]
  OBVIOUS
<1>2. mounted => Current = "sdcard"
  BY <1>1
<1>3. "card" \in Resources /\ (mounted => "card" \in DeinitOf[Current])
  BY <1>2 DEF Resources, DeinitOf, SdcardDeinit
<1>4. /\ \A d \in Drivers \ {Current} : held'[d] = held[d]
      /\ held'[Current] \subseteq held[Current] \cup IF mounted THEN {"card"} ELSE {}
      /\ held' \in [Drivers -> SUBSET Resources]
  BY <1>1, <1>3
<1>5. held'[Current] \subseteq DeinitOf[Current]
  BY <1>3, <1>4 DEF HoldingsAreKnown
<1> QED BY <1>4, <1>5, OnwardKeeps

LEMMA StopAllKeeps == StartInv /\ StopAll => StartInv'
<1> SUFFICES ASSUME StartInv, StopAll PROVE StartInv'
  OBVIOUS
<1> USE BoardIsSound DEF StartInv, StartTypeOK, StopAll
<1>1. StartTypeOK'
  OBVIOUS
<1>2. WhereItIs' /\ ReadyInOrder'
  BY DEF WhereItIs, ReadyInOrder
<1>3. HoldingsAreKnown'
  BY DEF HoldingsAreKnown
<1> QED BY <1>1, <1>2, <1>3

LEMMA DeinitKeeps == StartInv /\ Deinit => StartInv'
<1> SUFFICES ASSUME StartInv, Deinit PROVE StartInv'
  OBVIOUS
<1> USE CurrentIsKnown, BoardIsSound DEF StartInv, StartTypeOK, Deinit
<1>1. StartTypeOK'
  OBVIOUS
<1>2. WhereItIs'
  BY DEF WhereItIs
<1>3. \A i \in at.driver..Len(board) : board[i] \notin ready'
  BY DEF ReadyInOrder
<1>4. ReadyInOrder'
  <2>1. CASE at.driver = 1
    <3>1. ready' = {}
      BY <1>3, <2>1
    <3> QED BY <2>1, <3>1 DEF ReadyInOrder
  <2>2. CASE at.driver # 1
    BY <1>3, <2>2 DEF ReadyInOrder
  <2> QED BY <2>1, <2>2
<1>5. /\ \A d \in Drivers \ {Current} : held'[d] = held[d] /\ (d \in ready' <=> d \in ready)
      /\ held'[Current] = IF Current \in ready THEN held[Current] \ DeinitOf[Current] ELSE held[Current]
  <2>1. CASE Current \in ready
    BY <2>1
  <2>2. CASE Current \notin ready
    BY <2>2
  <2> QED BY <2>1, <2>2
<1>6. \A d \in Drivers : held'[d] \subseteq DeinitOf[d]
  BY <1>5 DEF HoldingsAreKnown
<1>7. Current # "ft3x68" => held'[Current] = {}
  BY <1>5 DEF HoldingsAreKnown
<1>8. HoldingsAreKnown'
  BY <1>5, <1>6, <1>7 DEF HoldingsAreKnown
<1> QED BY <1>1, <1>2, <1>4, <1>8

\* A service takes what the deinit function of its driver gives back.
LEMMA ServicesKeep == StartInv /\ Services => StartInv'
<1> SUFFICES ASSUME StartInv, Services PROVE StartInv'
  OBVIOUS
<1> USE DEF StartInv, StartTypeOK
<1>1. PICK d \in Drivers, r \in Resources : r \in DeinitOf[d] /\ (Takes(d, r) \/ Gives(d, r))
  <2>1. {"gps", "audio", "sdcard"} \subseteq Drivers /\ {"task", "running", "card"} \subseteq Resources
    BY DEF Drivers, InitOf, Resources
  <2>2. "task" \in DeinitOf["gps"] /\ "running" \in DeinitOf["audio"] /\ "card" \in DeinitOf["sdcard"]
    BY DEF DeinitOf, GpsDeinit, AudioDeinit, SdcardDeinit
  <2> QED BY <2>1, <2>2 DEF Services, GpsEnable, GpsDisable, AudioPlay, AudioStop,
             AudioConfigure, SdcardMount, SdcardUnmount
<1>2. /\ UNCHANGED <<board, phase, at, starts, ready, faults>> /\ phase = "up" /\ d \in ready
      /\ \A e \in Drivers \ {d} : held'[e] = held[e]
      /\ held' \in [Drivers -> SUBSET Resources] /\ held'[d] \subseteq held[d] \cup {r}
  BY <1>1 DEF Takes, Gives
<1>3. StartTypeOK' /\ WhereItIs' /\ ReadyInOrder'
  BY <1>2 DEF WhereItIs, ReadyInOrder
<1>4. \A e \in Drivers : held'[e] \subseteq DeinitOf[e]
  BY <1>1, <1>2 DEF HoldingsAreKnown
<1>5. HoldingsAreKnown'
  BY <1>2, <1>4, BoardIsSound DEF HoldingsAreKnown
<1> QED BY <1>3, <1>5

\* A step of the drivers' inputs or of the panel is one of DeviceStart or counts a failure.
LEMMA StepsOfTheStart == [Next]_vars => StartSteps \/ CountsFaults
<1> USE DEF CountsFaults, StartSteps, startVars
<1>1. ASSUME InputNext PROVE StartSteps \/ CountsFaults
  <2>1. CASE Starts
    BY <2>1 DEF Starts
  <2>2. CASE Forgets
    BY <2>2 DEF Forgets
  <2>3. CASE Services
    BY <2>3
  <2>4. CASE FingerDown \/ FingerStays \/ FingerUp \/ Key
    BY <2>4 DEF FingerDown, FingerStays, FingerUp, Key
  <2>5. CASE Polls
    BY <2>5 DEF Polls, PollGoesOn, TouchPoll, TouchReads, TouchReadFails, TouchReports,
       Tca8418Poll, Tca8418Fails, Tca8418Drains, Tca8418Clears, Tca8418Returns, CardkbPoll
  <2> QED BY <1>1, <2>1, <2>2, <2>3, <2>4, <2>5 DEF InputNext
<1>2. ASSUME PanelNext PROVE StartSteps \/ CountsFaults
  BY <1>2 DEF PanelNext, Draw, Render, SetRefreshMode, Asked, RefreshSkips, Refresh, RefreshFails
<1>3. ASSUME UNCHANGED vars PROVE CountsFaults
  BY <1>3 DEF vars
<1> QED BY <1>1, <1>2, <1>3 DEF Next, InputSteps, PanelSteps

LEMMA StartIsInductive == StartInv /\ [Next]_vars => StartInv'
<1> SUFFICES ASSUME StartInv, [Next]_vars PROVE StartInv'
  OBVIOUS
<1>1. CASE StartSteps
  BY <1>1, StartAllKeeps, InitStepKeeps, InitFailsKeeps, InitReturnsKeeps, StopAllKeeps,
     DeinitKeeps, ServicesKeep DEF StartSteps
<1>2. CASE CountsFaults
  BY <1>2, BoundsAssumption DEF CountsFaults, StartInv, StartTypeOK, WhereItIs, ReadyInOrder,
     HoldingsAreKnown, Current
<1> QED BY <1>1, <1>2, StepsOfTheStart

-----------------------------------------------------------------------------
(* The inputs                                                              *)

\* An interrupt sets the flag of a driver, a poll takes it back.
LEMMA FlagsKeepTheirType ==
    ASSUME irq \in [Interrupted -> BOOLEAN], NEW d, NEW now
    PROVE  /\ Edge(d) => irq' \in [Interrupted -> BOOLEAN]
           /\ Cleared(d, now) \in [Interrupted -> BOOLEAN]
           /\ [irq EXCEPT ![d] = FALSE] \in [Interrupted -> BOOLEAN]
           /\ IrqAfterInit(d) \in [Interrupted -> BOOLEAN]
BY DEF Edge, Cleared, IrqAfterInit

\* Whoever listens and the driver agree about the finger, whether or not a touch driver
\* is ready: every step that changes one changes the other.
InputInv == InputTypeOK /\ heard = touching

LEMMA StartsKeepInput == InputInv /\ (Starts \/ Forgets) => InputInv'
<1> SUFFICES ASSUME InputInv, Starts \/ Forgets PROVE InputInv'
  OBVIOUS
<1> USE DEF InputInv, InputTypeOK
<1>1. CASE UNCHANGED inputVars
  BY <1>1 DEF inputVars
<1>2. CASE irq' = IrqAfterInit(Current) /\ UNCHANGED <<finger, touching, pending, heard, polling, fifo, status, late>>
  BY <1>2, FlagsKeepTheirType
<1>3. CASE Forgets
  <2>1. irq' \in [Interrupted -> BOOLEAN]
    BY <1>3, FlagsKeepTheirType DEF Forgets
  <2>2. {finger', touching', pending', heard'} \subseteq BOOLEAN /\ heard' = touching'
    BY <1>3 DEF Forgets, touchVars
  <2>3. {status', late'} \subseteq BOOLEAN /\ fifo' \in 0..MaxKeys
    <3>1. CASE Current \in Keyboards
      <4>1. fifo' = 0 /\ status' = FALSE /\ late' = FALSE
        BY <1>3, <3>1 DEF Forgets
      <4>2. fifo' \in 0..MaxKeys
        BY <4>1, KeysAssumption
      <4> QED BY <4>1, <4>2
    <3>2. CASE Current \notin Keyboards
      BY <1>3, <3>2 DEF Forgets, keyVars
    <3> QED BY <3>1, <3>2
  <2>4. polling' = polling
    BY <1>3 DEF Forgets
  <2> QED BY <2>1, <2>2, <2>3, <2>4
<1> QED BY <1>1, <1>2, <1>3 DEF Starts

LEMMA FingersAndKeysKeepInput ==
    InputInv /\ (FingerDown \/ FingerStays \/ FingerUp \/ Key) => InputInv'
<1> SUFFICES ASSUME InputInv, FingerDown \/ FingerStays \/ FingerUp \/ Key PROVE InputInv'
  OBVIOUS
<1> USE DEF InputInv, InputTypeOK
<1>1. CASE FingerDown
  BY <1>1, FlagsKeepTheirType DEF FingerDown, keyVars
<1>2. CASE FingerStays
  BY <1>2, FlagsKeepTheirType DEF FingerStays, touchVars, keyVars
<1>3. CASE FingerUp
  BY <1>3, FlagsKeepTheirType DEF FingerUp, keyVars
<1>4. CASE Key
  <2>1. irq' \in [Interrupted -> BOOLEAN] /\ late' \in BOOLEAN
    BY <1>4, FlagsKeepTheirType DEF Key
  <2>2. fifo' \in 0..MaxKeys /\ status' = TRUE /\ UNCHANGED <<finger, touching, pending, heard, polling>>
    BY <1>4, KeysAssumption DEF Key, touchVars
  <2> QED BY <2>1, <2>2
<1> QED BY <1>1, <1>2, <1>3, <1>4

LEMMA TouchPollsKeepInput ==
    InputInv /\ (TouchPoll \/ TouchReads \/ TouchReadFails \/ TouchReports) => InputInv'
<1> SUFFICES ASSUME InputInv, TouchPoll \/ TouchReads \/ TouchReadFails \/ TouchReports
             PROVE  InputInv'
  OBVIOUS
<1> USE DEF InputInv, InputTypeOK, Idle, Seen
<1>1. CASE TouchPoll
  <2>1. UNCHANGED <<touchVars, keyVars>>
    BY <1>1 DEF TouchPoll
  <2>2. PICK d \in Touches \cap ready : polling' = [driver |-> d, seen |-> "nothing"] /\ irq' = Cleared(d, "before")
    BY <1>1 DEF TouchPoll
  <2> QED BY <2>1, <2>2, FlagsKeepTheirType DEF touchVars, keyVars
<1>2. CASE TouchReads
  <2>1. polling' = [polling EXCEPT !.seen = IF finger THEN "on" ELSE "off"]
    BY <1>2 DEF TouchReads
  <2>2. polling' \in [driver : Touches \cup Keyboards \cup {"none"}, seen : Seen]
    BY <2>1
  <2> QED BY <1>2, <2>2 DEF TouchReads, touchVars, keyVars
<1>3. CASE TouchReadFails
  <2>1. irq' \in [Interrupted -> BOOLEAN] /\ {touching', pending', heard'} \subseteq BOOLEAN
    BY <1>3, FlagsKeepTheirType DEF TouchReadFails
  <2>2. heard' = touching'
    <3>1. CASE UNCHANGED <<touching, heard>>
      BY <3>1
    <3>2. CASE touching' = FALSE /\ heard' = IF touching THEN FALSE ELSE heard
      BY <3>2
    <3> QED BY <1>3, <3>1, <3>2 DEF TouchReadFails
  <2>3. polling' = Idle /\ UNCHANGED <<finger, fifo, status, late>>
    BY <1>3 DEF TouchReadFails, keyVars
  <2> QED BY <2>1, <2>2, <2>3
<1>4. CASE TouchReports
  <2>1. polling' = Idle /\ UNCHANGED <<finger, fifo, status, late>> /\ irq' = Cleared(polling.driver, "after")
    BY <1>4 DEF TouchReports, keyVars
  <2>2. CASE polling.seen = "on" /\ FirstReading
    BY <1>4, <2>1, <2>2, FlagsKeepTheirType DEF TouchReports
  <2>3. CASE ~(polling.seen = "on" /\ FirstReading)
    <3>1. /\ touching' = (polling.seen = "on") /\ pending' = FALSE
          /\ heard' = IF polling.seen = "on" THEN TRUE ELSE IF touching THEN FALSE ELSE heard
      BY <1>4, <2>3 DEF TouchReports
    <3>2. heard' = touching' /\ touching' \in BOOLEAN
      BY <3>1
    <3> QED BY <2>1, <3>1, <3>2, FlagsKeepTheirType
  <2> QED BY <2>2, <2>3
<1> QED BY <1>1, <1>2, <1>3, <1>4

LEMMA KeyPollsKeepInput ==
    ASSUME InputInv, Tca8418Poll \/ Tca8418Fails \/ Tca8418Drains \/ Tca8418Clears
                     \/ Tca8418Returns \/ CardkbPoll
    PROVE  InputInv'
<1> USE KeysAssumption DEF InputInv, InputTypeOK, Idle, Seen, Keyboards
<1>1. CASE Tca8418Poll
  BY <1>1 DEF Tca8418Poll, touchVars, keyVars
<1>2. CASE Tca8418Fails
  BY <1>2 DEF Tca8418Fails, touchVars, keyVars
<1>3. CASE Tca8418Drains
  <2>1. fifo' = 0 \/ fifo' \in 1..fifo
    BY <1>3 DEF Tca8418Drains
  <2>2. fifo' \in 0..MaxKeys
    BY <2>1
  <2>3. late' \in BOOLEAN
    BY <1>3 DEF Tca8418Drains
  <2> QED BY <1>3, <2>2, <2>3 DEF Tca8418Drains, touchVars
<1>4. CASE Tca8418Clears
  BY <1>4 DEF Tca8418Clears, touchVars
<1>5. CASE Tca8418Returns
  BY <1>5, FlagsKeepTheirType DEF Tca8418Returns, touchVars, keyVars
<1>6. CASE CardkbPoll
  <2>1. fifo' \in 0..MaxKeys /\ status' \in BOOLEAN
    BY <1>6 DEF CardkbPoll
  <2> QED BY <1>6, <2>1 DEF CardkbPoll, touchVars
<1> QED BY <1>1, <1>2, <1>3, <1>4, <1>5, <1>6

LEMMA InputIsInductive == InputInv /\ [Next]_vars => InputInv'
<1> SUFFICES ASSUME InputInv, [Next]_vars PROVE InputInv'
  OBVIOUS
<1>1. CASE InputNext
  BY <1>1, StartsKeepInput, FingersAndKeysKeepInput, TouchPollsKeepInput, KeyPollsKeepInput
     DEF InputNext, Polls, PollGoesOn, InputInv, InputTypeOK, inputVars
<1>2. CASE UNCHANGED inputVars
  BY <1>2 DEF InputInv, InputTypeOK, inputVars
<1> QED BY <1>1, <1>2 DEF Next, InputSteps, PanelSteps, vars

-----------------------------------------------------------------------------
(* The panel                                                               *)

\* While the panel may be refreshed fast, or not at all, the driver remembers what it
\* shows, if it hears; the first refresh after a start is a full one.
PanelInv ==
    /\ PanelTypeOK
    /\ first /\ ~deaf => old = shown

LEMMA PanelIsInductive == PanelInv /\ [Next]_vars => PanelInv'
<1> SUFFICES ASSUME PanelInv, [Next]_vars PROVE PanelInv'
  OBVIOUS
<1> USE DEF PanelInv, PanelTypeOK, All
<1>1. CASE PanelStarts
  BY <1>1 DEF PanelStarts, GdeqStarts, WmStarts
<1>2. CASE PanelStops
  BY <1>2 DEF PanelStops
<1>3. CASE UNCHANGED panelVars
  BY <1>3 DEF panelVars
<1>4. CASE Draw
  BY <1>4 DEF Draw
<1>5. CASE Render
  BY <1>5 DEF Render
<1>6. CASE SetRefreshMode
  BY <1>6 DEF SetRefreshMode
<1>7. CASE Refresh
  <2>1. mode' \in {"full", "fast", "partial"}
    BY <1>7 DEF Refresh
  <2> QED BY <1>7, <2>1 DEF Refresh, Asked
<1>8. CASE RefreshFails
  BY <1>8 DEF RefreshFails, Asked
<1>9. CASE RefreshSkips
  BY <1>9 DEF RefreshSkips, Asked
<1> QED BY <1>1, <1>3, <1>4, <1>5, <1>6, <1>7, <1>8, <1>9, <1>2
        DEF Next, InputSteps, PanelSteps, PanelNext, vars

-----------------------------------------------------------------------------
(* The theorems                                                            *)

LEMMA Inductive == Spec => [](StartInv /\ InputInv /\ PanelInv)
<1>1. Init => StartInv
  BY StartHolds DEF Init
<1>2. Init => InputInv
  <2> SUFFICES ASSUME InputInit PROVE InputInv
    BY DEF Init
  <2>1. fifo \in 0..MaxKeys
    BY KeysAssumption DEF InputInit
  <2>2. {finger, touching, pending, heard, status, late} \subseteq BOOLEAN /\ heard = touching
    BY DEF InputInit
  <2>3. irq \in [Interrupted -> BOOLEAN]
    BY DEF InputInit
  <2>4. polling \in [driver : Touches \cup Keyboards \cup {"none"}, seen : Seen]
    BY DEF InputInit, Idle, Seen
  <2> QED BY <2>1, <2>2, <2>3, <2>4 DEF InputInv, InputTypeOK
<1>3. Init => PanelInv
  BY PicturesAssumption DEF Init, PanelInit, PanelInv, PanelTypeOK, All
<1> QED BY <1>1, <1>2, <1>3, StartIsInductive, InputIsInductive, PanelIsInductive, PTL DEF Spec

\* The state of the drivers keeps its type (hal_registry.rs, drv_*.rs, tk_wm.rs).
THEOREM TypeCorrect == Spec => []TypeOK
<1>1. StartInv /\ InputInv /\ PanelInv => TypeOK
  BY DEF StartInv, InputInv, PanelInv, TypeOK
<1> QED BY <1>1, Inductive, PTL

\* On every board, whichever steps of the init functions fail and however often the
\* drivers are started and stopped, a driver that is not ready holds nothing, but for
\* ft3x68 (hal_registry_start_all, hal_registry_stop_all and what they call).
THEOREM NothingLeaks == Spec => []NothingIsLeaked
<1>1. StartInv => NothingIsLeaked
  BY DEF StartInv, HoldingsAreKnown, NothingIsLeaked, Settled
<1> QED BY <1>1, Inductive, PTL

\* The listener is told of each touch's end before it is told of the next, for any
\* interleaving of interrupts and polls and any reads that fail (the polls of drv_touch_*.rs).
THEOREM ListenerIsTold == Spec => []ListenerAgrees
<1>1. InputInv => ListenerAgrees
  BY DEF InputInv, ListenerAgrees
<1> QED BY <1>1, Inductive, PTL

\* A fast refresh starts from what the panel shows, and one is left out only if the panel
\* shows its picture, for any pictures, failures and restarts, while the panel hears the
\* driver (gdeq031t10_init, gdeq031t10_refresh, tk_wm_do_refresh).
THEOREM OldPictureShown == Spec => []OldPictureIsShown
<1>1. PanelInv => OldPictureIsShown
  BY DEF PanelInv, OldPictureIsShown
<1> QED BY <1>1, Inductive, PTL

-----------------------------------------------------------------------------
(* The belief in the Wi-Fi link                                            *)

\* The events tell of the link in the order it changes, and only the handler writes that it
\* is up: the last event not handled yet, or else the one in the handler's hands, says what
\* the state will be in the end.

CONSTANTS
    Transports,    \* transports other than the Wi-Fi
    Overlays,      \* those of them that are a VPN
    MaxTransports, \* slots of the table, MAX_NET_TRANSPORTS
    MaxEvents      \* bound on the events of the chip that wait

VARIABLES
    radio,      \* the chip: "off", "idle", "joining" or "up"
    events,     \* its events, not yet handled
    handlers,   \* how often the handler stands in the list of the event loop
    handling,   \* the event handler: what it will write, and the state it read
    netState,   \* what the Wi-Fi manager believes
    netReady,   \* wifi_manager_init has succeeded
    caller,     \* where connect or disconnect is
    refused,    \* the chip refused to join while its link was up
    transports, \* the table of net_manager
    others      \* the other transports that are connected

Net == INSTANCE Network WITH
    Others <- Transports, state <- netState, ready <- netReady

\* The link as the events of the chip that are not handled, or the one wifi_event_handler
\* has in its hands, will leave it.
EventsInv ==
    /\ events # <<>> => (events[Len(events)] = "ip") = (radio = "up")
    /\ events = <<>> /\ handling # Net!Resting => (handling.next = "connected") = (radio = "up")

\* With none left the belief is the link, but while somebody joins, or after a refusal.
BeliefInv ==
    events = <<>> /\ handling = Net!Resting =>
        /\ netState = "connected" => radio = "up"
        /\ radio = "up" /\ ~refused /\ netState # "connected" =>
               netState = "connecting" /\ caller \in {"asks", "waits"}

\* Nothing happens before wifi_manager_init, which registers a handler at least; the chip is
\* left at rest by who disconnects; only a chip whose link is up refuses to leave it.
RadioInv ==
    /\ netReady => handlers >= 1
    /\ ~netReady => /\ radio \in {"off", "idle"} /\ events = <<>> /\ handling = Net!Resting
                 /\ caller = "idle" /\ netState = "disconnected" /\ ~refused
    /\ caller = "leaves" => radio = "idle"
    /\ refused => radio = "up"

\* What the chip, its events, the handler and the caller may be.
NetTypes ==
    /\ radio \in {"off", "idle", "joining", "up"} /\ handlers \in 0 .. 2
    /\ events \in Seq({"lost", "ip"})
    /\ handling = Net!Resting \/ handling \in [next : Net!States, old : Net!States \cup {"unread"}]
    /\ netState \in Net!States /\ netReady \in BOOLEAN /\ refused \in BOOLEAN
    /\ caller \in {"idle", "asks", "waits", "leaves"}

\* The inductive invariant of the Wi-Fi station.
NetInv == NetTypes /\ EventsInv /\ BeliefInv /\ RadioInv

\* The chip tells every handler, and the queue ends with what it told.
LEMMA ToldIs ==
    ASSUME NetTypes, NEW event \in {"lost", "ip"}, NEW n \in 1 .. 2
    PROVE  /\ Net!Told(event, n) \in Seq({"lost", "ip"}) /\ Net!Told(event, n) # <<>>
           /\ Net!Told(event, n)[Len(Net!Told(event, n))] = event
<1> DEFINE new == [i \in 1 .. n |-> event]
<1>1. new \in Seq({"lost", "ip"}) /\ Len(new) = n
  OBVIOUS
<1>2. Net!Told(event, n) = events \o new /\ events \in Seq({"lost", "ip"})
  BY DEF Net!Told, NetTypes
<1>3. /\ events \o new \in Seq({"lost", "ip"}) /\ Len(events \o new) = Len(events) + n
      /\ (events \o new)[Len(events) + n] = new[n]
  BY <1>1, <1>2
<1>4. new[n] = event
  OBVIOUS
<1> HIDE DEF new
<1>5. Len(events \o new) # 0
  BY <1>2, <1>3
<1>6. events \o new # <<>>
  BY <1>5
<1> QED
  BY <1>2, <1>3, <1>4, <1>6

\* The chip loses its link, or takes it down.
LEMMA LinkLost ==
    ASSUME NetInv, netReady, events' = Net!Told("lost", handlers),
           radio' = "idle", refused' = FALSE,
           UNCHANGED <<handlers, handling, netReady>>, netState' = netState \/ netState' = "failed",
           caller' \in {"idle", "leaves"} \/ caller' = caller
    PROVE  NetInv'
<1>1. /\ events' \in Seq({"lost", "ip"}) /\ events' # <<>> /\ events'[Len(events')] = "lost"
  BY ToldIs DEF NetInv, NetTypes, RadioInv
<1> QED
  BY <1>1 DEF NetInv, NetTypes, EventsInv, BeliefInv, RadioInv, Net!States

\* What the chip does of its own, and what esp_wifi_disconnect makes it do.
LEMMA RadioKeeps ==
    ASSUME NetInv, Net!RadioJoins \/ Net!RadioLoses \/ Net!TimesOut \/ Net!Disconnect
    PROVE  NetInv'
<1>1. CASE Net!RadioJoins
  <2>1. /\ events' \in Seq({"lost", "ip"}) /\ events' # <<>> /\ events'[Len(events')] = "ip"
        /\ radio = "joining" /\ radio' = "up"
        /\ UNCHANGED <<handlers, netState, handling, netReady, caller, refused>>
    BY <1>1, ToldIs DEF NetInv, Net!RadioJoins, Net!belief
  <2> QED
    BY <2>1 DEF NetInv, NetTypes, EventsInv, BeliefInv, RadioInv
<1>2. CASE Net!RadioLoses
  <2>1. netReady
    BY <1>2 DEF Net!RadioLoses, NetInv, RadioInv, NetTypes
  <2> QED
    BY <1>2, <2>1, LinkLost DEF Net!RadioLoses, Net!belief
<1>3. ASSUME Net!Leave, netReady, radio = "idle", UNCHANGED <<handlers, handling, netReady>>,
             netState' = netState \/ netState' = "failed", caller' \in {"idle", "leaves"}
      PROVE  NetInv'
  BY <1>3 DEF Net!Leave, NetInv, NetTypes, EventsInv, BeliefInv, RadioInv, Net!States
<1>4. ASSUME Net!TimesOut \/ Net!Disconnect PROVE NetInv'
  <2>1. /\ netReady /\ Net!Leave /\ UNCHANGED <<handlers, handling, netReady>>
        /\ netState' = netState \/ netState' = "failed"
        /\ caller' \in {"idle", "leaves"}
    BY <1>4 DEF Net!TimesOut, Net!Disconnect, Net!belief, NetInv, NetTypes, RadioInv
  <2>2. CASE radio = "idle"
    BY <1>3, <2>1, <2>2
  <2>3. CASE radio # "idle"
    BY <2>1, <2>3, LinkLost DEF Net!Leave
  <2> QED
    BY <2>2, <2>3
<1> QED
  BY <1>1, <1>2, <1>4

\* wifi_event_handler and wifi_manager_set_state: the event is taken, the old state read,
\* the new one written.
LEMMA HandlerKeeps ==
    ASSUME NetInv, Net!HandlerDecides \/ Net!HandlerReads \/ Net!HandlerWrites
    PROVE  NetInv'
<1>1. CASE Net!HandlerDecides
  <2>1. /\ handling = Net!Resting /\ events # <<>> /\ events' = Tail(events)
        /\ handling' = [next |-> Net!Decided(Head(events)), old |-> "unread"]
        /\ UNCHANGED <<radio, handlers, netState, netReady, caller, refused>>
    BY <1>1 DEF Net!HandlerDecides
  <2>2. /\ events \in Seq({"lost", "ip"}) /\ Head(events) \in {"lost", "ip"}
        /\ Tail(events) \in Seq({"lost", "ip"}) /\ Len(events) \in Nat \ {0}
        /\ Tail(events) # <<>> => Tail(events)[Len(Tail(events))] = events[Len(events)]
        /\ Tail(events) = <<>> => Head(events) = events[Len(events)]
    <3>1. /\ events \in Seq({"lost", "ip"}) /\ Len(events) \in Nat \ {0} /\ Head(events) = events[1]
          /\ events[1] \in {"lost", "ip"}
      BY <2>1 DEF NetInv, NetTypes
    <3>2. /\ Tail(events) \in Seq({"lost", "ip"}) /\ Len(Tail(events)) = Len(events) - 1
          /\ \A i \in 1 .. Len(events) - 1 : Tail(events)[i] = events[i + 1]
      BY <2>1, <3>1
    <3>3. Tail(events) # <<>> => Len(events) - 1 \in 1 .. Len(events) - 1
      BY <3>1, <3>2
    <3>4. Tail(events) = <<>> => Len(events) = 1
      <4>1. \A s : s = <<>> => Len(s) = 0
        OBVIOUS
      <4>2. Tail(events) = <<>> => Len(Tail(events)) = 0
        BY <4>1
      <4> QED
        BY <3>1, <3>2, <4>2
    <3> QED
      BY <3>1, <3>2, <3>3, <3>4
  <2>3. /\ Net!Decided(Head(events)) \in Net!States
        /\ (Net!Decided(Head(events)) = "connected") = (Head(events) = "ip")
    BY <2>2 DEF Net!Decided, Net!States
  <2>4. /\ handling' \in [next : Net!States, old : Net!States \cup {"unread"}]
        /\ handling'.next = Net!Decided(Head(events)) /\ handling' # Net!Resting
    BY <2>1, <2>3 DEF Net!Resting, Net!States
  <2> QED
    BY <2>1, <2>2, <2>3, <2>4 DEF NetInv, NetTypes, EventsInv, BeliefInv, RadioInv
<1>2. CASE Net!HandlerReads
  <2>1. /\ handling # Net!Resting /\ handling' = [handling EXCEPT !.old = netState]
        /\ UNCHANGED <<radio, events, handlers, netState, netReady, caller, refused>>
    BY <1>2 DEF Net!HandlerReads, Net!link
  <2>2. /\ handling' \in [next : Net!States, old : Net!States \cup {"unread"}]
        /\ handling'.next = handling.next /\ handling' # Net!Resting
    BY <2>1 DEF NetInv, NetTypes, Net!Resting
  <2> QED
    BY <2>1, <2>2 DEF NetInv, NetTypes, EventsInv, BeliefInv, RadioInv
<1>3. CASE Net!HandlerWrites
  <2>1. /\ handling # Net!Resting /\ netState' = handling.next /\ handling' = Net!Resting
        /\ UNCHANGED <<radio, events, handlers, netReady, caller, refused>>
    BY <1>3 DEF Net!HandlerWrites, Net!link
  <2> QED
    BY <2>1 DEF NetInv, NetTypes, EventsInv, BeliefInv, RadioInv
<1> QED
  BY <1>1, <1>2, <1>3

\* wifi_manager_connect and wifi_manager_disconnect, on the task that calls them.
LEMMA CallerKeeps ==
    ASSUME NetInv,
           \/ Net!Connect \/ Net!RadioAccepts \/ Net!RadioRefuses \/ Net!Connected
           \/ Net!ConnectFails \/ Net!Disconnected
    PROVE  NetInv'
<1> USE DEF NetInv, NetTypes, EventsInv, BeliefInv, RadioInv, Net!States, Net!link, Net!belief
<1>1. CASE Net!Connect
  BY <1>1 DEF Net!Connect
<1>2. CASE Net!RadioAccepts
  BY <1>2 DEF Net!RadioAccepts
<1>3. CASE Net!RadioRefuses
  BY <1>3 DEF Net!RadioRefuses
<1>4. CASE Net!Connected
  BY <1>4 DEF Net!Connected
<1>5. CASE Net!ConnectFails
  BY <1>5 DEF Net!ConnectFails
<1>6. CASE Net!Disconnected
  BY <1>6 DEF Net!Disconnected
<1> QED
  BY <1>1, <1>2, <1>3, <1>4, <1>5, <1>6

\* wifi_manager_init, and whatever changes neither the link nor the belief (net_manager.rs).
LEMMA RestKeepsNet ==
    ASSUME NetInv,
           \/ Net!InitWifi \/ Net!InitWifiFails
           \/ UNCHANGED <<Net!link, Net!belief, netReady, caller, refused>>
    PROVE  NetInv'
<1> USE DEF NetInv, NetTypes, EventsInv, BeliefInv, RadioInv, Net!link, Net!belief
<1>1. CASE Net!InitWifi
  BY <1>1 DEF Net!InitWifi
<1>2. CASE Net!InitWifiFails
  BY <1>2 DEF Net!InitWifiFails
<1>3. CASE UNCHANGED <<Net!link, Net!belief, netReady, caller, refused>>
  BY <1>3
<1> QED
  BY <1>1, <1>2, <1>3

\* Every step of the station and of the table of transports keeps the invariant.
LEMMA NetInvInductive ==
    /\ Net!Init => NetInv
    /\ NetInv /\ [Net!Next]_(Net!vars) => NetInv'
<1>1. ASSUME Net!Init PROVE NetInv
  <2>1. NetTypes
    <3>1. events \in Seq({"lost", "ip"})
      BY <1>1 DEF Net!Init
    <3>2. radio \in {"off", "idle", "joining", "up"} /\ handlers \in 0 .. 2
      BY <1>1 DEF Net!Init
    <3>3. /\ handling = Net!Resting
          /\ netState \in Net!States /\ netReady \in BOOLEAN /\ refused \in BOOLEAN
          /\ caller \in {"idle", "asks", "waits", "leaves"}
      BY <1>1 DEF Net!Init, Net!States
    <3> QED
      BY <3>1, <3>2, <3>3 DEF NetTypes
  <2>2. EventsInv /\ BeliefInv /\ RadioInv
    BY <1>1 DEF Net!Init, EventsInv, BeliefInv, RadioInv
  <2> QED
    BY <2>1, <2>2 DEF NetInv
<1>2. ASSUME NetInv, [Net!Next]_(Net!vars) PROVE NetInv'
  <2>1. ASSUME \/ Net!ConnectBest \/ Net!Register("wifi")
               \/ \E t \in Transports : Net!Register(t) \/ Net!OtherChanges(t)
               \/ UNCHANGED Net!vars
        PROVE  NetInv'
    <3>1. UNCHANGED <<Net!link, Net!belief, netReady, caller, refused>>
      BY <2>1 DEF Net!ConnectBest, Net!Register, Net!OtherChanges, Net!vars
    <3> QED
      BY <1>2, <3>1, RestKeepsNet
  <2> QED
    BY <1>2, <2>1, RadioKeeps, HandlerKeeps, CallerKeeps, RestKeepsNet DEF Net!Next
<1> QED
  BY <1>1, <1>2

\* When nobody is connecting and no event is left to handle, the system believes in a link
\* exactly if there is one, unless the chip kept its link and refused to join (connect,
\* disconnect, the event handler and set_state, wifi_manager.rs): for any number of
\* transports and of events that wait.
THEOREM LinkIsBelieved == Net!Spec => []Net!BeliefSettles
<1>1. NetInv => Net!BeliefSettles
  BY DEF NetInv, NetTypes, BeliefInv, Net!BeliefSettles
<1> QED
  BY <1>1, NetInvInductive, PTL DEF Net!Spec

-----------------------------------------------------------------------------
(* The Bluetooth link of the companion                                     *)

\* What theorem CompanionIsKnown states is nearly inductive; it lacks that nothing of the
\* radio lives before ble_manager_init.

CONSTANTS
    Peers,      \* companions
    Addrs,      \* addresses a scan may hear
    MaxDevices, \* slots of the scanner, MAX_DEVICES
    MaxRssi     \* bound on the strength of a signal

VARIABLES
    conns,       \* the host stack's connections, and whether each is authenticated
    onAir,       \* the host stack advertises
    passkey,     \* a pairing code is shown
    bleState,    \* the manager's state
    handle,      \* its connection handle
    callback,    \* the receiver is registered
    bleRunning,  \* ble_manager_init has succeeded
    toggle,      \* what the task of the settings is in the middle of
    overwritten, \* the state was written over with another while a peer was connected
    received,    \* connections whose data was handed to the receiver
    devices,     \* the scanner's slots
    deviceCount, \* and its count of them
    scanning,    \* the scanner believes it scans
    filter       \* the weakest signal it takes

Ble == INSTANCE Bluetooth WITH state <- bleState, running <- bleRunning

\* What the host stack's connections and the manager's state may be.
LinkTypes ==
    /\ conns \subseteq [peer : Peers, auth : BOOLEAN]
    /\ bleRunning \in BOOLEAN /\ onAir \in BOOLEAN /\ overwritten \in BOOLEAN
    /\ bleState \in {"off", "advertising", "connected"}

\* Nothing of the radio lives before ble_manager_init.
StartedInv == ~bleRunning => conns = {} /\ ~onAir /\ toggle = "idle"

\* The inductive invariant of the link.
LinkInv == LinkTypes /\ StartedInv /\ Ble!LinkIsKnown

\* A companion connects or leaves (gap_event_cb).
LEMMA PeerKeeps ==
    ASSUME LinkInv, (\E c \in conns : Ble!PeerLeaves(c)) \/ (\E p \in Peers : Ble!PeerConnects(p))
    PROVE  LinkInv'
<1>1. ASSUME NEW c \in conns, Ble!PeerLeaves(c) PROVE LinkInv'
  BY <1>1 DEF Ble!PeerLeaves, LinkInv, LinkTypes, StartedInv, Ble!LinkIsKnown
<1>2. ASSUME NEW p \in Peers, Ble!PeerConnects(p) PROVE LinkInv'
  <2> DEFINE c == [peer |-> p, auth |-> FALSE]
  <2>1. c \in [peer : Peers, auth : BOOLEAN] /\ c.peer = p
    OBVIOUS
  <2> HIDE DEF c
  <2>2. conns' = conns \cup {c} /\ c \in conns' /\ handle' = p /\ bleState' = "connected"
        /\ overwritten' = FALSE /\ onAir' = FALSE /\ onAir
        /\ UNCHANGED <<passkey, callback, bleRunning, toggle, received>>
    BY <1>2 DEF Ble!PeerConnects, c
  <2> QED
    BY <2>1, <2>2 DEF LinkInv, LinkTypes, StartedInv, Ble!LinkIsKnown
<1> QED
  BY <1>1, <1>2

\* A pairing code, what pairing comes to, and data from the companion
\* (thistle_ble_security_handle_event, nus_rx_access_cb).
LEMMA PairingKeeps ==
    ASSUME LinkInv, NEW c \in conns, Ble!ShowPasskey(c) \/ Ble!Authenticate(c) \/ Ble!Receive(c)
    PROVE  LinkInv'
<1>1. CASE Ble!ShowPasskey(c)
  BY <1>1 DEF Ble!ShowPasskey, Ble!manager, Ble!user, Ble!scanner, LinkInv, LinkTypes, StartedInv,
     Ble!LinkIsKnown
<1>2. CASE Ble!Authenticate(c)
  <2> DEFINE paired == [peer |-> c.peer, auth |-> TRUE]
  <2>1. c \in [peer : Peers, auth : BOOLEAN]
    BY DEF LinkInv, LinkTypes
  <2>2. paired \in [peer : Peers, auth : BOOLEAN] /\ paired.peer = c.peer
    BY <2>1
  <2> HIDE DEF paired
  <2>3. conns' = (conns \ {c}) \cup {paired} /\ paired \in conns'
        /\ UNCHANGED <<onAir, passkey, bleState, handle, bleRunning, toggle, overwritten, received>>
    BY <1>2 DEF Ble!Authenticate, Ble!manager, Ble!user, paired
  <2>4. ASSUME bleState = "connected" PROVE \E d \in conns' : d.peer = handle
    <3>1. PICK d \in conns : d.peer = handle
      BY <2>4 DEF LinkInv, Ble!LinkIsKnown
    <3> QED
      BY <2>2, <2>3, <3>1
  <2> QED
    BY <2>2, <2>3, <2>4 DEF LinkInv, LinkTypes, StartedInv, Ble!LinkIsKnown
<1>3. CASE Ble!Receive(c)
  BY <1>3 DEF Ble!Receive, Ble!Accepts, Ble!host, Ble!manager, LinkInv, LinkTypes, StartedInv,
     Ble!LinkIsKnown
<1> QED
  BY <1>1, <1>2, <1>3

\* ble_manager_init, a connection that fails, the toggle of the settings, and the messenger.
LEMMA OwnerKeeps ==
    ASSUME LinkInv,
           \/ Ble!InitBle \/ Ble!PeerFails \/ Ble!ToggleOn \/ Ble!StartAdvertising
           \/ Ble!StopAdvertising \/ Ble!SetState \/ Ble!SetCallback
    PROVE  LinkInv'
<1> USE DEF LinkInv, LinkTypes, StartedInv, Ble!LinkIsKnown, Ble!host, Ble!manager, Ble!user
<1>1. CASE Ble!InitBle
  BY <1>1 DEF Ble!InitBle
<1>2. CASE Ble!PeerFails
  BY <1>2 DEF Ble!PeerFails
<1>3. CASE Ble!ToggleOn
  BY <1>3 DEF Ble!ToggleOn
<1>4. CASE Ble!StartAdvertising
  BY <1>4 DEF Ble!StartAdvertising
<1>5. CASE Ble!StopAdvertising
  BY <1>5 DEF Ble!StopAdvertising
<1>6. CASE Ble!SetState
  BY <1>6 DEF Ble!SetState
<1>7. CASE Ble!SetCallback
  BY <1>7 DEF Ble!SetCallback
<1> QED
  BY <1>1, <1>2, <1>3, <1>4, <1>5, <1>6, <1>7

\* The scanner has no part in the link (ble_scanner.rs).
LEMMA ScannerKeeps ==
    ASSUME LinkInv, Ble!ScanNext \/ UNCHANGED Ble!vars
    PROVE  LinkInv'
<1>1. UNCHANGED <<Ble!host, Ble!manager, Ble!user>>
  BY Zenon DEF Ble!ScanNext, Ble!vars, Ble!InitScanner, Ble!Start, Ble!Stop, Ble!Clear,
     Ble!SortByRssi, Ble!SetFilter, Ble!HearAgain, Ble!HearNew, Ble!Others
<1> QED
  BY <1>1 DEF Ble!host, Ble!manager, Ble!user, LinkInv, LinkTypes, StartedInv, Ble!LinkIsKnown

\* Every step of the link and of the scanner keeps the invariant.
LEMMA LinkInvInductive ==
    /\ Ble!Init => LinkInv
    /\ LinkInv /\ [Ble!Next]_(Ble!vars) => LinkInv'
<1>1. ASSUME Ble!Init PROVE LinkInv
  BY <1>1 DEF Ble!Init, LinkInv, LinkTypes, StartedInv, Ble!LinkIsKnown
<1>2. ASSUME LinkInv, [Ble!Next]_(Ble!vars) PROVE LinkInv'
  BY <1>2, PeerKeeps, PairingKeeps, OwnerKeeps, ScannerKeeps
     DEF Ble!Next, Ble!LinkNext, Ble!Disconnect
<1> QED
  BY <1>1, <1>2

\* The manager knows of a connection exactly while there is one, unless the settings or the
\* loss of another peer wrote over the state; the connection it names is there; a pairing
\* code lives no longer than the last connection, and the receiver saw authenticated
\* connections only (gap_event_cb, set_conn_state, rx_dispatch_authorized, ble_manager.rs):
\* for any companions, any number of them connected at a time.
THEOREM CompanionIsKnown == Ble!Spec => []Ble!LinkIsKnown
<1>1. LinkInv => Ble!LinkIsKnown
  BY DEF LinkInv
<1> QED
  BY <1>1, LinkInvInductive, PTL DEF Ble!Spec

-----------------------------------------------------------------------------
(* The display server                                                      *)

\* The numbers grow with the places while each place is taken once, so that a number is its
\* place: that is all there is to it, and the history variable says when it ends.

CONSTANTS
    Managers,    \* window managers
    MaxSurfaces, \* MAX_SURFACES
    MaxIds       \* bound on the numbers given out

VARIABLES
    up,       \* display_server_init was called
    wm,       \* the active window manager or "none"
    wmReady,  \* window managers that are initialised
    surfaces, \* the places: allocated, dirty, and the owner
    surfaceId, \* the next number
    reused    \* history: a place was given out again

Ds == INSTANCE DisplayServer WITH ready <- wmReady, nextId <- surfaceId

\* The word for no window manager is not one.
DisplayAssumption == "none" \notin Managers

\* The active window manager is the one that is initialised, and while no place was given
\* out again its number is that of the place.
DisplayInv ==
    /\ wm \in Managers \cup {"none"} /\ reused \in BOOLEAN
    /\ surfaces \in [Ds!Places -> [owner : Int, dirty : BOOLEAN, visible : BOOLEAN]]
    /\ surfaceId \in Int
    /\ wmReady = {wm} \ {"none"}
    /\ reused \/ \A p \in Ds!Places : surfaces[p].owner \in {0, p}

\* A surface is destroyed, marked or shown: its owner stays, or goes.
LEMMA ChangeKeeps ==
    ASSUME DisplayInv, NEW id \in Ds!Places, NEW s, Ds!Change(id, s),
           s \in [owner : {0, surfaces[id].owner}, dirty : BOOLEAN, visible : BOOLEAN]
    PROVE  DisplayInv'
<1>1. surfaces' = [surfaces EXCEPT ![id] = s] /\ UNCHANGED <<wm, wmReady, surfaceId, reused>>
  BY DEF Ds!Change
<1>2. s.owner \in {0, surfaces[id].owner}
      /\ s \in [owner : Int, dirty : BOOLEAN, visible : BOOLEAN]
  BY DEF DisplayInv
<1>3. \A p \in Ds!Places : surfaces'[p] = IF p = id THEN s ELSE surfaces[p]
  BY <1>1 DEF DisplayInv
<1>4. surfaces' \in [Ds!Places -> [owner : Int, dirty : BOOLEAN, visible : BOOLEAN]]
  BY <1>1, <1>2 DEF DisplayInv
<1> QED
  BY <1>1, <1>2, <1>3, <1>4 DEF DisplayInv, Ds!Places

\* create_surface takes the first place that is free.
LEMMA CreateKeeps ==
    ASSUME DisplayInv, NEW v \in BOOLEAN, Ds!CreateSurface(v)
    PROVE  DisplayInv'
<1> DEFINE place == Ds!First(Ds!Free)
           new == [owner |-> surfaceId, dirty |-> FALSE, visible |-> v]
<1>1. /\ surfaces' = [surfaces EXCEPT ![place] = new] /\ surfaceId' = surfaceId + 1
      /\ reused' = (reused \/ place # surfaceId) /\ UNCHANGED <<wm, wmReady>>
  BY DEF Ds!CreateSurface
<1>2. new \in [owner : Int, dirty : BOOLEAN, visible : BOOLEAN] /\ new.owner = surfaceId
  BY DEF DisplayInv
<1>3. \A p \in Ds!Places : surfaces'[p] = IF p = place THEN new ELSE surfaces[p]
  BY <1>1 DEF DisplayInv
<1>4. surfaces' \in [Ds!Places -> [owner : Int, dirty : BOOLEAN, visible : BOOLEAN]]
  BY <1>1, <1>2 DEF DisplayInv
<1>5. ~reused' => \A p \in Ds!Places : surfaces'[p].owner \in {0, p}
  BY <1>1, <1>2, <1>3 DEF DisplayInv
<1> QED
  BY <1>1, <1>4, <1>5 DEF DisplayInv

\* Every step of the server keeps the invariant.
LEMMA DisplayInvInductive ==
    ASSUME DisplayAssumption
    PROVE  /\ Ds!Init => DisplayInv
           /\ DisplayInv /\ [Ds!Next]_(Ds!vars) => DisplayInv'
<1>1. ASSUME Ds!Init PROVE DisplayInv
  <2>1. surfaces = [p \in Ds!Places |-> Ds!Empty]
        /\ Ds!Empty \in [owner : Int, dirty : BOOLEAN, visible : BOOLEAN] /\ Ds!Empty.owner = 0
    BY <1>1 DEF Ds!Init, Ds!Empty
  <2>2. surfaces \in [Ds!Places -> [owner : Int, dirty : BOOLEAN, visible : BOOLEAN]]
        /\ \A p \in Ds!Places : surfaces[p].owner = 0
    BY <2>1
  <2>3. wm = "none" /\ wmReady = {wm} \ {"none"} /\ surfaceId \in Int /\ reused \in BOOLEAN
    <3>1. wm = "none" /\ wmReady = {} /\ surfaceId = 1 /\ reused = FALSE
      BY <1>1 DEF Ds!Init
    <3>2. \A x : x \notin {wm} \ {"none"}
      BY <3>1
    <3>3. wmReady = {wm} \ {"none"}
      BY <3>1, <3>2
    <3>4. surfaceId \in Int
      BY <3>1
    <3>5. reused \in BOOLEAN
      BY <3>1
    <3> QED
      BY <3>1, <3>3, <3>4, <3>5
  <2> QED
    BY <2>2, <2>3 DEF DisplayInv
<1>2. ASSUME DisplayInv, [Ds!Next]_(Ds!vars) PROVE DisplayInv'
  <2>1. CASE Ds!StartServer \/ UNCHANGED Ds!vars
    BY <1>2, <2>1 DEF Ds!StartServer, Ds!vars, DisplayInv
  <2>2. ASSUME NEW m \in Managers, NEW s \in BOOLEAN, Ds!Register(m, s) PROVE DisplayInv'
    <3>1. m # "none"
      BY DEF DisplayAssumption
    <3> QED
      BY <1>2, <2>2, <3>1 DEF Ds!Register, DisplayInv
  <2>3. ASSUME NEW v \in BOOLEAN, Ds!CreateSurface(v) PROVE DisplayInv'
    BY <1>2, <2>3, CreateKeeps
  <2>4. ASSUME NEW id \in Ds!Places,
               \/ Ds!DestroySurface(id) \/ Ds!MarkDirty(id)
               \/ \E v \in BOOLEAN : Ds!SetVisible(id, v)
        PROVE  DisplayInv'
    <3>1. surfaces[id] \in [owner : Int, dirty : BOOLEAN, visible : BOOLEAN]
      BY <1>2 DEF DisplayInv
    <3>2. CASE Ds!DestroySurface(id)
      BY <1>2, <3>2, ChangeKeeps DEF Ds!DestroySurface, Ds!Empty
    <3>3. CASE Ds!MarkDirty(id)
      <4>1. [surfaces[id] EXCEPT !.dirty = TRUE]
                \in [owner : {0, surfaces[id].owner}, dirty : BOOLEAN, visible : BOOLEAN]
        BY <3>1
      <4> QED
        BY <1>2, <3>3, <4>1, ChangeKeeps DEF Ds!MarkDirty
    <3>4. ASSUME NEW v \in BOOLEAN, Ds!SetVisible(id, v) PROVE DisplayInv'
      <4>1. [surfaces[id] EXCEPT !.visible = v]
                \in [owner : {0, surfaces[id].owner}, dirty : BOOLEAN, visible : BOOLEAN]
        BY <3>1
      <4> QED
        BY <1>2, <3>4, <4>1, ChangeKeeps DEF Ds!SetVisible
    <3> QED
      BY <2>4, <3>2, <3>3, <3>4
  <2> QED
    BY <1>2, <2>1, <2>2, <2>3, <2>4 DEF Ds!Next
<1> QED
  BY <1>1, <1>2

\* Exactly the active window manager is initialised (register_wm); a number leads to its own
\* surface or to none, until the first place is given out again (create_surface,
\* display_server.rs): for any window managers and any number of surfaces.
THEOREM DisplayIsSound == ASSUME DisplayAssumption PROVE Ds!Spec => []Ds!ServerIsSound
<1>1. DisplayInv => Ds!ServerIsSound
  BY DEF DisplayInv, Ds!ServerIsSound, Ds!Buffer, Ds!Places
<1> QED
  BY <1>1, DisplayInvInductive, PTL DEF Ds!Spec

-----------------------------------------------------------------------------
(* The table of replaceable drivers                                        *)

\* One lemma carries the proof: a step that writes one slot leaves what runs behind the
\* others known. That a new driver's slot is a free one needs the least of a set of numbers
\* to exist, which well-founded induction gives.

CONSTANTS
    Paths,      \* files of drivers
    Hals,       \* kinds of hardware
    MaxDrivers, \* slots of the table, MAX_RELOADABLE
    MaxDriverIds \* bound on the ids given out

VARIABLES
    onDevice, \* the build: espidf or host
    slots,    \* the table
    nextId,   \* the next id
    running,  \* kinds of hardware whose driver was started and not stopped
    unknown,  \* kinds that run although the table forgot it
    lookup    \* reload_by_path between its two locks

Reload == INSTANCE DriverReload WITH MaxIds <- MaxDriverIds

\* The hardware the table has as running.
Listed == {slots[s].hal : s \in {t \in Reload!Used : slots[t].state = "running"}}

\* The inductive invariant: the slots hold drivers or nothing, and what is proved.
ReloadInv ==
    /\ slots \in [Reload!Slots -> Reload!Entry \cup {Reload!Empty}]
    /\ nextId \in Nat \ {0}
    /\ Reload!RunningIsKnown

\* A driver is no empty slot, and stays one with another state.
LEMMA EntriesAre ==
    /\ Reload!Empty \notin Reload!Entry
    /\ \A e \in Reload!Entry : \A s \in Reload!States :
          [e EXCEPT !.state = s] \in Reload!Entry /\ [e EXCEPT !.state = s].hal = e.hal
          /\ [e EXCEPT !.state = s].state = s
BY DEF Reload!Entry, Reload!Empty

\* A slot is written, and every other one that runs stays.
LEMMA SlotWritten ==
    ASSUME ReloadInv, NEW s \in Reload!Slots, NEW e \in Reload!Entry \cup {Reload!Empty},
           slots' = [slots EXCEPT ![s] = e], nextId' \in Nat \ {0},
           unknown \cap running' \subseteq unknown',
           \A h \in running' :
               \/ h \in unknown'
               \/ s \notin Reload!Used \/ slots[s].state # "running" \/ h # slots[s].hal
               \/ e # Reload!Empty /\ e.state = "running" /\ h = e.hal,
           \A h \in running' \ running :
               e # Reload!Empty /\ e.state = "running" /\ h = e.hal
    PROVE  ReloadInv'
<1>1. /\ slots' \in [Reload!Slots -> Reload!Entry \cup {Reload!Empty}]
      /\ \A t \in Reload!Slots : slots'[t] = IF t = s THEN e ELSE slots[t]
  BY DEF ReloadInv
<1>2. Reload!Used = {t \in Reload!Slots : slots[t] # Reload!Empty}
      /\ Reload!Used' = {t \in Reload!Slots : slots'[t] # Reload!Empty}
  BY DEF Reload!Used, Reload!Slots, Reload!Empty
<1>3. ASSUME NEW h \in running' PROVE h \in unknown' \/ h \in Listed'
  <2>1. CASE e # Reload!Empty /\ e.state = "running" /\ h = e.hal
    BY <1>1, <1>2, <2>1 DEF Listed
  <2>2. CASE /\ h \in running /\ h \notin unknown
             /\ ~(e # Reload!Empty /\ e.state = "running" /\ h = e.hal)
    <3>1. PICK t \in Reload!Used : slots[t].state = "running" /\ h = slots[t].hal
      BY <2>2 DEF ReloadInv, Reload!RunningIsKnown
    <3>2. CASE t = s
      BY <1>3, <2>2, <3>1, <3>2
    <3>3. CASE t # s
      BY <1>1, <1>2, <3>1, <3>3 DEF Listed
    <3> QED
      BY <3>2, <3>3
  <2> QED
    BY <1>3, <2>1, <2>2
<1>4. Reload!RunningIsKnown'
  BY <1>3 DEF Reload!RunningIsKnown, Listed
<1> QED
  BY <1>1, <1>4 DEF ReloadInv

\* The pairs of numbers of which the first is the smaller.
Less == {pair \in Nat \X Nat : pair[1] < pair[2]}

\* Some numbers have a least one: the smaller than of numbers is well-founded.
LEMMA LeastNumber ==
    ASSUME NEW T, T \subseteq Nat, T # {}
    PROVE  \E m \in T : \A t \in T : m <= t
<1>1. OpToRel(<, Nat) = Less
  BY Zenon DEF OpToRel, Less
<1>2. IsWellFoundedOn(Less, Nat)
  BY <1>1, NatLessThanWellFounded, Zenon
<1>3. PICK m \in T : \A t \in T : <<t, m>> \notin Less
  BY <1>2, WFMin
<1>4. ASSUME NEW t \in T PROVE m <= t
  <2>1. t \in Nat /\ m \in Nat /\ ~(t < m)
    BY <1>3 DEF Less
  <2> QED
    BY <2>1
<1> QED
  BY <1>4

\* The least of some slots, which a new driver takes, is one of them.
LEMMA LeastSlot ==
    ASSUME NEW T, T \subseteq Reload!Slots, T # {}
    PROVE  Reload!Min(T) \in T
<1>1. T \subseteq Nat
  BY DEF Reload!Slots
<1> QED
  BY <1>1, LeastNumber DEF Reload!Min

\* register, unregister, load and unload.
LEMMA TableKeeps ==
    ASSUME ReloadInv,
           \/ \E p \in Paths : \E h \in Hals : Reload!RegisterAgain(p, h) \/ Reload!RegisterNew(p, h)
           \/ \E s \in Reload!Used : Reload!Unregister(s) \/ Reload!Load(s) \/ Reload!Unload(s)
    PROVE  ReloadInv'
<1>1. ASSUME NEW p \in Paths, NEW h \in Hals, Reload!RegisterAgain(p, h) PROVE ReloadInv'
  <2>1. PICK s \in Reload!Used :
            /\ slots' = [slots EXCEPT ![s] = [@ EXCEPT !.hal = h, !.state = "loaded"]]
            /\ unknown' = running \cap (unknown \cup {slots[s].hal})
            /\ UNCHANGED <<nextId, running>>
    BY <1>1 DEF Reload!RegisterAgain
  <2> DEFINE e == [slots[s] EXCEPT !.hal = h, !.state = "loaded"]
  <2>2. s \in Reload!Slots /\ slots[s] \in Reload!Entry
    BY DEF Reload!Used, ReloadInv
  <2>3. e \in Reload!Entry /\ e.state = "loaded"
    BY <2>2 DEF Reload!Entry, Reload!States
  <2>4. slots' = [slots EXCEPT ![s] = e] /\ nextId' \in Nat \ {0}
    BY <2>1, <2>2 DEF ReloadInv
  <2> HIDE DEF e
  <2> QED
    BY <2>1, <2>2, <2>3, <2>4, SlotWritten
<1>2. ASSUME NEW p \in Paths, NEW h \in Hals, Reload!RegisterNew(p, h) PROVE ReloadInv'
  <2> DEFINE s == Reload!Min(Reload!Slots \ Reload!Used)
             e == [id |-> nextId, path |-> p, hal |-> h, state |-> "loaded"]
  <2>1. s \in Reload!Slots /\ s \notin Reload!Used
    <3>1. Reload!Used \subseteq Reload!Slots /\ Reload!Used # Reload!Slots
      BY <1>2 DEF Reload!RegisterNew, Reload!Used
    <3> QED
      BY <3>1, LeastSlot
  <2>2. e \in Reload!Entry /\ nextId' \in Nat \ {0}
    BY <1>2 DEF Reload!RegisterNew, Reload!Entry, Reload!States, ReloadInv
  <2>3. slots' = [slots EXCEPT ![s] = e] /\ UNCHANGED <<running, unknown>>
    BY <1>2 DEF Reload!RegisterNew
  <2> HIDE DEF s, e
  <2> QED
    BY <2>1, <2>2, <2>3, SlotWritten
<1>3. ASSUME NEW s \in Reload!Used, Reload!Unregister(s) PROVE ReloadInv'
  <2>1. s \in Reload!Slots /\ nextId' \in Nat \ {0}
    BY <1>3 DEF Reload!Used, Reload!Unregister, ReloadInv
  <2> QED
    BY <1>3, <2>1, SlotWritten DEF Reload!Unregister
<1>4. ASSUME NEW s \in Reload!Used, Reload!Load(s) \/ Reload!Unload(s) PROVE ReloadInv'
  <2> DEFINE e == [slots[s] EXCEPT !.state = "loaded"]
  <2>1. s \in Reload!Slots /\ slots[s] \in Reload!Entry /\ slots[s].state # "running"
    BY <1>4 DEF Reload!Used, ReloadInv, Reload!Load, Reload!Unload
  <2>2. e \in Reload!Entry
    BY <2>1 DEF Reload!Entry, Reload!States
  <2>3. slots' = [slots EXCEPT ![s] = e] /\ nextId' \in Nat \ {0} /\ UNCHANGED <<running, unknown>>
    BY <1>4, <2>1 DEF Reload!Load, Reload!Unload, Reload!Set, ReloadInv
  <2> HIDE DEF e
  <2> QED
    BY <2>1, <2>2, <2>3, SlotWritten
<1> QED
  BY <1>1, <1>2, <1>3, <1>4

\* reload: a driver that runs is stopped and loaded again.
LEMMA ReloadedKeeps ==
    ASSUME ReloadInv, NEW s \in Reload!Used, Reload!Reloaded(s)
    PROVE  ReloadInv'
<1> DEFINE e == [slots[s] EXCEPT !.state = "loaded"]
<1>1. s \in Reload!Slots /\ slots[s] \in Reload!Entry
  BY DEF Reload!Used, ReloadInv
<1>2. e \in Reload!Entry
  BY <1>1 DEF Reload!Entry, Reload!States
<1>3. /\ slots' = [slots EXCEPT ![s] = e] /\ nextId' \in Nat \ {0}
      /\ running' = IF slots[s].state = "running" THEN running \ {slots[s].hal} ELSE running
      /\ unknown' = unknown \cap running'
  BY <1>1 DEF Reload!Reloaded, Reload!Set, ReloadInv
<1> HIDE DEF e
<1> QED
  BY <1>1, <1>2, <1>3, SlotWritten

\* start and stop, with what the driver's own functions answer.
LEMMA DriverKeeps ==
    ASSUME ReloadInv, NEW s \in Reload!Used, Reload!Start(s) \/ Reload!Stop(s)
    PROVE  ReloadInv'
<1>1. s \in Reload!Slots /\ slots[s] \in Reload!Entry
  BY DEF Reload!Used, ReloadInv
<1>2. PICK st \in Reload!States :
          /\ slots' = [slots EXCEPT ![s].state = st]
          /\ \/ /\ slots[s].state = "loaded" /\ unknown' = unknown
                /\ \/ running' = running \cup {slots[s].hal} /\ st = "running"
                   \/ running' = running
             \/ running' = running \ {slots[s].hal} /\ unknown' = unknown \cap running'
             \/ running' = running /\ unknown' = running \cap (unknown \cup {slots[s].hal})
  BY DEF Reload!Start, Reload!Stop, Reload!Set, Reload!States
<1> DEFINE e == [slots[s] EXCEPT !.state = st]
<1>3. e \in Reload!Entry /\ e.state = st /\ e.hal = slots[s].hal /\ e # Reload!Empty
  BY <1>1, EntriesAre
<1>4. slots' = [slots EXCEPT ![s] = e] /\ nextId' \in Nat \ {0}
  BY <1>1, <1>2 DEF Reload!Start, Reload!Stop, ReloadInv
<1> HIDE DEF e
<1> QED
  BY <1>1, <1>2, <1>3, <1>4, SlotWritten

\* Every step of the table, rs_driver_reload_init and reload_by_path keeps the invariant.
LEMMA ReloadInvInductive ==
    /\ Reload!Init => ReloadInv
    /\ ReloadInv /\ [Reload!Next]_(Reload!vars) => ReloadInv'
<1>1. ASSUME Reload!Init PROVE ReloadInv
  BY <1>1 DEF Reload!Init, ReloadInv, Reload!RunningIsKnown
<1>2. ASSUME ReloadInv, [Reload!Next]_(Reload!vars) PROVE ReloadInv'
  <2>1. CASE Reload!Reset
    BY <2>1 DEF Reload!Reset, ReloadInv, Reload!RunningIsKnown
  <2>2. CASE Reload!ReloadFound
    <3>1. (\E s \in Reload!Used : Reload!Reloaded(s)) \/ UNCHANGED <<slots, nextId, running, unknown>>
      BY <2>2 DEF Reload!ReloadFound
    <3>2. CASE UNCHANGED <<slots, nextId, running, unknown>>
      BY <1>2, <3>2 DEF ReloadInv, Reload!RunningIsKnown, Reload!Used
    <3> QED
      BY <1>2, <3>1, <3>2, ReloadedKeeps
  <2>3. CASE (\E p \in Paths : Reload!LookUp(p)) \/ UNCHANGED Reload!vars
    <3>1. UNCHANGED <<slots, nextId, running, unknown>>
      BY <2>3 DEF Reload!LookUp, Reload!vars
    <3> QED
      BY <1>2, <3>1 DEF ReloadInv, Reload!RunningIsKnown, Reload!Used
  <2>4. ASSUME NEW s \in Reload!Used, Reload!Reload(s) PROVE ReloadInv'
    BY <1>2, <2>4, ReloadedKeeps DEF Reload!Reload
  <2> QED
    BY <1>2, <2>1, <2>2, <2>3, <2>4, TableKeeps, DriverKeeps DEF Reload!Next
<1> QED
  BY <1>1, <1>2

\* Hardware that runs is in the table as running, unless its driver was registered again or
\* the table reset while it ran, or it failed to stop (register, init, stop,
\* driver_reload.rs): for any number of files, kinds of hardware and slots, on the device
\* and on a host.
THEOREM RunningDriversAreKnown == Reload!Spec => []Reload!RunningIsKnown
<1>1. ReloadInv => Reload!RunningIsKnown
  BY DEF ReloadInv
<1> QED
  BY <1>1, ReloadInvInductive, PTL DEF Reload!Spec

-----------------------------------------------------------------------------
(* The rows of a log                                                       *)

\* What is stated is inductive once it says the same of the row that is being built.

CONSTANTS
    Types,      \* types of columns
    MaxColumns, \* bound on the columns of a table
    MaxRows,    \* bound on the rows of a table
    MaxPoints,  \* bound on the points of a track
    MaxSeconds, \* bound on the time of a position
    MaxSequence, \* the number of a packet wraps after this one
    MaxTargets,  \* bound on the targets of a plan
    MaxPasses,   \* passes of the pattern
    MaxFlash     \* bound on the time since the last flash or gap began

VARIABLES
    columns,  \* types of the columns
    rows,     \* the rows, each a sequence of types of values
    building, \* the row being built, or None
    lateColumn, \* a column came while a row was being built
    aborted,  \* a panic left an exported function
    track,    \* the points: number, time, and whether it is a waypoint
    alarm,      \* status of the beacon, "off" when it is not active
    sequence,   \* number of the next packet
    sent,       \* the last packet of this beacon: status and number
    targets,    \* the plan: number, priority and status of each target
    hand,       \* the target the client works on: index, number and passes done
    written,    \* numbers of the targets that were overwritten as often as required
    moved,      \* a target was added while the client worked on one
    alive,      \* the app of the light has its widgets
    torchMode,  \* "off", "on" or "sos"
    white,      \* its part of the screen is white
    bright,     \* the backlight is at 100
    torchStep,  \* the place in the pattern
    lit,        \* sos_screen_on
    flashSince, \* time since sos_phase_start_us
    flashes     \* history: flashes of the first signal

Sos == INSTANCE Emergency WITH
    status <- alarm, mode <- torchMode, step <- torchStep, since <- flashSince, MaxTime <- MaxFlash

\* Types of the values of a row.
Value == Types \cup {Sos!Null}

\* A row as wide as the table, each value of its column's type.
IsRow(r) == /\ r \in Seq(Value) /\ Len(r) = Len(columns)
            /\ \A c \in DOMAIN columns : Sos!Fits(c, r[c])

\* What a table may be.
TableTypes ==
    /\ columns \in Seq(Types) /\ rows \in Seq(Seq(Value))
    /\ building \in Seq(Value) \/ building = Sos!None
    /\ lateColumn \in BOOLEAN /\ aborted \in BOOLEAN

\* The rows, and the one that is being built, fit the table, and no read left it.
WidthInv ==
    /\ aborted = FALSE
    /\ \A i \in DOMAIN rows : IsRow(rows[i])
    /\ building # Sos!None => IsRow(building)

\* The inductive invariant of the table: it fits, or a column came late.
TableInv == TableTypes /\ (lateColumn = TRUE \/ WidthInv)

\* The table is left alone (gps_track.rs).
LEMMA TableSame ==
    ASSUME TableInv, UNCHANGED Sos!table
    PROVE  TableInv'
BY DEF TableInv, TableTypes, WidthInv, IsRow, Sos!table, Sos!Fits

\* add_column: there is no row yet; if one is being built, the column is late.
LEMMA ColumnAdded ==
    ASSUME TableInv, NEW type \in Types, Sos!AddColumn(type)
    PROVE  TableInv'
<1>1. /\ rows = <<>> /\ columns' = Append(columns, type) /\ lateColumn' = (lateColumn \/ building # Sos!None)
      /\ UNCHANGED <<rows, building, aborted>>
  BY DEF Sos!AddColumn
<1>2. TableTypes'
  BY <1>1 DEF TableInv, TableTypes
<1>3. lateColumn' = TRUE \/ (lateColumn = FALSE /\ building = Sos!None)
  BY <1>1 DEF TableInv, TableTypes
<1>4. DOMAIN rows' = {}
  BY <1>1
<1>5. ASSUME lateColumn = FALSE, building = Sos!None PROVE WidthInv'
  BY <1>1, <1>4, <1>5 DEF TableInv, WidthInv
<1> QED
  BY <1>2, <1>3, <1>5 DEF TableInv

\* log_row and commit_row: the new row fits if the table does.
LEMMA RowAdded ==
    ASSUME TableInv, NEW r \in Seq(Value), lateColumn = FALSE => IsRow(r),
           rows' = Append(rows, r), building' \in {building, Sos!None},
           UNCHANGED <<columns, lateColumn, aborted>>
    PROVE  TableInv'
<1>1. rows \in Seq(Seq(Value))
  BY DEF TableInv, TableTypes
<1>2. /\ rows' \in Seq(Seq(Value)) /\ DOMAIN rows' = 1 .. Len(rows) + 1
      /\ \A i \in 1 .. Len(rows) + 1 : rows'[i] = IF i = Len(rows) + 1 THEN r ELSE rows[i]
  BY <1>1
<1>3. TableTypes'
  BY <1>2 DEF TableInv, TableTypes
<1>4. ASSUME lateColumn = FALSE PROVE WidthInv'
  <2>1. WidthInv /\ IsRow(r)
    BY <1>4 DEF TableInv
  <2>2. \A x : IsRow(x)' <=> IsRow(x)
    BY DEF IsRow, Sos!Fits
  <2>3. \A i \in DOMAIN rows' : IsRow(rows'[i])
    BY <1>1, <1>2, <2>1 DEF WidthInv
  <2>4. \A i \in DOMAIN rows' : /\ rows'[i] \in Seq(Value) /\ Len(rows'[i]) = Len(columns')
                                /\ \A c \in DOMAIN columns' : rows'[i][c] \in {Sos!Null, columns'[c]}
    BY <2>3 DEF IsRow, Sos!Fits
  <2>5. building' # Sos!None => building' = building
    OBVIOUS
  <2> QED
    BY <2>1, <2>4, <2>5 DEF WidthInv, IsRow, Sos!Fits
<1>5. lateColumn' = lateColumn /\ lateColumn \in BOOLEAN
  BY DEF TableInv, TableTypes
<1> QED
  BY <1>3, <1>4, <1>5 DEF TableInv

\* begin_row: nothing in every column.
LEMMA RowBegun ==
    ASSUME TableInv, Sos!BeginRow
    PROVE  TableInv'
<1> DEFINE r == [c \in DOMAIN columns |-> Sos!Null]
<1>1. building' = r /\ UNCHANGED <<columns, rows, lateColumn, aborted>>
  BY DEF Sos!BeginRow
<1>2. columns \in Seq(Types)
  BY DEF TableInv, TableTypes
<1>3. r \in Seq(Value) /\ Len(r) = Len(columns)
  BY <1>2 DEF Value
<1>4. IsRow(r)'
  BY <1>1, <1>3 DEF IsRow, Sos!Fits
<1>5. TableTypes'
  BY <1>1, <1>3 DEF TableInv, TableTypes
<1>6. WidthInv => WidthInv'
  BY <1>1, <1>4 DEF WidthInv, IsRow, Sos!Fits
<1> QED
  BY <1>1, <1>5, <1>6 DEF TableInv

\* set_pending_int and its like: a column of the table is one of the row, unless the column
\* came late.
LEMMA ValueSet ==
    ASSUME TableInv, NEW col \in Nat, NEW value \in Value, Sos!SetPendingValue(col, value)
    PROVE  TableInv'
<1>1. /\ building # Sos!None /\ col \in DOMAIN columns /\ Sos!Fits(col, value)
      /\ UNCHANGED <<columns, rows, lateColumn>>
  BY DEF Sos!SetPendingValue
<1>2. columns \in Seq(Types) /\ building \in Seq(Value)
  BY <1>1 DEF TableInv, TableTypes
<1>3. CASE col \in DOMAIN building
  <2>1. building' = [building EXCEPT ![col] = value] /\ UNCHANGED aborted
    BY <1>3 DEF Sos!SetPendingValue
  <2>2. building' \in Seq(Value) /\ Len(building') = Len(building)
        /\ \A c \in DOMAIN building : building'[c] = IF c = col THEN value ELSE building[c]
    BY <1>2, <1>3, <2>1
  <2>3. TableTypes'
    BY <1>1, <2>1, <2>2 DEF TableInv, TableTypes
  <2>4. ASSUME WidthInv PROVE WidthInv'
    <3>1. IsRow(building)
      BY <1>1, <2>4 DEF WidthInv
    <3>2. DOMAIN columns = DOMAIN building
      BY <1>2, <3>1 DEF IsRow
    <3>3. \A c \in DOMAIN columns : building'[c] \in {Sos!Null, columns[c]}
      <4> TAKE c \in DOMAIN columns
      <4>1. value \in {Sos!Null, columns[col]} /\ building[c] \in {Sos!Null, columns[c]}
        BY <1>1, <3>1 DEF IsRow, Sos!Fits
      <4>2. c \in DOMAIN building
        BY <3>2, Zenon
      <4>3. building'[c] = IF c = col THEN value ELSE building[c]
        BY <2>2, <4>2, Zenon
      <4> QED
        BY <4>1, <4>3
    <3>4. IsRow(building)'
      BY <1>1, <2>2, <3>1, <3>3 DEF IsRow, Sos!Fits
    <3>5. (\A i \in DOMAIN rows : IsRow(rows[i]))'
      BY <1>1, <2>4 DEF WidthInv, IsRow, Sos!Fits
    <3> QED
      BY <2>1, <2>4, <3>4, <3>5 DEF WidthInv
  <2> QED
    BY <1>1, <2>3, <2>4 DEF TableInv
<1>4. CASE col \notin DOMAIN building
  <2>1. aborted' = TRUE /\ UNCHANGED building
    BY <1>4 DEF Sos!SetPendingValue
  <2>2. ~WidthInv
    BY <1>1, <1>2, <1>4 DEF WidthInv, IsRow
  <2> QED
    BY <1>1, <2>1, <2>2 DEF TableInv, TableTypes
<1> QED
  BY <1>3, <1>4

\* stats and get_column_values: no row is too short for a column.
LEMMA ColumnRead ==
    ASSUME TableInv, NEW col \in Nat, Sos!ReadColumn(col)
    PROVE  TableInv'
<1>1. /\ col \in DOMAIN columns /\ UNCHANGED <<columns, rows, building, lateColumn>>
      /\ aborted' = \E r \in DOMAIN rows : col \notin DOMAIN rows[r]
  BY Zenon DEF Sos!ReadColumn
<1>2. aborted' \in BOOLEAN
  BY <1>1
<1>3. ASSUME WidthInv PROVE aborted' = FALSE
  <2>1. \A i \in DOMAIN rows : rows[i] \in Seq(Value) /\ Len(rows[i]) = Len(columns)
    BY <1>3 DEF WidthInv, IsRow
  <2>2. columns \in Seq(Types)
    BY DEF TableInv, TableTypes
  <2>3. \A i \in DOMAIN rows : col \in DOMAIN rows[i]
    BY <1>1, <2>1, <2>2
  <2>4. ~ \E r \in DOMAIN rows : col \notin DOMAIN rows[r]
    BY <2>3
  <2> QED
    BY <1>1, <2>4, Zenon
<1>4. TableTypes'
  BY <1>1, <1>2 DEF TableInv, TableTypes
<1>5. WidthInv => WidthInv'
  BY <1>1, <1>3 DEF WidthInv, IsRow, Sos!Fits
<1> QED
  BY <1>1, <1>4, <1>5 DEF TableInv

\* clear_rows, destroy and create.
LEMMA RowsCleared ==
    ASSUME TableInv, Sos!ClearRows \/ Sos!NewTable
    PROVE  TableInv'
<1>1. \A i \in DOMAIN <<>> : FALSE
  OBVIOUS
<1>2. CASE Sos!ClearRows
  BY <1>1, <1>2 DEF Sos!ClearRows, TableInv, TableTypes, WidthInv, IsRow, Sos!Fits
<1>3. CASE Sos!NewTable
  <2>1. columns' = <<>> /\ rows' = <<>> /\ building' = Sos!None /\ lateColumn' = FALSE /\ aborted' = FALSE
    BY <1>3 DEF Sos!NewTable
  <2>2. <<>> \in Seq(Types) /\ <<>> \in Seq(Seq(Value))
    OBVIOUS
  <2>3. TableTypes'
    BY <2>1, <2>2 DEF TableTypes
  <2>4. WidthInv'
    BY <1>1, <2>1 DEF WidthInv
  <2> QED
    BY <2>3, <2>4 DEF TableInv
<1> QED
  BY <1>2, <1>3

\* What a caller hands to log_row is a row.
LEMMA BoundedIsSeq ==
    ASSUME MaxColumns \in Nat, NEW v \in Sos!BoundedSeq(Value, MaxColumns)
    PROVE  v \in Seq(Value)
<1>1. PICK m \in 0 .. MaxColumns : v \in [1 .. m -> Value]
  BY DEF Sos!BoundedSeq, Sos!SeqOf
<1>2. m \in Nat
  BY <1>1
<1> QED
  BY <1>1, <1>2

\* Every step of the table and of the track keeps the invariant.
LEMMA TableInvInductive ==
    ASSUME MaxColumns \in Nat
    PROVE  TableInv /\ [Sos!LogsNext]_Sos!logs => TableInv'
<1> SUFFICES ASSUME TableInv, [Sos!LogsNext]_Sos!logs
             PROVE  TableInv'
  OBVIOUS
<1>1. ASSUME NEW v \in Sos!BoundedSeq(Value, MaxColumns), Sos!LogRow(v) PROVE TableInv'
  <2>1. /\ Len(v) = Len(columns) /\ \A c \in DOMAIN columns : Sos!Fits(c, v[c])
        /\ rows' = Append(rows, v) /\ UNCHANGED <<columns, building, lateColumn, aborted>>
    BY <1>1 DEF Sos!LogRow
  <2>2. v \in Seq(Value)
    BY BoundedIsSeq
  <2> QED
    BY <2>1, <2>2, RowAdded DEF IsRow
<1>2. CASE Sos!CommitRow
  <2>1. /\ building # Sos!None /\ rows' = Append(rows, building) /\ building' = Sos!None
        /\ UNCHANGED <<columns, lateColumn, aborted>>
    BY <1>2 DEF Sos!CommitRow
  <2>2. building \in Seq(Value) /\ (lateColumn = FALSE => IsRow(building))
    BY <2>1 DEF TableInv, TableTypes, WidthInv
  <2> QED
    BY <2>1, <2>2, RowAdded
<1>3. ASSUME NEW type \in Types, Sos!AddColumn(type) PROVE TableInv'
  BY <1>3, ColumnAdded
<1>4. ASSUME NEW c \in 1 .. MaxColumns, Sos!ReadColumn(c) PROVE TableInv'
  <2>1. c \in Nat
    OBVIOUS
  <2> QED
    BY <1>4, <2>1, ColumnRead
<1>5. ASSUME NEW c \in 1 .. MaxColumns, NEW v \in Value, Sos!SetPendingValue(c, v) PROVE TableInv'
  <2>1. c \in Nat
    OBVIOUS
  <2> QED
    BY <1>5, <2>1, ValueSet
<1>6. CASE UNCHANGED Sos!table
  BY <1>6, TableSame
<1>7. Sos!TrackNext => UNCHANGED Sos!table
  BY DEF Sos!TrackNext, Sos!ClearTrack, Sos!AddPoint
<1>8. CASE Sos!LoggerNext
  BY <1>1, <1>2, <1>3, <1>4, <1>5, <1>8, RowBegun, RowsCleared DEF Sos!LoggerNext, Value
<1> QED
  BY <1>6, <1>7, <1>8 DEF Sos!LogsNext, Sos!logs

\* Every row of a log has a value of the right type for every column, so that no read is out
\* of bounds, unless a column was added while a row was being built (add_column,
\* set_pending_int, commit_row, data_logger.rs): for any types, and any number of columns
\* and rows.
THEOREM LogsAreRectangular ==
    ASSUME MaxColumns \in Nat
    PROVE  Sos!LogSpec => []Sos!LogIsRectangular
<1>1. Sos!LogInit => TableInv
  <2> SUFFICES ASSUME Sos!LogInit PROVE TableInv
    OBVIOUS
  <2>1. columns = <<>> /\ rows = <<>> /\ building = Sos!None /\ lateColumn = FALSE /\ aborted = FALSE
    BY DEF Sos!LogInit
  <2>2. <<>> \in Seq(Types) /\ <<>> \in Seq(Seq(Value)) /\ \A i \in DOMAIN <<>> : FALSE
    OBVIOUS
  <2> QED
    BY <2>1, <2>2 DEF TableInv, TableTypes, WidthInv
<1>2. TableInv => Sos!LogIsRectangular
  <2> SUFFICES ASSUME TableInv, lateColumn = FALSE
               PROVE  /\ aborted = FALSE
                      /\ \A r \in DOMAIN rows : /\ DOMAIN rows[r] = DOMAIN columns
                                                /\ \A c \in DOMAIN columns : Sos!Fits(c, rows[r][c])
    BY DEF TableInv, TableTypes, Sos!LogIsRectangular
  <2>1. aborted = FALSE /\ columns \in Seq(Types)
    BY DEF TableInv, TableTypes, WidthInv
  <2>2. ASSUME NEW r \in DOMAIN rows
        PROVE  /\ DOMAIN rows[r] = DOMAIN columns
               /\ \A c \in DOMAIN columns : Sos!Fits(c, rows[r][c])
    BY <2>1 DEF TableInv, WidthInv, IsRow
  <2> QED
    BY <2>1, <2>2
<1> QED
  BY <1>1, <1>2, TableInvInductive, PTL DEF Sos!LogSpec

-----------------------------------------------------------------------------
(* The emergency: the beacon, the wipe and the light                       *)

\* Each has variables of its own, and an invariant of its own.
\*
\* That add_target keeps the targets in order is a fact about a set of numbers with all that
\* are smaller: it is an interval, and as large as its greatest element; InsertAt then puts
\* the new target behind it.

\* What the beacon may be.
AlarmTypes ==
    /\ alarm \in Sos!Alarms \cup {"cancel", "off"} /\ sequence \in 0 .. MaxSequence
    /\ sent \in [status : Sos!Alarms \cup {"cancel", "off"}, sequence : Nat]

\* A beacon that has sent nothing yet sends the packet with number 0 next.
NumberInv == sent = Sos!Silence /\ alarm # "off" => sequence = 0

\* The inductive invariant of the beacon.
BeaconInv == AlarmTypes /\ NumberInv /\ Sos!BeaconTellsItsEnd

\* The number after n, of those up to m.
LEMMA WrapsAround ==
    ASSUME NEW m \in Nat, NEW n \in 0 .. m
    PROVE  (n + 1) % (m + 1) \in 0 .. m /\ (n + 1) % (m + 1) = (IF n = m THEN 0 ELSE n + 1)
<1>1. CASE n = m
  <2>1. (n + 1) % (n + 1) = 0
    OBVIOUS
  <2> QED
    BY <1>1, <2>1
<1>2. CASE n # m
  <2>1. n + 1 \in 0 .. m
    BY <1>2
  <2> QED
    BY <1>2, <2>1
<1> QED
  BY <1>1, <1>2

\* The last packet of a beacon that went off is the cancellation, and the packets of one
\* alarm are numbered in a row (next_packet, sos_beacon.rs): for any number after which they
\* wrap.
THEOREM AlarmTellsItsEnd ==
    ASSUME MaxSequence \in Nat
    PROVE  Sos!Spec => []Sos!BeaconTellsItsEnd
<1>1. Sos!Init => BeaconInv
  BY DEF Sos!Init, BeaconInv, AlarmTypes, NumberInv, Sos!BeaconTellsItsEnd, Sos!Silence, Sos!Alarms
<1>2. BeaconInv /\ [Sos!Next]_Sos!vars => BeaconInv'
  <2> SUFFICES ASSUME BeaconInv, [Sos!Next]_Sos!vars
               PROVE  BeaconInv'
    OBVIOUS
  <2> USE DEF BeaconInv, AlarmTypes, NumberInv, Sos!BeaconTellsItsEnd, Sos!Silence, Sos!Alarms
  <2>1. ASSUME NEW s \in Sos!Alarms, Sos!Activate(s)
        PROVE  BeaconInv'
    BY <2>1 DEF Sos!Activate
  <2>2. CASE Sos!Cancel
    BY <2>2 DEF Sos!Cancel
  <2>3. CASE Sos!NewBeacon
    BY <2>3 DEF Sos!NewBeacon
  <2>4. CASE Sos!NextPacket
    <3>1. /\ alarm # "off" /\ sent' = [status |-> alarm, sequence |-> sequence]
          /\ sequence' = (sequence + 1) % (MaxSequence + 1)
          /\ alarm' = IF alarm = "cancel" THEN "off" ELSE alarm
      BY <2>4 DEF Sos!NextPacket
    <3>2. sequence' \in 0 .. MaxSequence /\ (sequence' = 0 \/ sequence' = sequence + 1)
      BY <3>1, WrapsAround
    <3>3. sent'.status = alarm /\ sent'.sequence = sequence
      BY <3>1
    <3>4. sent' \in [status : Sos!Alarms \cup {"cancel", "off"}, sequence : Nat] /\ sent' # Sos!Silence
      BY <3>1, <3>3
    <3> QED
      BY <3>1, <3>2, <3>3, <3>4
  <2>5. CASE UNCHANGED Sos!beacon
    BY <2>5 DEF Sos!beacon
  <2>6. Sos!WipeNext => UNCHANGED Sos!beacon
    BY DEF Sos!WipeNext, Sos!AddTarget, Sos!TakeNext, Sos!Overwrite, Sos!MarkInProgress,
           Sos!MarkCompleted, Sos!MarkFailed, Sos!MarkSkipped, Sos!Report, Sos!NewPlan
  <2> QED
    BY <2>1, <2>2, <2>3, <2>4, <2>5, <2>6 DEF Sos!Next, Sos!BeaconNext, Sos!vars
<1>3. BeaconInv => Sos!BeaconTellsItsEnd
  BY DEF BeaconInv
<1> QED
  BY <1>1, <1>2, <1>3, PTL DEF Sos!Spec

\* The targets of a plan.
Target ==
    [number : Nat, priority : Sos!Priorities,
     status : Sos!Unfinished \cup {"completed", "failed", "skipped"}]

\* What the plan, and what the client has in hand, may be.
PlanTypes ==
    /\ targets \in Seq(Target) /\ moved \in BOOLEAN
    /\ hand \in [index : Nat, number : Nat, passes : 0 .. MaxPasses]

\* The targets stand in the order of their priority.
SortedInv ==
    \A i, j \in DOMAIN targets : i < j => targets[i].priority <= targets[j].priority

\* What is reported as wiped was overwritten.
WrittenInv ==
    \A i \in DOMAIN targets : targets[i].status = "completed" => targets[i].number \in written

\* The client has a target in hand that is not behind any pending one, under its own index
\* and number, and all its passes make it overwritten.
HandInv ==
    hand # Sos!Nothing =>
        /\ hand.index \in DOMAIN targets /\ targets[hand.index].number = hand.number
        /\ \A i \in Sos!PendingAt : hand.index <= i
        /\ hand.passes = MaxPasses => hand.number \in written

\* The inductive invariant of the plan: indices mean what they did while no target is added.
PlanInv == PlanTypes /\ SortedInv /\ (moved \/ (WrittenInv /\ HandInv))

\* Two sequences in a row.
LEMMA Concatenated ==
    ASSUME NEW S, NEW s \in Seq(S), NEW t \in Seq(S)
    PROVE  /\ s \o t \in Seq(S) /\ Len(s \o t) = Len(s) + Len(t)
           /\ \A i \in 1 .. Len(s) + Len(t) : (s \o t)[i] = IF i <= Len(s) THEN s[i] ELSE t[i - Len(s)]
OBVIOUS

\* all is the sequence s with e after its first k elements.
InsertedInto(S, s, k, e, all) ==
    /\ all \in Seq(S) /\ Len(all) = Len(s) + 1
    /\ \A i \in 1 .. Len(s) + 1 :
           all[i] = IF i <= k THEN s[i] ELSE IF i = k + 1 THEN e ELSE s[i - 1]

\* InsertAt inserts.
LEMMA InsertedAt ==
    ASSUME NEW S, NEW s \in Seq(S), NEW k \in 0 .. Len(s), NEW e \in S
    PROVE  InsertedInto(S, s, k, e, Sos!InsertAt(s, k + 1, e))
<1> DEFINE a == SubSeq(s, 1, k)
           b == SubSeq(s, k + 1, Len(s))
<1>1. a \in Seq(S) /\ Len(a) = k /\ \A i \in 1 .. k : a[i] = s[i]
  OBVIOUS
<1>2. b \in Seq(S) /\ Len(b) = Len(s) - k /\ \A i \in 1 .. Len(s) - k : b[i] = s[k + i]
  OBVIOUS
<1>3. <<e>> \in Seq(S) /\ Len(<<e>>) = 1 /\ <<e>>[1] = e
  OBVIOUS
<1>4. Sos!InsertAt(s, k + 1, e) = (a \o <<e>>) \o b
  <2>1. (k + 1) - 1 = k
    OBVIOUS
  <2> QED
    BY <2>1, Zenon DEF Sos!InsertAt
<1> HIDE DEF a, b
<1>5. /\ a \o <<e>> \in Seq(S) /\ Len(a \o <<e>>) = k + 1
      /\ \A i \in 1 .. k + 1 : (a \o <<e>>)[i] = IF i <= k THEN s[i] ELSE e
  BY <1>1, <1>3
<1> DEFINE c == a \o <<e>>
<1>6. c \in Seq(S) /\ Len(c) = k + 1 /\ \A i \in 1 .. k + 1 : c[i] = IF i <= k THEN s[i] ELSE e
  BY <1>5
<1> HIDE DEF c
<1>7. c \o b \in Seq(S) /\ Len(c \o b) = Len(s) + 1
  <2>1. c \o b \in Seq(S) /\ Len(c \o b) = Len(c) + Len(b)
    BY <1>2, <1>6, Concatenated, Zenon
  <2>2. Len(c) + Len(b) = Len(s) + 1
    BY <1>2, <1>6
  <2> QED
    BY <2>1, <2>2
<1>8. \A i \in 1 .. Len(s) + 1 : (c \o b)[i] = IF i <= k + 1 THEN c[i] ELSE b[i - (k + 1)]
  <2>1. \A i \in 1 .. Len(c) + Len(b) : (c \o b)[i] = IF i <= Len(c) THEN c[i] ELSE b[i - Len(c)]
    BY <1>2, <1>6, Concatenated, Zenon
  <2>2. Len(c) + Len(b) = Len(s) + 1 /\ Len(c) = k + 1
    BY <1>2, <1>6
  <2> QED
    BY <2>1, <2>2, Zenon
<1>9. \A i \in 1 .. Len(s) + 1 : (c \o b)[i] = IF i <= k THEN s[i] ELSE IF i = k + 1 THEN e ELSE s[i - 1]
  <2> TAKE i \in 1 .. Len(s) + 1
  <2>1. CASE i <= k + 1
    BY <2>1, <1>6, <1>8
  <2>2. CASE i > k + 1
    <3>1. i - (k + 1) \in 1 .. Len(s) - k /\ k + (i - (k + 1)) = i - 1
      BY <2>2
    <3>2. (c \o b)[i] = b[i - (k + 1)] /\ b[i - (k + 1)] = s[k + (i - (k + 1))]
      <4>1. (c \o b)[i] = IF i <= k + 1 THEN c[i] ELSE b[i - (k + 1)]
        BY <1>8, Zenon
      <4>2. b[i - (k + 1)] = s[k + (i - (k + 1))]
        BY <1>2, <3>1
      <4> QED
        BY <2>2, <4>1, <4>2
    <3> QED
      BY <2>2, <3>1, <3>2
  <2>3. i <= k + 1 \/ i > k + 1
    OBVIOUS
  <2> QED
    BY <2>1, <2>2, <2>3, Zenon
<1>10. Sos!InsertAt(s, k + 1, e) = c \o b
  BY <1>4 DEF c
<1>11. /\ Sos!InsertAt(s, k + 1, e) \in Seq(S) /\ Len(Sos!InsertAt(s, k + 1, e)) = Len(s) + 1
  BY <1>7, <1>10, Zenon
<1>12. \A i \in 1 .. Len(s) + 1 :
          Sos!InsertAt(s, k + 1, e)[i] = IF i <= k THEN s[i] ELSE IF i = k + 1 THEN e ELSE s[i - 1]
  <2> TAKE i \in 1 .. Len(s) + 1
  <2>1. Sos!InsertAt(s, k + 1, e)[i] = (c \o b)[i]
    BY <1>10, Zenon
  <2> QED
    BY <2>1, <1>9
<1> QED
  BY <1>11, <1>12 DEF InsertedInto

\* The numbers from 1 to n are n.
LEMMA SizeOfInterval ==
    ASSUME NEW n \in Nat
    PROVE  IsFiniteSet(1..n) /\ Cardinality(1..n) = n
<1>1. IsFiniteSet(1..n) /\ Cardinality(1..n) = IF 1 > n THEN 0 ELSE n - 1 + 1
  BY FS_Interval
<1> QED
  BY <1>1

\* Numbers up to n with all that are smaller are the first ones, and as many as their
\* greatest.
LEMMA FirstOnes ==
    ASSUME NEW n \in Nat, NEW T, T \subseteq 1 .. n,
           \A i \in T, j \in 1 .. n : j < i => j \in T
    PROVE  Cardinality(T) \in 0 .. n /\ T = 1 .. Cardinality(T)
<1> DEFINE rest == (1 .. n) \ T
<1>1. CASE rest = {}
  <2>1. T = 1 .. n
    BY <1>1
  <2> QED
    BY <2>1, SizeOfInterval
<1>2. CASE rest # {}
  <2>1. PICK m \in rest : \A t \in rest : m <= t
    <3>1. rest \subseteq Nat
      OBVIOUS
    <3> QED
      BY <1>2, <3>1, LeastNumber
  <2>2. m - 1 \in 0 .. n
    OBVIOUS
  <2>3. \A i \in 1 .. n : i \in T <=> i <= m - 1
    <3> TAKE i \in 1 .. n
    <3>1. CASE i < m
      BY <3>1, <2>1
    <3>2. CASE i >= m
      BY <3>2
    <3> QED
      BY <3>1, <3>2
  <2>4. T = 1 .. m - 1
    <3>1. \A i : i \in T => i \in 1 .. m - 1
      BY <2>3
    <3>2. \A i : i \in 1 .. m - 1 => i \in T
      BY <2>2, <2>3
    <3> QED
      BY <3>1, <3>2
  <2> QED
    BY <2>2, <2>4, SizeOfInterval
<1> QED
  BY <1>1, <1>2

\* The number and the priority of a target are numbers.
LEMMA TargetIs ==
    ASSUME NEW t \in Target
    PROVE  t.number \in Nat /\ t.priority \in Nat
BY DEF Target, Sos!Priorities

\* A client with nothing in hand.
LEMMA NothingIsTyped ==
    ASSUME MaxPasses \in Nat
    PROVE  Sos!Nothing \in [index : Nat, number : Nat, passes : 0 .. MaxPasses]
BY DEF Sos!Nothing

\* A plan without targets.
LEMMA EmptyIsTyped == <<>> \in Seq(Target) /\ DOMAIN <<>> = {}
OBVIOUS

\* The size of a set is the same in every instance.
LEMMA SameSize ==
    ASSUME NEW T
    PROVE  Sos!Cardinality(T) = Cardinality(T)
BY Zenon DEF Sos!Cardinality, Cardinality

\* add_target: the new one comes after all that are as urgent, so the order is kept.
LEMMA TargetAdded ==
    ASSUME PlanInv, NEW p \in Sos!Priorities, Sos!AddTarget(p)
    PROVE  PlanInv'
<1> DEFINE low == {i \in DOMAIN targets : targets[i].priority <= p}
           k == Cardinality(low)
           n == Len(targets)
           e == [number |-> n + 1, priority |-> p, status |-> "pending"]
<1>1. /\ targets' = Sos!InsertAt(targets, k + 1, e) /\ moved' = (moved \/ hand # Sos!Nothing)
      /\ UNCHANGED <<hand, written>>
  BY SameSize, Zenon DEF Sos!AddTarget
<1>2. targets \in Seq(Target) /\ DOMAIN targets = 1 .. n /\ n \in Nat
  BY DEF PlanInv, PlanTypes
<1>3. \A i \in 1 .. n : targets[i] \in Target /\ targets[i].priority \in Nat
  <2>1. \A i \in 1 .. n : targets[i] \in Target
    BY <1>2
  <2> QED
    BY <2>1, TargetIs
<1>4. e \in Target /\ e.priority = p /\ e.status = "pending"
  BY <1>2 DEF Target, Sos!Unfinished
<1>5. k \in 0 .. n /\ low = 1 .. k
  <2>1. low \subseteq 1 .. n
    BY <1>2
  <2>2. \A i \in low, j \in 1 .. n : j < i => j \in low
    BY <1>2, <1>3 DEF PlanInv, SortedInv, Sos!Priorities
  <2> HIDE DEF low
  <2> QED
    BY <1>2, <2>1, <2>2, FirstOnes
<1>6. \A i \in 1 .. n : targets[i].priority <= p <=> i <= k
  BY <1>2, <1>5
<1> HIDE DEF k, e, n
<1>7. /\ targets' \in Seq(Target) /\ Len(targets') = n + 1
      /\ \A i \in 1 .. n + 1 :
             targets'[i] = IF i <= k THEN targets[i] ELSE IF i = k + 1 THEN e ELSE targets[i - 1]
  <2>1. k \in 0 .. Len(targets)
    BY <1>5 DEF n
  <2>2. InsertedInto(Target, targets, k, e, Sos!InsertAt(targets, k + 1, e))
    <3>1. targets \in Seq(Target) /\ e \in Target
      BY <1>2, <1>4
    <3> QED
      BY <2>1, <3>1, InsertedAt, Zenon
  <2> QED
    BY <1>1, <2>2, Zenon DEF n, InsertedInto
<1>8. DOMAIN targets' = 1 .. n + 1
  BY <1>7
<1>9. PlanTypes'
  BY <1>1, <1>7 DEF PlanInv, PlanTypes
<1>10. SortedInv'
  <2> SUFFICES ASSUME NEW i \in 1 .. n + 1, NEW j \in 1 .. n + 1, i < j
               PROVE  targets'[i].priority <= targets'[j].priority
    BY <1>8 DEF SortedInv
  <2>1. \A a, b \in 1 .. n : a <= b => targets[a].priority <= targets[b].priority
    BY <1>2, <1>3 DEF PlanInv, SortedInv
  <2>2. CASE j <= k
    BY <1>2, <1>5, <1>7, <2>1, <2>2
  <2>3. CASE j = k + 1
    <3>1. targets'[j] = e /\ targets'[i] = targets[i] /\ i <= k /\ i \in 1 .. n
      BY <1>2, <1>5, <1>7, <2>3
    <3> QED
      BY <3>1, <1>4, <1>6
  <2>4. CASE j > k + 1
    <3>1. targets'[j] = targets[j - 1] /\ j - 1 \in 1 .. n /\ ~(j - 1 <= k)
      BY <1>2, <1>5, <1>7, <2>4
    <3>2. CASE i <= k
      <4>1. targets'[i] = targets[i] /\ i \in 1 .. n /\ i <= j - 1
        BY <1>2, <1>5, <1>7, <3>2, <2>4
      <4> QED
        BY <4>1, <3>1, <2>1
    <3>3. CASE i = k + 1
      <4>1. targets'[i] = e /\ ~(targets[j - 1].priority <= p)
        BY <1>5, <1>6, <1>7, <3>1, <3>3
      <4> QED
        BY <4>1, <3>1, <1>3, <1>4 DEF Sos!Priorities
    <3>4. CASE i > k + 1
      <4>1. targets'[i] = targets[i - 1] /\ i - 1 \in 1 .. n /\ i - 1 <= j - 1
        BY <1>2, <1>5, <1>7, <3>4
      <4> QED
        BY <4>1, <3>1, <2>1
    <3> QED
      BY <1>5, <3>2, <3>3, <3>4
  <2> QED
    BY <1>5, <2>2, <2>3, <2>4
<1>11. moved' \/ (WrittenInv' /\ HandInv')
  <2> SUFFICES ASSUME ~moved, hand = Sos!Nothing
               PROVE  WrittenInv' /\ HandInv'
    BY <1>1
  <2>1. \A i \in 1 .. n + 1 : targets'[i].status = "completed" => targets'[i].number \in written
    <3> TAKE i \in 1 .. n + 1
    <3>1. CASE i <= k
      BY <1>2, <1>5, <1>7, <3>1 DEF PlanInv, WrittenInv
    <3>2. CASE i = k + 1
      BY <1>4, <1>5, <1>7, <3>2
    <3>3. CASE i > k + 1
      <4>1. targets'[i] = targets[i - 1] /\ i - 1 \in 1 .. n
        BY <1>2, <1>5, <1>7, <3>3
      <4> QED
        BY <4>1, <1>2 DEF PlanInv, WrittenInv
    <3> QED
      BY <1>5, <3>1, <3>2, <3>3
  <2>2. WrittenInv'
    BY <1>1, <1>8, <2>1 DEF WrittenInv
  <2>3. HandInv'
    BY <1>1 DEF HandInv
  <2> QED
    BY <2>2, <2>3
<1> QED
  BY <1>9, <1>10, <1>11 DEF PlanInv

\* The client takes the first pending target.
LEMMA TargetTaken ==
    ASSUME PlanInv, Sos!TakeNext, MaxPasses \in Nat \ {0}
    PROVE  PlanInv'
<1> DEFINE m == Sos!Min(Sos!PendingAt)
<1>1. /\ hand' = [index |-> m, number |-> targets[m].number, passes |-> 0]
      /\ Sos!PendingAt # {} /\ UNCHANGED <<targets, written, moved>>
  BY Zenon DEF Sos!TakeNext
<1>2. Sos!PendingAt \subseteq Nat /\ Sos!PendingAt \subseteq DOMAIN targets
  BY DEF Sos!PendingAt, PlanInv, PlanTypes
<1>3. m \in Sos!PendingAt /\ \A i \in Sos!PendingAt : m <= i
  BY <1>1, <1>2, LeastNumber DEF Sos!Min
<1> HIDE DEF m
<1>4. m \in Nat /\ targets[m].number \in Nat
  <2>1. m \in Nat /\ targets[m] \in Target
    BY <1>2, <1>3 DEF PlanInv, PlanTypes
  <2> QED
    BY <2>1, TargetIs
<1>5. PlanTypes'
  BY <1>1, <1>4 DEF PlanInv, PlanTypes
<1>6. Sos!PendingAt' = Sos!PendingAt
  BY <1>1 DEF Sos!PendingAt
<1>7. SortedInv' /\ (WrittenInv => WrittenInv')
  BY <1>1 DEF PlanInv, SortedInv, WrittenInv
<1>8. HandInv'
  BY <1>1, <1>2, <1>3, <1>6 DEF HandInv
<1> QED
  BY <1>1, <1>5, <1>7, <1>8 DEF PlanInv

\* The client makes one more pass.
LEMMA TargetOverwritten ==
    ASSUME PlanInv, Sos!Overwrite, MaxPasses \in Nat \ {0}
    PROVE  PlanInv'
<1>1. /\ hand # Sos!Nothing /\ hand.passes < MaxPasses
      /\ hand' = [hand EXCEPT !.passes = @ + 1]
      /\ written' = IF hand.passes + 1 = MaxPasses THEN written \cup {hand.number} ELSE written
      /\ UNCHANGED <<targets, moved>>
  BY DEF Sos!Overwrite
<1>2. hand \in [index : Nat, number : Nat, passes : 0 .. MaxPasses]
  BY DEF PlanInv, PlanTypes
<1>3. /\ hand' \in [index : Nat, number : Nat, passes : 0 .. MaxPasses]
      /\ hand'.index = hand.index /\ hand'.number = hand.number /\ hand'.passes = hand.passes + 1
  BY <1>1, <1>2
<1>4. PlanTypes' /\ SortedInv' /\ (WrittenInv => WrittenInv')
  BY <1>1, <1>3 DEF PlanInv, PlanTypes, SortedInv, WrittenInv
<1>5. Sos!PendingAt' = Sos!PendingAt
  BY <1>1 DEF Sos!PendingAt
<1>6. HandInv => HandInv'
  BY <1>1, <1>3, <1>5 DEF HandInv
<1> QED
  BY <1>1, <1>4, <1>6 DEF PlanInv

\* A mark changes the status of the target at its index, if of any.
LEMMA TargetMarked ==
    ASSUME targets \in Seq(Target), SortedInv, NEW from,
           NEW s \in Sos!Unfinished \cup {"completed", "failed", "skipped"}, Sos!Marked(from, s)
    PROVE  /\ targets' \in Seq(Target) /\ SortedInv' /\ DOMAIN targets' = DOMAIN targets
           /\ \A i \in DOMAIN targets :
                 /\ targets'[i].number = targets[i].number
                 /\ targets'[i].status = targets[i].status \/ (i = hand.index /\ targets'[i].status = s)
<1> DEFINE h == hand.index
           e == [targets[h] EXCEPT !.status = s]
<1>1. targets' = IF targets[h].status \in from THEN [targets EXCEPT ![h].status = s] ELSE targets
  BY DEF Sos!Marked
<1>2. \A i \in DOMAIN targets : targets[i] \in Target
  OBVIOUS
<1>3. CASE targets' # targets /\ h \in DOMAIN targets
  <2>1. targets' = [targets EXCEPT ![h] = e]
    BY <1>1, <1>3
  <2>2. e \in Target /\ e.number = targets[h].number /\ e.priority = targets[h].priority /\ e.status = s
    BY <1>2, <1>3 DEF Target
  <2> HIDE DEF e
  <2>3. targets' \in Seq(Target) /\ DOMAIN targets' = DOMAIN targets
        /\ \A i \in DOMAIN targets : targets'[i] = IF i = h THEN e ELSE targets[i]
    BY <1>3, <2>1, <2>2
  <2>4. \A i \in DOMAIN targets : targets'[i].priority = targets[i].priority
    BY <1>3, <2>2, <2>3
  <2>5. SortedInv'
    BY <2>3, <2>4 DEF SortedInv
  <2> QED
    BY <2>2, <2>3, <2>5
<1>4. CASE ~(targets' # targets /\ h \in DOMAIN targets)
  <2>1. targets' = targets
    <3>1. [targets EXCEPT ![h].status = s] = [i \in DOMAIN targets |-> IF i = h THEN e ELSE targets[i]]
      OBVIOUS
    <3>2. h \notin DOMAIN targets => [targets EXCEPT ![h].status = s] = [i \in DOMAIN targets |-> targets[i]]
      BY <3>1
    <3>3. targets = [i \in DOMAIN targets |-> targets[i]]
      OBVIOUS
    <3> QED
      BY <1>1, <1>4, <3>2, <3>3
  <2> QED
    BY <2>1 DEF SortedInv
<1> QED
  BY <1>3, <1>4

\* mark_completed, mark_failed and mark_skipped, by the index the client was given.
LEMMA TargetReported ==
    ASSUME PlanInv, NEW s \in {"completed", "failed", "skipped"}, Sos!Report(s), hand # Sos!Nothing,
           s = "completed" => hand.passes = MaxPasses, MaxPasses \in Nat \ {0}
    PROVE  PlanInv'
<1>1. Sos!Marked(Sos!Unfinished, s) /\ hand' = Sos!Nothing /\ UNCHANGED <<written, moved>>
  BY DEF Sos!Report
<1>2. /\ targets' \in Seq(Target) /\ SortedInv' /\ DOMAIN targets' = DOMAIN targets
      /\ \A i \in DOMAIN targets :
            /\ targets'[i].number = targets[i].number
            /\ targets'[i].status = targets[i].status \/ (i = hand.index /\ targets'[i].status = s)
  BY <1>1, TargetMarked DEF PlanInv, PlanTypes
<1>3. PlanTypes' /\ HandInv'
  BY <1>1, <1>2 DEF PlanInv, PlanTypes, HandInv, Sos!Nothing
<1>4. ASSUME ~moved PROVE WrittenInv'
  <2>1. HandInv /\ WrittenInv
    BY <1>4 DEF PlanInv
  <2>2. s = "completed" => targets[hand.index].number \in written
    BY <2>1 DEF HandInv
  <2> QED
    BY <1>1, <1>2, <2>1, <2>2 DEF WrittenInv
<1> QED
  BY <1>1, <1>2, <1>3, <1>4 DEF PlanInv

\* mark_in_progress: the client keeps the target in hand.
LEMMA TargetBegun ==
    ASSUME PlanInv, Sos!MarkInProgress
    PROVE  PlanInv'
<1>1. Sos!Marked({"pending"}, "in_progress") /\ UNCHANGED <<hand, written, moved>>
  BY DEF Sos!MarkInProgress
<1>2. /\ targets' \in Seq(Target) /\ SortedInv' /\ DOMAIN targets' = DOMAIN targets
      /\ \A i \in DOMAIN targets :
            /\ targets'[i].number = targets[i].number
            /\ \/ targets'[i].status = targets[i].status
               \/ i = hand.index /\ targets'[i].status = "in_progress"
  <2>1. "in_progress" \in Sos!Unfinished \cup {"completed", "failed", "skipped"}
    BY DEF Sos!Unfinished
  <2> QED
    BY <1>1, <2>1, TargetMarked DEF PlanInv, PlanTypes
<1>3. PlanTypes' /\ (WrittenInv => WrittenInv')
  BY <1>1, <1>2 DEF PlanInv, PlanTypes, WrittenInv
<1>4. HandInv => HandInv'
  <2>1. Sos!PendingAt' \subseteq Sos!PendingAt
    BY <1>2 DEF Sos!PendingAt
  <2> QED
    BY <1>1, <1>2, <2>1 DEF HandInv
<1> QED
  BY <1>1, <1>2, <1>3, <1>4 DEF PlanInv

\* Every step of the plan and of the beacon keeps the invariant.
LEMMA PlanInvInductive ==
    ASSUME MaxPasses \in Nat \ {0}
    PROVE  PlanInv /\ [Sos!Next]_Sos!vars => PlanInv'
<1> SUFFICES ASSUME PlanInv, [Sos!Next]_Sos!vars
             PROVE  PlanInv'
  OBVIOUS
<1>1. CASE Sos!MarkCompleted
  <2>1. hand # Sos!Nothing /\ hand.passes = MaxPasses /\ Sos!Report("completed")
    BY <1>1 DEF Sos!MarkCompleted
  <2> QED
    BY <2>1, TargetReported
<1>2. CASE Sos!MarkFailed
  <2>1. hand # Sos!Nothing /\ Sos!Report("failed")
    BY <1>2 DEF Sos!MarkFailed
  <2> QED
    BY <2>1, TargetReported
<1>3. CASE Sos!NewPlan
  <2>1. targets' = <<>> /\ hand' = Sos!Nothing /\ moved' = FALSE
    BY <1>3 DEF Sos!NewPlan
  <2>2. PlanTypes'
    BY <2>1, NothingIsTyped, EmptyIsTyped DEF PlanTypes
  <2>3. SortedInv' /\ WrittenInv' /\ HandInv'
    BY <2>1 DEF SortedInv, WrittenInv, HandInv
  <2> QED
    BY <2>2, <2>3 DEF PlanInv
<1>4. CASE UNCHANGED Sos!plan
  BY <1>4 DEF Sos!plan, PlanInv, PlanTypes, SortedInv, WrittenInv, HandInv, Sos!PendingAt
<1>5. Sos!BeaconNext => UNCHANGED Sos!plan
  BY DEF Sos!BeaconNext, Sos!Activate, Sos!Cancel, Sos!NewBeacon, Sos!NextPacket
<1>6. CASE Sos!MarkSkipped
  <2>1. hand # Sos!Nothing /\ Sos!Report("skipped")
    BY <1>6 DEF Sos!MarkSkipped
  <2> QED
    BY <2>1, TargetReported
<1> QED
  BY <1>1, <1>2, <1>3, <1>4, <1>5, <1>6, TargetAdded, TargetTaken, TargetBegun, TargetOverwritten
  DEF Sos!Next, Sos!WipeNext, Sos!vars

\* A target is reported as wiped only after every pass over it, and the most urgent one is
\* wiped first, unless a target is added while the client has one in hand (add_target,
\* mark_completed, secure_wipe.rs): for any number of targets, and of passes but none.
THEOREM WipeReportsWhatItDid ==
    ASSUME MaxPasses \in Nat \ {0}
    PROVE  Sos!Spec => []Sos!WipeIsSound
<1>1. Sos!Init => PlanInv
  <2> SUFFICES ASSUME Sos!Init PROVE PlanInv
    OBVIOUS
  <2>1. targets = <<>> /\ hand = Sos!Nothing /\ moved = FALSE
    BY DEF Sos!Init
  <2>2. PlanTypes
    BY <2>1, NothingIsTyped, EmptyIsTyped DEF PlanTypes
  <2>3. SortedInv /\ WrittenInv /\ HandInv
    BY <2>1, EmptyIsTyped DEF SortedInv, WrittenInv, HandInv
  <2> QED
    BY <2>2, <2>3 DEF PlanInv
<1>2. PlanInv => Sos!WipeIsSound
  <2> SUFFICES ASSUME PlanInv, ~moved, NEW i \in DOMAIN targets
               PROVE  /\ targets[i].status = "completed" => targets[i].number \in written
                      /\ hand # Sos!Nothing /\ i \in Sos!PendingAt =>
                             targets[i].priority >= targets[hand.index].priority
    BY DEF Sos!WipeIsSound
  <2>1. targets[i].status = "completed" => targets[i].number \in written
    BY DEF PlanInv, WrittenInv
  <2>2. ASSUME hand # Sos!Nothing, i \in Sos!PendingAt
        PROVE  targets[i].priority >= targets[hand.index].priority
    <3>1. hand.index \in DOMAIN targets /\ hand.index <= i
      BY <2>2 DEF PlanInv, HandInv, Sos!PendingAt
    <3>2. targets[i].priority \in Nat /\ targets[hand.index].priority \in Nat
      BY <3>1, TargetIs DEF PlanInv, PlanTypes
    <3>3. i \in Nat /\ hand.index \in Nat
      BY <3>1 DEF PlanInv, PlanTypes
    <3> QED
      BY <3>1, <3>2, <3>3 DEF PlanInv, SortedInv
  <2> QED
    BY <2>1, <2>2
<1> QED
  BY <1>1, <1>2, PlanInvInductive, PTL DEF Sos!Spec

\* The light, the screen and the flashes as the mode has them; the app is there while they
\* are.
TorchInv ==
    /\ torchMode \in {"off", "on", "sos"} /\ (bright = TRUE => torchMode = "on")
    /\ torchMode = "off" => white = FALSE
    /\ lit = TRUE => torchMode = "sos"
    /\ torchMode # "off" => alive = TRUE

\* apply_mode and set_backlight: what was is stopped before the new mode begins.
LEMMA ApplyKeeps ==
    ASSUME TorchInv, NEW new \in {"off", "on", "sos"}, Sos!Apply(new), new # "off" => alive' = TRUE
    PROVE  TorchInv'
<1>1. torchMode' = new /\ (new = "off" => white' = FALSE)
  BY DEF Sos!Apply
<1>2. bright' = TRUE => new = "on"
  <2>1. bright' = (IF new = "on" THEN TRUE ELSE IF torchMode = "on" THEN FALSE ELSE bright)
    BY DEF Sos!Apply, Sos!LeavesBright
  <2> QED
    BY <2>1 DEF TorchInv
<1>3. lit' = TRUE => new = "sos"
  <2>1. lit' = IF torchMode = "sos" \/ new = "sos" THEN FALSE ELSE lit
    BY DEF Sos!Apply
  <2> QED
    BY <2>1 DEF TorchInv
<1> QED
  BY <1>1, <1>2, <1>3 DEF TorchInv

\* When the light is out, or the app paused or gone, the screen is dark and the backlight
\* down again, whatever it was before (apply_mode, on_pause, on_destroy, tk_flashlight.rs).
THEOREM LightGoesOutForGood == Sos!Spec => []Sos!LightGoesOut
<1>1. Sos!Init => TorchInv
  BY DEF Sos!Init, Sos!TorchInit, TorchInv
<1>2. TorchInv /\ [Sos!Next]_Sos!vars => TorchInv'
  <2> SUFFICES ASSUME TorchInv, [Sos!Next]_Sos!vars
               PROVE  TorchInv'
    OBVIOUS
  <2>1. CASE Sos!Create
    BY <2>1 DEF Sos!Create, TorchInv
  <2>2. CASE Sos!Toggle
    <3>1. PICK new \in {"off", "on"} : Sos!Apply(new)
      BY <2>2 DEF Sos!Toggle
    <3>2. alive = TRUE /\ alive' = TRUE
      BY <2>2 DEF Sos!Toggle
    <3> QED
      BY <3>1, <3>2, ApplyKeeps
  <2>3. CASE Sos!ToggleSos
    <3>1. PICK new \in {"off", "sos"} : Sos!Apply(new)
      BY <2>3 DEF Sos!ToggleSos
    <3>2. alive = TRUE /\ alive' = TRUE
      BY <2>3 DEF Sos!ToggleSos
    <3> QED
      BY <3>1, <3>2, ApplyKeeps
  <2>4. CASE Sos!Pause
    BY <2>4, ApplyKeeps DEF Sos!Pause
  <2>5. CASE Sos!Destroy
    <3>1. CASE torchMode # "off"
      BY <2>5, <3>1, ApplyKeeps DEF Sos!Destroy
    <3>2. CASE torchMode = "off"
      BY <2>5, <3>2 DEF Sos!Destroy, TorchInv
    <3> QED
      BY <3>1, <3>2
  <2>6. CASE Sos!Pass
    BY <2>6 DEF Sos!Pass, TorchInv
  <2>7. CASE Sos!Advance
    <3>1. torchMode = "sos" /\ UNCHANGED <<alive, torchMode, bright>>
      BY <2>7 DEF Sos!Advance
    <3> QED
      BY <3>1 DEF TorchInv
  <2>8. CASE UNCHANGED Sos!torch
    BY <2>8 DEF Sos!torch, TorchInv
  <2> QED
    BY <2>1, <2>2, <2>3, <2>4, <2>5, <2>6, <2>7, <2>8 DEF Sos!Next, Sos!TorchNext, Sos!vars
<1>3. TorchInv => Sos!LightGoesOut
  BY DEF TorchInv, Sos!LightGoesOut
<1> QED
  BY <1>1, <1>2, <1>3, PTL DEF Sos!Spec

-----------------------------------------------------------------------------
(* The notifications that leave the list                                   *)

\* evict_if_needed takes the first element of the first class that is not empty: whatever
\* stays is of the same class and younger, or of a later one.

CONSTANTS
    Sources,   \* app ids
    Capacity,  \* max_capacity of the manager
    MaxPosts,  \* bound on the notifications ever posted
    MaxNow     \* bound on the times of expiry

VARIABLES
    list,      \* Vec of notifications
    nextNote   \* the id the next notification gets

Notes == INSTANCE Notifications WITH nextId <- nextNote

\* The notifications.
Note ==
    [id : Nat, app : Sources, priority : Notes!Priorities, progress : Int,
     expires : Nat, read : BOOLEAN, dismissed : BOOLEAN]

\* The list is in the order of posting, with ids that were given out.
NotesInv ==
    /\ list \in Seq(Note) /\ nextNote \in Nat
    /\ \A i \in DOMAIN list : list[i].id < nextNote
    /\ \A i, j \in DOMAIN list : i < j => list[i].id < list[j].id

\* The fields of a notification that tell how much it is wanted.
LEMMA NoteIs ==
    ASSUME NEW n \in Note
    PROVE  /\ n.id \in Nat /\ n.priority \in 0 .. 3 /\ n.dismissed \in BOOLEAN
           /\ n.priority + 1 \in 1 .. 4 /\ (n.priority + 1) - 1 = n.priority
<1>1. n.id \in Nat /\ n.priority \in 0 .. 3
  BY DEF Note, Notes!Priorities
<1>2. n.dismissed \in BOOLEAN
  BY DEF Note
<1> QED
  BY <1>1, <1>2

\* The classes evict_if_needed looks through, the first one that is not empty.
Classes ==
    <<Notes!Candidates(TRUE, 0), Notes!Candidates(TRUE, 1), Notes!Candidates(TRUE, 2),
      Notes!Candidates(TRUE, 3), Notes!Candidates(FALSE, 0), DOMAIN list>>

\* The index is the first of the first class that is not empty.
IsEvicted(i) ==
    \E k \in DOMAIN Classes :
        /\ \A j \in 1 .. k - 1 : Classes[j] = {}
        /\ Classes[k] # {} /\ i = Notes!Min(Classes[k])

\* The classes, one by one.
LEMMA ClassesAre ==
    ASSUME NotesInv
    PROVE  /\ DOMAIN Classes = 1 .. 6
           /\ \A k \in 1 .. 6 : Classes[k] \subseteq DOMAIN list
           /\ Classes[6] = DOMAIN list
           /\ \A k \in 1 .. 4 : Classes[k] = Notes!Candidates(TRUE, k - 1)
           /\ Classes[5] = Notes!Candidates(FALSE, 0)
BY DEF Classes, Notes!Candidates

\* A class that is not empty has a first element.
LEMMA LeastOfClass ==
    ASSUME NotesInv, NEW T, T \subseteq DOMAIN list, T # {}
    PROVE  Notes!Min(T) \in T /\ \A t \in T : Notes!Min(T) <= t
<1>1. T \subseteq Nat
  BY DEF NotesInv
<1> QED
  BY <1>1, LeastNumber DEF Notes!Min

\* evict_if_needed finds one, of the first class that is not empty.
LEMMA EvictedIs ==
    ASSUME NotesInv, list # <<>>
    PROVE  /\ Notes!Evicted \in DOMAIN list
           /\ \E k \in 1 .. 6 :
                 /\ \A j \in 1 .. k - 1 : Classes[j] = {}
                 /\ Notes!Evicted \in Classes[k] /\ \A i \in Classes[k] : Notes!Evicted <= i
<1> DEFINE full == {k \in 1 .. 6 : Classes[k] # {}}
<1>1. 6 \in full
  <2>1. 1 \in DOMAIN list
    BY DEF NotesInv
  <2> QED
    BY <2>1, ClassesAre
<1>2. PICK k \in full : \A j \in full : k <= j
  <2>1. full \subseteq Nat
    OBVIOUS
  <2> QED
    BY <1>1, <2>1, LeastNumber
<1>3. IsEvicted(Notes!Min(Classes[k])) /\ Notes!Min(Classes[k]) \in DOMAIN list
  <2>1. k \in DOMAIN Classes /\ Classes[k] # {} /\ Classes[k] \subseteq DOMAIN list
    BY ClassesAre
  <2>2. \A j \in 1 .. k - 1 : Classes[j] = {}
    BY <1>2
  <2>3. Notes!Min(Classes[k]) \in DOMAIN list
    BY <2>1, LeastOfClass
  <2> QED
    BY <2>1, <2>2, <2>3 DEF IsEvicted
<1>4. Notes!Evicted = CHOOSE i \in DOMAIN list : IsEvicted(i)
  BY Zenon DEF Notes!Evicted, IsEvicted, Classes
<1>5. Notes!Evicted \in DOMAIN list /\ IsEvicted(Notes!Evicted)
  BY <1>3, <1>4, Zenon
<1>6. PICK n \in DOMAIN Classes : /\ \A j \in 1 .. n - 1 : Classes[j] = {}
                                  /\ Classes[n] # {} /\ Notes!Evicted = Notes!Min(Classes[n])
  BY <1>5, Zenon DEF IsEvicted
<1>7. n \in 1 .. 6 /\ Classes[n] \subseteq DOMAIN list
  BY ClassesAre
<1>8. Notes!Evicted \in Classes[n] /\ \A i \in Classes[n] : Notes!Evicted <= i
  BY <1>6, <1>7, LeastOfClass
<1> QED
  BY <1>5, <1>6, <1>7, <1>8

\* What it finds is wanted less than any other.
LEMMA EvictedIsLeastWanted ==
    ASSUME NotesInv, list # <<>>, NEW j \in DOMAIN list, j # Notes!Evicted
    PROVE  /\ Notes!Evicted \in DOMAIN list
           /\ list[j].dismissed => /\ list[Notes!Evicted].dismissed
                                   /\ list[Notes!Evicted].priority <= list[j].priority
           /\ /\ list[Notes!Evicted].dismissed = list[j].dismissed
              /\ list[Notes!Evicted].priority = list[j].priority
              => list[Notes!Evicted].id < list[j].id
<1> DEFINE e == Notes!Evicted
<1>1. e \in DOMAIN list
  BY EvictedIs
<1>2. PICK k \in 1 .. 6 : /\ \A n \in 1 .. k - 1 : Classes[n] = {}
                          /\ e \in Classes[k] /\ \A i \in Classes[k] : e <= i
  BY EvictedIs
<1> HIDE DEF e
<1>3. /\ list[j] \in Note /\ list[e] \in Note
      /\ list[j].priority \in 0 .. 3 /\ list[e].priority \in 0 .. 3
      /\ list[j].dismissed \in BOOLEAN /\ list[e].dismissed \in BOOLEAN
  <2>1. list[j] \in Note /\ list[e] \in Note
    BY <1>1 DEF NotesInv
  <2> QED
    BY <2>1, NoteIs
<1>4. list[j].dismissed = TRUE => j \in Classes[list[j].priority + 1]
  <2>1. list[j].priority + 1 \in 1 .. 4 /\ (list[j].priority + 1) - 1 = list[j].priority
    BY <1>3, NoteIs
  <2>2. Classes[list[j].priority + 1] = Notes!Candidates(TRUE, list[j].priority)
    BY <2>1, ClassesAre
  <2> QED
    BY <2>2 DEF Notes!Candidates
<1>5. list[j].dismissed = TRUE => k <= list[j].priority + 1
  <2>1. list[j].priority + 1 \in 1 .. 4
    BY <1>3, NoteIs
  <2>2. CASE list[j].priority + 1 \in 1 .. k - 1
    BY <1>2, <1>4, <2>2
  <2>3. CASE list[j].priority + 1 \notin 1 .. k - 1
    BY <2>1, <2>3
  <2> QED
    BY <2>2, <2>3
<1>6. k <= 4 => list[e].dismissed = TRUE /\ list[e].priority = k - 1
  <2> HAVE k <= 4
  <2>1. k \in 1 .. 4
    OBVIOUS
  <2>2. e \in Notes!Candidates(TRUE, k - 1)
    BY <1>2, <2>1, ClassesAre
  <2> QED
    BY <2>2 DEF Notes!Candidates
<1>7. list[j].dismissed = TRUE => list[e].dismissed = TRUE /\ list[e].priority <= list[j].priority
  BY <1>3, <1>5, <1>6
<1>8. ASSUME list[e].dismissed = list[j].dismissed, list[e].priority = list[j].priority
      PROVE  j \in Classes[k]
  <2>1. CASE k \in 1 .. 4
    <3>1. Classes[k] = Notes!Candidates(TRUE, k - 1)
      BY <2>1, ClassesAre
    <3>2. list[j].dismissed = TRUE /\ list[j].priority = k - 1
      BY <1>6, <1>8, <2>1
    <3> QED
      BY <3>1, <3>2 DEF Notes!Candidates
  <2>2. CASE k = 5
    BY <1>2, <1>8, <2>2, ClassesAre DEF Notes!Candidates
  <2>3. CASE k = 6
    BY <2>3, ClassesAre
  <2> QED
    BY <2>1, <2>2, <2>3
<1>9. j \in Classes[k] => list[e].id < list[j].id
  <2> HAVE j \in Classes[k]
  <2>1. e <= j /\ e # j /\ e \in Nat /\ j \in Nat
    BY <1>1, <1>2 DEF NotesInv, e
  <2> QED
    BY <1>1, <2>1 DEF NotesInv
<1> QED
  BY <1>1, <1>7, <1>8, <1>9 DEF e

\* rest is the sequence s without its element k.
RemovedFrom(S, s, k, rest) ==
    /\ rest \in Seq(S) /\ Len(rest) = Len(s) - 1
    /\ \A i \in 1 .. Len(s) - 1 : rest[i] = IF i < k THEN s[i] ELSE s[i + 1]

\* RemoveAt removes.
LEMMA RemovedAt ==
    ASSUME NEW S, NEW s \in Seq(S), NEW k \in 1 .. Len(s)
    PROVE  RemovedFrom(S, s, k, Notes!RemoveAt(s, k))
<1> DEFINE a == SubSeq(s, 1, k - 1)
           b == SubSeq(s, k + 1, Len(s))
<1>1. a \in Seq(S) /\ Len(a) = k - 1 /\ \A i \in 1 .. k - 1 : a[i] = s[i]
  OBVIOUS
<1>2. b \in Seq(S) /\ Len(b) = Len(s) - k /\ \A i \in 1 .. Len(s) - k : b[i] = s[k + i]
  OBVIOUS
<1>3. Notes!RemoveAt(s, k) = a \o b
  BY Zenon DEF Notes!RemoveAt
<1> HIDE DEF a, b
<1>4. /\ a \o b \in Seq(S) /\ Len(a \o b) = Len(a) + Len(b)
      /\ \A i \in 1 .. Len(a) + Len(b) : (a \o b)[i] = IF i <= Len(a) THEN a[i] ELSE b[i - Len(a)]
  <2>1. a \in Seq(S) /\ b \in Seq(S)
    BY <1>1, <1>2
  <2> QED
    BY <2>1
<1>5. Len(a) + Len(b) = Len(s) - 1
  BY <1>1, <1>2
<1>6. ASSUME NEW i \in 1 .. Len(s) - 1
      PROVE  (a \o b)[i] = IF i < k THEN s[i] ELSE s[i + 1]
  <2>1. (a \o b)[i] = IF i <= Len(a) THEN a[i] ELSE b[i - Len(a)]
    BY <1>4, <1>5
  <2>2. CASE i < k
    <3>1. i \in 1 .. k - 1
      BY <2>2
    <3>2. (a \o b)[i] = a[i]
      BY <1>1, <2>1, <3>1
    <3> QED
      BY <1>1, <2>2, <3>1, <3>2
  <2>3. CASE i >= k
    <3>1. i - (k - 1) \in 1 .. Len(s) - k /\ k + (i - (k - 1)) = i + 1
      BY <2>3
    <3>2. (a \o b)[i] = b[i - (k - 1)]
      BY <1>1, <2>1, <2>3
    <3> QED
      BY <1>2, <2>3, <3>1, <3>2
  <2>4. i < k \/ i >= k
    OBVIOUS
  <2> QED
    BY <2>2, <2>3, <2>4, Zenon
<1>7. Notes!RemoveAt(s, k) \in Seq(S) /\ Len(Notes!RemoveAt(s, k)) = Len(s) - 1
  BY <1>3, <1>4, <1>5
<1>8. \A i \in 1 .. Len(s) - 1 : Notes!RemoveAt(s, k)[i] = IF i < k THEN s[i] ELSE s[i + 1]
  BY <1>3, <1>6
<1> QED
  BY <1>7, <1>8 DEF RemovedFrom

\* After evict_if_needed the list is as it was, but for the one that goes.
LEMMA KeptIs ==
    ASSUME NotesInv
    PROVE  /\ Notes!Kept \in Seq(Note)
           /\ \A i \in DOMAIN Notes!Kept : Notes!Kept[i].id < nextNote
           /\ \A i, j \in DOMAIN Notes!Kept : i < j => Notes!Kept[i].id < Notes!Kept[j].id
           /\ \A i \in DOMAIN list : \/ list # <<>> /\ i = Notes!Evicted
                                    \/ \E m \in DOMAIN Notes!Kept : Notes!Kept[m] = list[i]
<1>1. CASE Notes!Kept = list
  BY <1>1 DEF NotesInv
<1>2. CASE Notes!Kept # list
  <2> DEFINE e == Notes!Evicted
             kept == Notes!RemoveAt(list, e)
             n == Len(list)
  <2>1. Notes!Kept = kept /\ list # <<>>
    BY <1>2, Zenon DEF Notes!Kept
  <2>2. list \in Seq(Note) /\ e \in 1 .. n /\ n \in Nat /\ DOMAIN list = 1 .. n
    BY <2>1, EvictedIs DEF NotesInv
  <2> HIDE DEF e
  <2>3. RemovedFrom(Note, list, e, kept)
    <3>1. e \in 1 .. Len(list)
      BY <2>2
    <3> QED
      BY <2>2, <3>1, RemovedAt, Zenon
  <2> HIDE DEF kept
  <2>4. /\ kept \in Seq(Note) /\ DOMAIN kept = 1 .. n - 1
        /\ \A i \in 1 .. n - 1 : kept[i] = IF i < e THEN list[i] ELSE list[i + 1]
    BY <2>2, <2>3 DEF RemovedFrom
  <2> HIDE DEF n
  <2>5. \A i \in 1 .. n : \A j \in 1 .. n : i < j => list[i].id < list[j].id
    BY <2>2 DEF NotesInv
  <2>6. \A i \in 1 .. n - 1 : kept[i].id < nextNote
    <3> TAKE i \in 1 .. n - 1
    <3>1. i \in 1 .. n /\ i + 1 \in 1 .. n
      BY <2>2
    <3> QED
      BY <2>2, <2>4, <3>1 DEF NotesInv
  <2>7. ASSUME NEW i \in 1 .. n - 1, NEW j \in 1 .. n - 1, i < j PROVE kept[i].id < kept[j].id
    <3>1. i \in 1 .. n /\ i + 1 \in 1 .. n /\ j \in 1 .. n /\ j + 1 \in 1 .. n
      BY <2>2
    <3>2. PICK a \in {i, i + 1} : kept[i] = list[a] /\ (a = i + 1 => ~(i < e))
      BY <2>4
    <3>3. PICK b \in {j, j + 1} : kept[j] = list[b] /\ (b = j => j < e)
      BY <2>4
    <3>4. a \in 1 .. n /\ b \in 1 .. n /\ a < b
      BY <2>2, <2>7, <3>1, <3>2, <3>3
    <3> QED
      BY <2>5, <3>2, <3>3, <3>4
  <2>8. ASSUME NEW i \in 1 .. n, i # e PROVE \E m \in 1 .. n - 1 : kept[m] = list[i]
    <3>1. CASE i < e
      <4>1. i \in 1 .. n - 1
        BY <2>2, <3>1
      <4> QED
        BY <2>4, <3>1, <4>1
    <3>2. CASE i > e
      <4>1. i - 1 \in 1 .. n - 1 /\ ~(i - 1 < e) /\ (i - 1) + 1 = i
        BY <2>2, <3>2
      <4> QED
        BY <2>4, <4>1
    <3> QED
      BY <2>2, <2>8, <3>1, <3>2
  <2>9. \A i, j \in DOMAIN kept : i < j => kept[i].id < kept[j].id
    BY <2>4, <2>7, Zenon
  <2>10. \A i \in DOMAIN list : \/ list # <<>> /\ i = e
                                \/ \E m \in DOMAIN kept : kept[m] = list[i]
    BY <2>1, <2>2, <2>4, <2>8, Zenon
  <2>11. kept \in Seq(Note) /\ \A i \in DOMAIN kept : kept[i].id < nextNote
    BY <2>4, <2>6, Zenon
  <2> QED
    BY <2>1, <2>9, <2>10, <2>11, Zenon DEF e
<1> QED
  BY <1>1, <1>2

\* The one is wanted less than the other.
LeastWanted(gone, stays) ==
    /\ stays.dismissed => gone.dismissed /\ gone.priority <= stays.priority
    /\ gone.dismissed = stays.dismissed /\ gone.priority = stays.priority => gone.id < stays.id

\* What leaves the list is wanted less than all that stay.
Wanted ==
    \A gone, stays \in Notes!ToSet(list) :
        gone.id \notin Notes!Ids' /\ stays.id \in Notes!Ids' => LeastWanted(gone, stays)

\* post, post_with_expiry and post_progress.
LEMMA Posted ==
    ASSUME NotesInv, NEW app \in Sources, NEW priority \in Notes!Priorities, NEW progress \in Int,
           NEW expires \in Nat, Notes!Post(app, priority, progress, expires)
    PROVE  NotesInv' /\ Wanted
<1> DEFINE new == [id |-> nextNote, app |-> app, priority |-> priority, progress |-> progress,
                   expires |-> expires, read |-> FALSE, dismissed |-> FALSE]
           kept == Notes!Kept
<1>1. list' = Append(kept, new) /\ nextNote' = nextNote + 1
  BY Zenon DEF Notes!Post
<1>2. new \in Note /\ new.id = nextNote /\ nextNote \in Nat
  BY DEF NotesInv, Note
<1> HIDE DEF new
<1>3. /\ kept \in Seq(Note) /\ \A i \in DOMAIN kept : kept[i].id < nextNote
      /\ \A i, j \in DOMAIN kept : i < j => kept[i].id < kept[j].id
  BY KeptIs
<1>4. \A i \in DOMAIN list : \/ list # <<>> /\ i = Notes!Evicted
                            \/ \E m \in DOMAIN kept : kept[m] = list[i]
  BY KeptIs
<1> HIDE DEF kept
<1>5. /\ list' \in Seq(Note) /\ DOMAIN list' = 1 .. Len(kept) + 1 /\ DOMAIN kept = 1 .. Len(kept)
      /\ Len(kept) \in Nat
      /\ \A i \in 1 .. Len(kept) + 1 : list'[i] = IF i = Len(kept) + 1 THEN new ELSE kept[i]
  BY <1>1, <1>2, <1>3
<1>6. \A i \in DOMAIN kept : kept[i].id \in Nat
  <2>1. \A i \in DOMAIN kept : kept[i] \in Note
    BY <1>3
  <2> QED
    BY <2>1, NoteIs
<1>7. \A i \in DOMAIN list' : list'[i].id < nextNote'
  <2> TAKE i \in DOMAIN list'
  <2>1. CASE i = Len(kept) + 1
    BY <1>1, <1>2, <1>5, <2>1
  <2>2. CASE i # Len(kept) + 1
    <3>1. i \in DOMAIN kept /\ list'[i] = kept[i]
      BY <1>5, <2>2
    <3>2. kept[i].id < nextNote /\ kept[i].id \in Nat
      BY <1>3, <1>6, <3>1
    <3> QED
      BY <1>1, <1>2, <3>1, <3>2
  <2> QED
    BY <2>1, <2>2
<1>8. \A i, j \in DOMAIN list' : i < j => list'[i].id < list'[j].id
  <2> SUFFICES ASSUME NEW i \in DOMAIN list', NEW j \in DOMAIN list', i < j
               PROVE  list'[i].id < list'[j].id
    OBVIOUS
  <2>1. i \in DOMAIN kept /\ list'[i] = kept[i]
    BY <1>5
  <2>2. CASE j = Len(kept) + 1
    BY <1>2, <1>3, <1>5, <2>1, <2>2
  <2>3. CASE j # Len(kept) + 1
    <3>1. j \in DOMAIN kept /\ list'[j] = kept[j]
      BY <1>5, <2>3
    <3> QED
      BY <1>3, <2>1, <3>1
  <2> QED
    BY <2>2, <2>3
<1>9. NotesInv'
  BY <1>1, <1>2, <1>5, <1>7, <1>8 DEF NotesInv
<1>10. Wanted
  <2> SUFFICES ASSUME NEW i \in DOMAIN list, NEW j \in DOMAIN list,
                      list[i].id \notin Notes!Ids', list[j].id \in Notes!Ids'
               PROVE  LeastWanted(list[i], list[j])
    BY DEF Wanted, Notes!ToSet
  <2>1. \A m \in DOMAIN kept : kept[m].id \in Notes!Ids'
    <3> TAKE m \in DOMAIN kept
    <3>1. m \in DOMAIN list' /\ list'[m] = kept[m]
      BY <1>5
    <3> QED
      BY <3>1 DEF Notes!Ids
  <2>2. list # <<>> /\ i = Notes!Evicted
    BY <1>4, <2>1
  <2>3. j # i
    OBVIOUS
  <2> QED
    BY <2>2, <2>3, EvictedIsLeastWanted DEF LeastWanted
<1> QED
  BY <1>9, <1>10

\* Nothing leaves the list when notifications are changed and keep their ids.
LEMMA Changed ==
    ASSUME NotesInv, NEW f, list' = [i \in DOMAIN list |-> f[i]], nextNote' = nextNote,
           \A i \in DOMAIN list : f[i] \in Note /\ f[i].id = list[i].id
    PROVE  NotesInv' /\ Wanted
<1>1. list \in Seq(Note)
  BY DEF NotesInv
<1>2. /\ list' \in Seq(Note) /\ DOMAIN list' = DOMAIN list
      /\ \A i \in DOMAIN list : list'[i].id = list[i].id
  BY <1>1
<1>3. NotesInv'
  BY <1>2 DEF NotesInv
<1>4. \A i \in DOMAIN list : list[i].id \in Notes!Ids'
  BY <1>2 DEF Notes!Ids
<1> QED
  BY <1>3, <1>4 DEF Wanted, Notes!ToSet

\* Nothing happens.
LEMMA Unchanged ==
    ASSUME NotesInv, UNCHANGED Notes!vars
    PROVE  NotesInv' /\ Wanted
<1>1. list' = list /\ nextNote' = nextNote
  BY DEF Notes!vars
<1>2. NotesInv'
  BY <1>1 DEF NotesInv
<1> QED
  BY <1>1, <1>2 DEF Wanted, Notes!ToSet, Notes!Ids

\* A notification that is dismissed or read is one, with its id.
LEMMA NoteWritten ==
    ASSUME NEW n \in Note
    PROVE  /\ [n EXCEPT !.dismissed = TRUE] \in Note /\ [n EXCEPT !.dismissed = TRUE].id = n.id
           /\ [n EXCEPT !.read = TRUE] \in Note /\ [n EXCEPT !.read = TRUE].id = n.id
BY DEF Note

\* And so is one whose progress changes.
LEMMA NoteProgresses ==
    ASSUME NEW n \in Note, NEW p \in Int
    PROVE  [n EXCEPT !.progress = p] \in Note /\ [n EXCEPT !.progress = p].id = n.id
BY DEF Note

\* Some notifications are dismissed.
LEMMA Dismissing ==
    ASSUME NotesInv, NEW some, nextNote' = nextNote,
           list' = [i \in DOMAIN list |-> IF i \in some THEN [list[i] EXCEPT !.dismissed = TRUE] ELSE list[i]]
    PROVE  NotesInv' /\ Wanted
<1> DEFINE f == [i \in DOMAIN list |-> IF i \in some THEN [list[i] EXCEPT !.dismissed = TRUE] ELSE list[i]]
<1>1. ASSUME NEW i \in DOMAIN list PROVE f[i] \in Note /\ f[i].id = list[i].id
  <2>1. list[i] \in Note
    BY DEF NotesInv
  <2> QED
    BY <2>1, NoteWritten
<1>2. list' = [i \in DOMAIN list |-> f[i]]
  OBVIOUS
<1> HIDE DEF f
<1> QED
  BY <1>1, <1>2, Changed

\* update_progress.
LEMMA Progressing ==
    ASSUME NotesInv, NEW id, Notes!UpdateProgress(id, 200)
    PROVE  NotesInv' /\ Wanted
<1> DEFINE p == Notes!Min({200, 100})
           f == [i \in DOMAIN list |-> IF list[i].id = id /\ list[i].progress # -1
                                       THEN [list[i] EXCEPT !.progress = p] ELSE list[i]]
<1>1. list' = f /\ nextNote' = nextNote
  BY DEF Notes!UpdateProgress, Notes!Change
<1>2. p \in Int
  <2>1. \E m \in {200, 100} : \A t \in {200, 100} : m <= t
    OBVIOUS
  <2> QED
    BY <2>1 DEF Notes!Min
<1> HIDE DEF p
<1>3. ASSUME NEW i \in DOMAIN list PROVE f[i] \in Note /\ f[i].id = list[i].id
  <2>1. list[i] \in Note
    BY DEF NotesInv
  <2> QED
    BY <1>2, <2>1, NoteProgresses
<1>4. list' = [i \in DOMAIN list |-> f[i]]
  BY <1>1
<1> HIDE DEF f
<1> QED
  BY <1>1, <1>3, <1>4, Changed

\* mark_read.
LEMMA Reading ==
    ASSUME NotesInv, NEW id, Notes!MarkRead(id)
    PROVE  NotesInv' /\ Wanted
<1> DEFINE f == [i \in DOMAIN list |-> IF list[i].id = id THEN [list[i] EXCEPT !.read = TRUE] ELSE list[i]]
<1>1. list' = f /\ nextNote' = nextNote
  BY DEF Notes!MarkRead, Notes!Change
<1>2. ASSUME NEW i \in DOMAIN list PROVE f[i] \in Note /\ f[i].id = list[i].id
  <2>1. list[i] \in Note
    BY DEF NotesInv
  <2> QED
    BY <2>1, NoteWritten
<1>3. list' = [i \in DOMAIN list |-> f[i]]
  BY <1>1
<1> HIDE DEF f
<1> QED
  BY <1>1, <1>2, <1>3, Changed

\* dismiss, dismiss_all_from_app, expire_old and clear_all.
LEMMA Dismissals ==
    ASSUME NotesInv,
           \/ \E id \in Notes!Ids : Notes!Dismiss(id)
           \/ \E app \in Sources : Notes!DismissAllFromApp(app)
           \/ \E now \in 1 .. MaxNow : Notes!ExpireOld(now)
           \/ Notes!ClearAll
    PROVE  NotesInv' /\ Wanted
<1>1. ASSUME NEW id \in Notes!Ids, Notes!Dismiss(id) PROVE NotesInv' /\ Wanted
  <2> DEFINE some == {i \in DOMAIN list : list[i].id = id}
  <2>1. list' = [i \in DOMAIN list |-> IF i \in some THEN [list[i] EXCEPT !.dismissed = TRUE] ELSE list[i]]
        /\ nextNote' = nextNote
    BY <1>1 DEF Notes!Dismiss, Notes!Change, Notes!Dismissed
  <2> HIDE DEF some
  <2> QED
    BY <2>1, Dismissing
<1>2. ASSUME NEW app \in Sources, Notes!DismissAllFromApp(app) PROVE NotesInv' /\ Wanted
  <2> DEFINE some == {i \in DOMAIN list : list[i].app = app}
  <2>1. list' = [i \in DOMAIN list |-> IF i \in some THEN [list[i] EXCEPT !.dismissed = TRUE] ELSE list[i]]
        /\ nextNote' = nextNote
    BY <1>2 DEF Notes!DismissAllFromApp, Notes!Change, Notes!Dismissed
  <2> HIDE DEF some
  <2> QED
    BY <2>1, Dismissing
<1>3. ASSUME NEW now \in 1 .. MaxNow, Notes!ExpireOld(now) PROVE NotesInv' /\ Wanted
  <2> DEFINE some == {i \in DOMAIN list : now >= list[i].expires}
  <2>1. list' = [i \in DOMAIN list |-> IF i \in some THEN [list[i] EXCEPT !.dismissed = TRUE] ELSE list[i]]
        /\ nextNote' = nextNote
    BY <1>3 DEF Notes!ExpireOld, Notes!Change, Notes!Dismissed
  <2> HIDE DEF some
  <2> QED
    BY <2>1, Dismissing
<1>4. CASE Notes!ClearAll
  <2> DEFINE some == DOMAIN list
  <2>1. list' = [i \in DOMAIN list |-> IF i \in some THEN [list[i] EXCEPT !.dismissed = TRUE] ELSE list[i]]
        /\ nextNote' = nextNote
    BY <1>4 DEF Notes!ClearAll, Notes!Change, Notes!Dismissed, Notes!Anything
  <2> HIDE DEF some
  <2> QED
    BY <2>1, Dismissing
<1> QED
  BY <1>1, <1>2, <1>3, <1>4

\* Every step keeps the invariant, and lets go of what is wanted least.
LEMMA NotesStep ==
    ASSUME MaxNow \in Nat
    PROVE  NotesInv /\ [Notes!Next]_Notes!vars => NotesInv' /\ Wanted
<1> SUFFICES ASSUME NotesInv, [Notes!Next]_Notes!vars
             PROVE  NotesInv' /\ Wanted
  OBVIOUS
<1>1. 1 \in Notes!Priorities /\ 3 \in Notes!Priorities /\ -1 \in Int /\ 0 \in Int
  BY DEF Notes!Priorities
<1>2. Notes!Never \in Nat
  BY DEF Notes!Never
<1>3. ASSUME NEW a \in Sources, NEW p \in Notes!Priorities, Notes!Post(a, p, -1, Notes!Never)
      PROVE  NotesInv' /\ Wanted
  BY <1>1, <1>2, <1>3, Posted
<1>4. ASSUME NEW a \in Sources, NEW p \in {1, 3}, NEW t \in 1 .. MaxNow, Notes!Post(a, p, -1, t)
      PROVE  NotesInv' /\ Wanted
  <2>1. p \in Notes!Priorities /\ t \in Nat
    BY <1>1
  <2> QED
    BY <1>1, <1>4, <2>1, Posted
<1>5. ASSUME NEW a \in Sources, Notes!Post(a, 1, 0, Notes!Never)
      PROVE  NotesInv' /\ Wanted
  BY <1>1, <1>2, <1>5, Posted
<1> QED
  BY <1>3, <1>4, <1>5, Progressing, Reading, Dismissals, Unchanged DEF Notes!Next

\* A notification leaves the list only if it was wanted less than all that stay
\* (evict_if_needed, notification.rs): for any sources, any capacity and any number of
\* notifications.
THEOREM LeastWantedNoteGoes ==
    ASSUME MaxNow \in Nat
    PROVE  Notes!Spec => Notes!LeastWantedGoes
<1>1. Notes!Init => NotesInv
  <2> SUFFICES ASSUME Notes!Init PROVE NotesInv
    OBVIOUS
  <2>1. list = <<>> /\ nextNote = 1
    BY DEF Notes!Init
  <2>2. <<>> \in Seq(Note) /\ DOMAIN <<>> = {}
    OBVIOUS
  <2> QED
    BY <2>1, <2>2 DEF NotesInv
<1>2. NotesInv /\ [Notes!Next]_Notes!vars => NotesInv' /\ Wanted
  BY NotesStep
<1>3. Wanted => (\A gone, stays \in Notes!ToSet(list) :
                    gone.id \notin Notes!Ids' /\ stays.id \in Notes!Ids' =>
                        /\ stays.dismissed => gone.dismissed /\ gone.priority <= stays.priority
                        /\ gone.dismissed = stays.dismissed /\ gone.priority = stays.priority =>
                               gone.id < stays.id)
  BY Zenon DEF Wanted, LeastWanted
<1> QED
  BY <1>1, <1>2, <1>3, PTL DEF Notes!Spec, Notes!LeastWantedGoes
=============================================================================
