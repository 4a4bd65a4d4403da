----------------------------- MODULE Emergency -----------------------------
(***************************************************************************)
(* What a device has for the field, and for an emergency there.  A log: a  *)
(* table of typed columns (src/components/kernel_rs/src/data_logger.rs)    *)
(* and a track of positions (gps_track.rs); a value is known by its type,  *)
(* a position by its time.  For an emergency: the distress beacon          *)
(* (sos_beacon.rs), the plan for wiping the device (secure_wipe.rs), with  *)
(* a client that wipes one target after the other, and the flashlight      *)
(* (tk_flashlight.rs): a white screen at full brightness, or SOS in Morse  *)
(* code, whose step is looked at on every tick.                            *)
(* The light's time is counted in the length of a short flash; a tick      *)
(* comes at any time.                                                      *)
(***************************************************************************)
EXTENDS Integers, Sequences, FiniteSets, SequencesExt, FiniteSetsExt

CONSTANTS
    MaxSequence,  \* the number of a packet wraps after this one, 2^16 - 1
    MaxTargets,   \* bound on the targets of a plan
    MaxPasses,    \* passes of the pattern: 1, 3 or 35
    MaxTime,      \* bound on the time since the last flash or gap began
    Types,        \* types of columns
    MaxColumns,   \* bound on the columns of a table
    MaxRows,      \* bound on the rows of a table
    MaxPoints,    \* bound on the points of a track
    MaxSeconds    \* bound on the time of a position

VARIABLES
    status,    \* of the beacon, "off" when it is not active
    sequence,  \* number of the next packet
    sent,      \* the last packet of this beacon: status and number
    targets,   \* the plan: number, priority and status of each target
    hand,      \* the target the client works on: index, number and passes done
    written,   \* numbers of the targets that were overwritten as often as required
    moved,     \* a target was added while the client worked on one
    alive,     \* the app has its widgets
    mode,      \* "off", "on" or "sos"
    white,     \* its part of the screen is white
    bright,    \* the backlight is at 100
    step,      \* sos_step: the place in the pattern
    lit,       \* sos_screen_on
    since,     \* time since sos_phase_start_us
    flashes,   \* history: flashes of the first signal, in units of time
    columns,    \* types of the columns
    rows,       \* the rows, each a sequence of types of values
    building,   \* the row being built, or None
    lateColumn, \* a column came while a row was being built
    aborted,    \* a panic left an exported function
    track       \* the points: number, time, and whether it is a waypoint

beacon == <<status, sequence, sent>>
plan == <<targets, hand, written, moved>>
torch == <<alive, mode, white, bright, step, lit, since, flashes>>
vars == <<beacon, plan, torch>>

Alarms == {"active", "moving", "immobile", "medical", "test"}
Priorities == 0 .. 3  \* Critical, High, Normal, Low
Unfinished == {"pending", "in_progress"}
Nothing == [index |-> 0, number |-> 0, passes |-> 0]
Silence == [status |-> "off", sequence |-> 0]

\* SOS_PATTERN, the last row ends it
Flash(on, off) == [on |-> on, off |-> off]
Pattern ==
    <<Flash(1, 1), Flash(1, 1), Flash(1, 3), Flash(3, 1), Flash(3, 1), Flash(3, 3),
      Flash(1, 1), Flash(1, 1), Flash(1, 7), Flash(0, 0)>>

TypeOK ==
    /\ status \in Alarms \cup {"cancel", "off"} /\ sequence \in 0 .. MaxSequence
    /\ sent.status \in Alarms \cup {"cancel", "off"} /\ sent.sequence \in 0 .. MaxSequence
    /\ Len(targets) <= MaxTargets
    /\ \A i \in DOMAIN targets :
          /\ targets[i].priority \in Priorities
          /\ targets[i].status \in Unfinished \cup {"completed", "failed", "skipped"}
    /\ hand.index \in 0 .. MaxTargets /\ hand.passes \in 0 .. MaxPasses
    /\ moved \in BOOLEAN
    /\ {alive, white, bright, lit} \subseteq BOOLEAN /\ mode \in {"off", "on", "sos"}
    /\ step \in DOMAIN Pattern /\ since \in 0 .. MaxTime
    /\ flashes \in Seq(0 .. MaxTime) /\ Len(flashes) <= 4

TorchInit ==
    /\ alive = FALSE /\ mode = "off" /\ white = FALSE /\ bright = FALSE
    /\ step = 1 /\ lit = FALSE /\ since = 0 /\ flashes = <<>>

Init ==
    /\ status = "off" /\ sequence = 0 /\ sent = Silence
    /\ targets = <<>> /\ hand = Nothing /\ written = {} /\ moved = FALSE
    /\ TorchInit

-----------------------------------------------------------------------------

\* activate: an active beacon takes nothing but a cancellation.
Activate(s) ==
    /\ status = "off"
    /\ status' = s /\ sequence' = 0
    /\ UNCHANGED <<sent, plan>>

\* (mutant: a cancellation is not told to anybody)
CancelMutant ==
    /\ status # "off"
    /\ status' = "off"
    /\ UNCHANGED <<sequence, sent, plan>>

\* The beacon stays active until the packet that says so is out.
Cancel ==
    /\ status # "off"
    /\ status' = "cancel"
    /\ UNCHANGED <<sequence, sent, plan>>

\* next_packet
NextPacket ==
    /\ status # "off"
    /\ sent' = [status |-> status, sequence |-> sequence]
    /\ sequence' = (sequence + 1) % (MaxSequence + 1)
    /\ status' = IF status = "cancel" THEN "off" ELSE status
    /\ UNCHANGED plan

\* rs_sos_beacon_destroy and rs_sos_beacon_create
NewBeacon ==
    /\ status # "off"
    /\ status' = "off" /\ sequence' = 0 /\ sent' = Silence
    /\ UNCHANGED plan

\* interval_seconds
Interval ==
    CASE status \in {"active", "medical"} -> 30
      [] status = "moving" -> 60
      [] status = "immobile" -> 120
      [] status \in {"cancel", "test"} -> 10
      [] status = "off" -> 0

-----------------------------------------------------------------------------

\* add_target: the targets are kept in the order of priority, those of one priority
\* in the order of adding.
AddTarget(p) ==
    LET before == Cardinality({i \in DOMAIN targets : targets[i].priority <= p})
        new == [number |-> Len(targets) + 1, priority |-> p, status |-> "pending"]
    IN  /\ Len(targets) < MaxTargets
        /\ targets' = InsertAt(targets, before + 1, new)
        /\ moved' = (moved \/ hand # Nothing)
        /\ UNCHANGED <<beacon, hand, written>>

PendingAt == {i \in DOMAIN targets : targets[i].status = "pending"}

\* The client asks for the next target, may mark it as begun, overwrites it pass by pass
\* with the blocks of generate_overwrite_block, and reports; it skips what it does not find.
TakeNext ==
    /\ hand = Nothing /\ PendingAt # {}
    /\ hand' = [index |-> Min(PendingAt), number |-> targets[Min(PendingAt)].number, passes |-> 0]
    /\ UNCHANGED <<beacon, targets, written, moved>>

Overwrite ==
    /\ hand # Nothing /\ hand.passes < MaxPasses
    /\ hand' = [hand EXCEPT !.passes = @ + 1]
    /\ written' = IF hand.passes + 1 = MaxPasses THEN written \cup {hand.number} ELSE written
    /\ UNCHANGED <<beacon, targets, moved>>

\* A mark is set by the index, and refused for a target that is finished.
Marked(from, s) ==
    targets' = IF targets[hand.index].status \in from
               THEN [targets EXCEPT ![hand.index].status = s] ELSE targets

MarkInProgress == hand # Nothing /\ Marked({"pending"}, "in_progress")
                  /\ UNCHANGED <<beacon, hand, written, moved>>

Report(s) ==
    /\ Marked(Unfinished, s)
    /\ hand' = Nothing
    /\ UNCHANGED <<beacon, written, moved>>

MarkCompleted == hand # Nothing /\ hand.passes = MaxPasses /\ Report("completed")
MarkFailed == hand # Nothing /\ hand.passes < MaxPasses /\ Report("failed")
MarkSkipped == hand # Nothing /\ hand.passes = 0 /\ Report("skipped")

NewPlan ==
    /\ targets # <<>>
    /\ targets' = <<>> /\ hand' = Nothing /\ written' = {} /\ moved' = FALSE
    /\ UNCHANGED beacon

IsComplete == targets # <<>> /\ \A i \in DOMAIN targets : targets[i].status \notin Unfinished

-----------------------------------------------------------------------------
(* The flashlight                                                         *)

\* on_create: everything anew
Create ==
    /\ ~alive /\ alive' = TRUE /\ mode' = "off" /\ white' = FALSE
    /\ step' = 1 /\ lit' = FALSE /\ since' = 0 /\ flashes' = <<>>
    /\ UNCHANGED bright

\* (mutant: the backlight stays as it is)
LeavesBrightMutant(new) == IF new = "on" THEN TRUE ELSE bright

\* set_backlight: up with the light, down when it goes out
LeavesBright(new) == IF new = "on" THEN TRUE ELSE IF mode = "on" THEN FALSE ELSE bright

\* apply_mode: what was is stopped, then the new mode begins.
Apply(new) ==
    /\ mode' = new /\ white' = (new = "on") /\ bright' = LeavesBright(new)
    /\ lit' = IF mode = "sos" \/ new = "sos" THEN FALSE ELSE lit
    /\ step' = IF new = "sos" THEN 1 ELSE step
    /\ since' = IF new = "sos" THEN 0 ELSE since
    /\ flashes' = IF new = "sos" THEN <<>> ELSE flashes

\* The buttons' functions, and on_pause
Toggle == alive /\ Apply(IF mode = "on" THEN "off" ELSE "on") /\ UNCHANGED alive
ToggleSos == alive /\ Apply(IF mode = "sos" THEN "off" ELSE "sos") /\ UNCHANGED alive
Pause == alive /\ mode # "off" /\ Apply("off") /\ UNCHANGED alive

Destroy ==
    /\ alive /\ alive' = FALSE
    /\ IF mode # "off" THEN Apply("off") ELSE UNCHANGED <<mode, white, bright, step, lit, since, flashes>>

Pass == alive /\ mode = "sos" /\ since < MaxTime /\ since' = since + 1
        /\ UNCHANGED <<alive, mode, white, bright, step, lit, flashes>>

\* sos_advance.  A screen that is dark is made white at once: the time it was to be
\* dark for is only looked at in the tick that made it dark, when none has passed.
Advance ==
    /\ alive /\ mode = "sos"
    /\ IF Pattern[step].on = 0
       THEN step' = 1 /\ lit' = FALSE /\ white' = FALSE /\ since' = 0 /\ UNCHANGED flashes
       ELSE \/ ~lit /\ lit' = TRUE /\ white' = TRUE /\ since' = 0 /\ UNCHANGED <<step, flashes>>
            \/ /\ lit /\ since >= Pattern[step].on
               /\ lit' = FALSE /\ white' = FALSE /\ since' = 0 /\ UNCHANGED step
               /\ flashes' = IF Len(flashes) < 4 THEN Append(flashes, since) ELSE flashes
    /\ UNCHANGED <<alive, mode, bright>>

-----------------------------------------------------------------------------
BeaconNext ==
    \/ \E s \in Alarms : Activate(s)
    \/ Cancel \/ NewBeacon \/ NextPacket

WipeNext ==
    \/ \E p \in Priorities : AddTarget(p)
    \/ TakeNext \/ MarkInProgress \/ Overwrite \/ MarkCompleted \/ MarkFailed \/ MarkSkipped
    \/ NewPlan

TorchNext == Create \/ Toggle \/ ToggleSos \/ Pause \/ Destroy \/ Pass \/ Advance

Next ==
    \/ BeaconNext /\ UNCHANGED torch
    \/ WipeNext /\ UNCHANGED torch
    \/ TorchNext /\ UNCHANGED <<beacon, plan>>

Spec == Init /\ [][Next]_vars

-----------------------------------------------------------------------------

\* Whoever heard an alarm is told its end: the last packet of a beacon that went off is
\* the cancellation, and the packets of one alarm are numbered in a row (next_packet).
BeaconTellsItsEnd ==
    sent # Silence =>
        /\ status = "off" => sent.status = "cancel"
        /\ status # "off" /\ sequence # 0 => sequence = sent.sequence + 1

\* A target is reported as wiped only after every pass over it, the most urgent target
\* is wiped first, as long as none is added while the client has one in hand: adding
\* shifts the indices under which the client reports (add_target, mark_completed).
WipeIsSound ==
    moved \/
        \A i \in DOMAIN targets :
            /\ targets[i].status = "completed" => targets[i].number \in written
            /\ hand # Nothing /\ i \in PendingAt =>
                   targets[i].priority >= targets[hand.index].priority

\* When the light is out, or the app paused or gone, the screen is dark and the
\* backlight down again, whatever it was before (apply_mode, on_pause, on_destroy).
LightGoesOut == /\ mode # "on" => ~bright
                /\ mode = "off" => ~white /\ ~(alive /\ lit)

\* "SOS — flashes ... --- ... in Morse": after three flashes the fourth is a long one.
SosIsTheSignal == Len(flashes) = 4 => flashes[4] >= 3

-----------------------------------------------------------------------------
(* The logs of the field.                                                  *)

table == <<columns, rows, building, lateColumn, aborted>>
logs == <<table, track>>

None == <<"none">>
Null == "null"

LogTypeOK ==
    /\ columns \in BoundedSeq(Types, MaxColumns)
    /\ rows \in BoundedSeq(BoundedSeq(Types \cup {Null}, MaxColumns), MaxRows)
    /\ building \in BoundedSeq(Types \cup {Null}, MaxColumns) \cup {None}
    /\ lateColumn \in BOOLEAN /\ aborted \in BOOLEAN
    /\ Len(track) <= MaxPoints

LogInit ==
    /\ columns = <<>> /\ rows = <<>> /\ building = None
    /\ lateColumn = FALSE /\ aborted = FALSE /\ track = <<>>

Fits(col, value) == value \in {Null, columns[col]}

\* The schema is locked by the first row, not by one that is being built.
AddColumn(type) ==
    /\ rows = <<>> /\ Len(columns) < MaxColumns
    /\ columns' = Append(columns, type)
    /\ lateColumn' = (lateColumn \/ building # None)
    /\ UNCHANGED <<rows, building, aborted, track>>

LogRow(values) ==
    /\ Len(rows) < MaxRows /\ columns # <<>>
    /\ Len(values) = Len(columns) /\ \A c \in DOMAIN columns : Fits(c, values[c])
    /\ rows' = Append(rows, values)
    /\ UNCHANGED <<columns, building, lateColumn, aborted, track>>

BeginRow ==
    /\ building = None
    /\ building' = [c \in DOMAIN columns |-> Null]
    /\ UNCHANGED <<columns, rows, lateColumn, aborted, track>>

\* (mutant: the type of the column is not looked at)
SetPendingValueMutant(col, value) ==
    /\ building # None /\ col \in DOMAIN columns
    /\ IF col \in DOMAIN building
       THEN building' = [building EXCEPT ![col] = value] /\ UNCHANGED aborted
       ELSE aborted' = TRUE /\ UNCHANGED building
    /\ UNCHANGED <<columns, rows, lateColumn, track>>

\* The column is compared with the table, the write goes to the row: a column that
\* came after begin_row is out of the row's bounds.
SetPendingValue(col, value) ==
    /\ building # None /\ col \in DOMAIN columns /\ Fits(col, value)
    /\ IF col \in DOMAIN building
       THEN building' = [building EXCEPT ![col] = value] /\ UNCHANGED aborted
       ELSE aborted' = TRUE /\ UNCHANGED building
    /\ UNCHANGED <<columns, rows, lateColumn, track>>

CommitRow ==
    /\ building # None /\ Len(rows) < MaxRows
    /\ rows' = Append(rows, building) /\ building' = None
    /\ UNCHANGED <<columns, lateColumn, aborted, track>>

ClearRows ==
    /\ rows # <<>> /\ rows' = <<>>
    /\ UNCHANGED <<columns, building, lateColumn, aborted, track>>

\* stats and get_column_values index every row with a column of the table.
ReadColumn(col) ==
    /\ col \in DOMAIN columns
    /\ aborted' = \E r \in DOMAIN rows : col \notin DOMAIN rows[r]
    /\ UNCHANGED <<columns, rows, building, lateColumn, track>>

\* rs_data_logger_destroy and rs_data_logger_create; after an abort, a new start.
NewTable ==
    /\ columns' = <<>> /\ rows' = <<>> /\ building' = None
    /\ lateColumn' = FALSE /\ aborted' = FALSE
    /\ UNCHANGED track

\* add_point and add_waypoint
AddPoint(time, named) ==
    /\ Len(track) < MaxPoints
    /\ track' = Append(track, [seq |-> Len(track), time |-> time, named |-> named])
    /\ UNCHANGED table

ClearTrack == track # <<>> /\ track' = <<>> /\ UNCHANGED table

\* elapsed_seconds: a clock that was set back gives no negative time.
Elapsed == IF Len(track) < 2 THEN 0 ELSE Max({0, Last(track).time - track[1].time})

\* to_gpx: the waypoints, then every point of the track, waypoints included.
Gpx == [waypoints |-> SelectSeq(track, LAMBDA p : p.named), segment |-> track]

\* The exported functions.
LoggerNext ==
    \/ /\ ~aborted
       /\ \/ \E t \in Types : AddColumn(t)
          \/ \E v \in BoundedSeq(Types \cup {Null}, MaxColumns) : LogRow(v)
          \/ BeginRow \/ CommitRow \/ ClearRows
          \/ \E c \in 1 .. MaxColumns : ReadColumn(c) \/ \E v \in Types \cup {Null} : SetPendingValue(c, v)
    \/ NewTable

TrackNext == ClearTrack \/ \E t \in 0 .. MaxSeconds, n \in BOOLEAN : AddPoint(t, n)

LogsNext == LoggerNext \/ (~aborted /\ TrackNext)

LogSpec == LogInit /\ [][LogsNext]_logs

-----------------------------------------------------------------------------

\* Every row has a value of the right type for every column, so that no read is out of
\* bounds, unless a column was added while a row was being built (add_column).
LogIsRectangular ==
    lateColumn \/ (/\ ~aborted
             /\ \A r \in DOMAIN rows : /\ DOMAIN rows[r] = DOMAIN columns
                                       /\ \A c \in DOMAIN columns : Fits(c, rows[r][c]))
=============================================================================
