------------------------------ MODULE Sensors ------------------------------
(***************************************************************************)
(* What the drivers of the sensors report, and from which task:            *)
(* drv_gps_mia_m10q.rs, drv_rtc_pcf8563.rs, drv_power_tp4065b.rs,          *)
(* drv_accel_qmi8658.rs and drv_light_ltr553.rs.                           *)
(*                                                                         *)
(* The GPS receiver is read by a task of its own, which writes the last    *)
(* position field by field while others copy it, and which disable and     *)
(* deinit delete wherever it is.  The others are called, and may fail, one *)
(* register at a time.  How they are initialised among the drivers of a    *)
(* board is in DeviceStart.                                                *)
(***************************************************************************)
EXTENDS Integers, Sequences, FiniteSetsExt

CONSTANTS
    Sentences,   \* what the receiver sends
    Callbacks,   \* functions that are registered for fixes
    Times,       \* dates and times the clock is set to
    Samples,     \* averages of the converter of the battery
    Rates,       \* sample rates that are asked for, in Hz
    Lights,      \* pairs of the channels of the light sensor
    MaxLines     \* bound: sentences the receiver sends

VARIABLES
    gps,       \* "off", "ready" (initialized) or "on" (enabled)
    rx,        \* what the receive task is about to do; "none" without a task
    line,      \* the line buffer: whose start and whose end is in it
    fix,       \* last_position: which value each field has
    cb,        \* the callback and the registration its data is of
    given,     \* the last fix a callback was given
    torn,      \* ghost: the task was deleted while it wrote
    copy,      \* get_position: how far a task is, its copy, and (ghost) whether nothing
               \* was half written meanwhile
    lines,     \* sentences sent so far
    rtc,       \* the clock: "off" or "ready"
    regs,      \* its registers
    wanted,    \* ghost: the time it was last set to
    power,     \* the driver of the battery
    taken,     \* ghost: converters and calibrations that exist
    reading,   \* the last two readings
    imu,       \* "off", "on" or "asleep"
    odr,       \* the output rates in the registers of accelerometer and gyroscope
    rated,     \* ghost: the last rate that was set with success
    light,     \* the light sensor: "off" or "ready"
    lux        \* the last brightness that was read

gpsVars == <<gps, rx, line, fix, cb, given, torn, copy, lines>>
rtcVars == <<rtc, regs, wanted>>
batteryVars == <<power, taken, reading>>
imuVars == <<imu, odr, rated>>
lightVars == <<light, lux>>

NoOne == [kind |-> "none"]

-----------------------------------------------------------------------------
(* What a sentence says.                                                   *)

\* nmea_parse_coord, in minutes of arc: degrees and minutes, negative in the south and west.
Coord(c) == (IF c.dir \in {"S", "W"} THEN -1 ELSE 1) * (60 * c.deg + c.min)

IsLeap(y) == y % 400 = 0 \/ (y % 4 = 0 /\ y % 100 # 0)
DaysInMonth == <<31, 28, 31, 30, 31, 30, 31, 31, 30, 31, 30, 31>>
Over(set, F(_)) == MapThenSumSet(F, set)

\* nmea_to_timestamp: days since 1970 and seconds of the day.
Timestamp(t) ==
    LET year == IF t.yy >= 70 THEN 1900 + t.yy ELSE 2000 + t.yy
        OfYear(y) == IF IsLeap(y) THEN 366 ELSE 365
        OfMonth(m) == DaysInMonth[m] + (IF m = 2 /\ IsLeap(year) THEN 1 ELSE 0)
    IN  IF t.day = 0 \/ t.month \notin 1..12
        THEN <<0, 0>>
        ELSE <<Over(1970..year - 1, OfYear) + Over(1..t.month - 1, OfMonth) + t.day - 1,
               t.second>>

\* nmea_verify_checksum: one sentence from its dollar to its checksum.
Verified(l) == l.start # NoOne /\ l.start = l.end

-----------------------------------------------------------------------------
(* The receive task: gps_rx_task and nmea_process_sentence.                *)

NoFix == [lat |-> 0, lon |-> 0, speed |-> 0, sats |-> 0, when |-> <<0, 0>>, valid |-> FALSE]
NoCopy == [at |-> "idle", fix |-> NoFix, calm |-> FALSE]
NoLine == [start |-> NoOne, end |-> NoOne]

\* A dollar starts the buffer anew.
Dollar(s) ==
    /\ rx = "read" /\ lines < MaxLines
    /\ line' = [start |-> s, end |-> NoOne]
    /\ lines' = lines + 1
    /\ UNCHANGED <<gps, rx, fix, cb, given, torn, copy>>

\* The end of a sentence, which need not be the one that started: the driver of the UART
\* drops bytes when its buffer is full.  The first star counts.
Newline(s) ==
    /\ rx = "read"
    /\ LET whole == [line EXCEPT !.end = IF @ = NoOne THEN s ELSE @]
       IN  IF Verified(whole)
           THEN line' = whole /\ rx' = IF whole.start.kind = "rmc" THEN "lat" ELSE "gga"
           ELSE line' = NoLine /\ UNCHANGED rx
    /\ UNCHANGED <<gps, fix, cb, given, torn, copy, lines>>

\* process_gnrmc writes one field after the other; the later ones are in the end of the line.
WriteLat ==
    /\ rx = "lat"
    /\ fix' = [fix EXCEPT !.lat = Coord(line.start.lat)]
    /\ rx' = "lon"
    /\ copy' = [copy EXCEPT !.calm = @ /\ copy.at \notin {"lon", "rest"}]
    /\ UNCHANGED <<gps, line, cb, given, torn, lines>>
WriteLon ==
    /\ rx = "lon"
    /\ fix' = [fix EXCEPT !.lon = Coord(line.end.lon)]
    /\ rx' = "rest"
    /\ UNCHANGED <<gps, line, cb, given, torn, copy, lines>>
WriteRest ==
    /\ rx = "rest"
    /\ LET ts == Timestamp(line.end.time)
       IN  fix' = [fix EXCEPT !.speed = line.end.speed, !.valid = line.start.ok,
                              !.when = IF ts # <<0, 0>> THEN ts ELSE @]
    /\ rx' = "tell"
    /\ torn' = FALSE
    /\ UNCHANGED <<gps, line, cb, given, copy, lines>>

\* The callback is given a valid fix; then the buffer is empty.
Tell ==
    /\ rx = "tell"
    /\ given' = IF cb.func # "none" /\ fix.valid THEN [fix |-> fix, cb |-> cb] ELSE given
    /\ line' = NoLine
    /\ rx' = "read"
    /\ UNCHANGED <<gps, fix, cb, torn, copy, lines>>

\* process_gngga: no fix, no position.
WriteGga ==
    /\ rx = "gga"
    /\ fix' = [fix EXCEPT !.sats = line.start.speed, !.valid = @ /\ line.start.ok]
    /\ line' = NoLine
    /\ rx' = "read"
    /\ UNCHANGED <<gps, cb, given, torn, copy, lines>>

-----------------------------------------------------------------------------
(* What other tasks call.                                                  *)

GpsInit ==
    /\ gps = "off"
    /\ gps' = "ready"
    /\ fix' = NoFix
    /\ line' = NoLine
    /\ torn' = FALSE
    /\ UNCHANGED <<rx, cb, given, copy, lines>>

GpsEnable ==
    /\ gps = "ready"
    /\ gps' = "on"
    /\ rx' = "read"
    /\ UNCHANGED <<line, fix, cb, given, torn, copy, lines>>

\* disable and deinit delete the task wherever it is; the buffer and the position stay.
GpsStop(state) ==
    /\ gps # "off" /\ gps # state
    /\ gps' = state
    /\ rx' = "none"
    /\ torn' = (torn \/ rx \in {"lon", "rest"})
    /\ UNCHANGED <<line, fix, cb, given, copy, lines>>
GpsDisable == GpsStop("ready")
GpsDeinit == GpsStop("off")

\* register_callback writes the function, then its data.
GpsRegister(f) ==
    /\ cb.func = cb.data
    /\ cb' = [cb EXCEPT !.func = f]
    /\ UNCHANGED <<gps, rx, line, fix, given, torn, copy, lines>>
GpsRegistered ==
    /\ cb.func # cb.data
    /\ cb' = [cb EXCEPT !.data = cb.func]
    /\ UNCHANGED <<gps, rx, line, fix, given, torn, copy, lines>>

\* get_position copies one field after the other, without a lock, and gives the copy if it
\* says that it is valid.
CopyLat ==
    /\ copy.at \in {"idle", "given"}
    /\ copy' = [at |-> "lon", fix |-> [NoFix EXCEPT !.lat = fix.lat],
                calm |-> ~torn /\ rx \notin {"lon", "rest"}]
    /\ UNCHANGED <<gps, rx, line, fix, cb, given, torn, lines>>
CopyLon ==
    /\ copy.at = "lon"
    /\ copy' = [copy EXCEPT !.at = "rest", !.fix.lon = fix.lon]
    /\ UNCHANGED <<gps, rx, line, fix, cb, given, torn, lines>>
CopyRest ==
    /\ copy.at = "rest"
    /\ copy' = [copy EXCEPT !.at = IF fix.valid THEN "given" ELSE "idle",
                            !.fix = [fix EXCEPT !.lat = copy.fix.lat, !.lon = copy.fix.lon]]
    /\ UNCHANGED <<gps, rx, line, fix, cb, given, torn, lines>>

GpsNext ==
    \/ \E s \in Sentences : Dollar(s) \/ Newline(s)
    \/ WriteLat \/ WriteLon \/ WriteRest \/ Tell \/ WriteGga
    \/ GpsInit \/ GpsEnable \/ GpsDisable \/ GpsDeinit
    \/ (\E f \in Callbacks \cup {"none"} : GpsRegister(f)) \/ GpsRegistered
    \/ CopyLat \/ CopyLon \/ CopyRest

-----------------------------------------------------------------------------
(* The clock.                                                              *)

bin_to_bcd(n) == 16 * (n \div 10) + (n % 10)
bcd_to_bin(b) == 10 * (b \div 16) + (b % 16)

\* get_time, of the registers: the century bit is set from 2000 on.
TimeOf(r) ==
    [second |-> bcd_to_bin(r.second % 128), hour |-> bcd_to_bin(r.hour % 64),
     day |-> bcd_to_bin(r.day % 64), month |-> bcd_to_bin(r.month % 32),
     year |-> (IF r.century THEN 2000 ELSE 1900) + bcd_to_bin(r.year)]

\* set_time: the registers of a time; writing the seconds clears the flag of lost power.
RegistersOf(t) ==
    [second |-> bin_to_bcd(t.second) % 128, hour |-> bin_to_bcd(t.hour) % 64,
     day |-> bin_to_bcd(t.day) % 64, month |-> bin_to_bcd(t.month) % 32,
     year |-> bin_to_bcd(t.year % 100), century |-> t.year >= 2000, lost |-> FALSE]

NoTime == [year |-> 0]
Unset == [second |-> 0, hour |-> 0, day |-> 1, month |-> 1, year |-> 0,
          century |-> FALSE, lost |-> TRUE]

\* The clock is started when it was stopped; any transfer may fail.
RtcInit(works) ==
    /\ rtc = "off"
    /\ rtc' = IF works THEN "ready" ELSE "off"
    /\ UNCHANGED <<regs, wanted>>
RtcDeinit ==
    /\ rtc = "ready"
    /\ rtc' = "off"
    /\ UNCHANGED <<regs, wanted>>
\* A transfer that fails leaves the registers as they were.
RtcSet(t, works) ==
    /\ rtc = "ready"
    /\ regs' = IF works THEN RegistersOf(t) ELSE regs
    /\ wanted' = IF works THEN t ELSE wanted
    /\ UNCHANGED rtc
\* The cell of the clock runs out.
RtcLosesPower ==
    /\ regs' = Unset
    /\ wanted' = NoTime
    /\ UNCHANGED rtc

IsValid == rtc = "ready" /\ ~regs.lost

RtcNext ==
    \/ \E works \in BOOLEAN : RtcInit(works) \/ \E t \in Times : RtcSet(t, works)
    \/ RtcDeinit
    \/ RtcLosesPower

-----------------------------------------------------------------------------
(* The battery.                                                            *)

\* LIPO_CURVE.
Curve == <<<<4200, 100>>, <<4060, 90>>, <<3980, 80>>, <<3920, 70>>, <<3870, 60>>,
           <<3820, 50>>, <<3750, 40>>, <<3700, 30>>, <<3620, 20>>, <<3500, 10>>, <<3000, 0>>>>

\* voltage_to_percent: between two points of the curve, rounded.
Percent(mv) ==
    IF mv >= Curve[1][1] THEN 100
    ELSE IF mv <= Curve[11][1] THEN 0
    ELSE LET i == CHOOSE i \in 1..10 :
                    /\ Curve[i + 1][1] <= mv /\ mv <= Curve[i][1]
                    /\ \A j \in 1..i - 1 : mv < Curve[j + 1][1]
             range == Curve[i][1] - Curve[i + 1][1]
             steps == Curve[i][2] - Curve[i + 1][2]
         IN  Curve[i + 1][2] + ((mv - Curve[i + 1][1]) * steps + range \div 2) \div range

PowerOff == [ready |-> FALSE, calibrated |-> FALSE]
NoReading == [mv |-> -1, percent |-> 0, state |-> "none"]

\* cali_init: the curve scheme, or the line scheme, or none.
Schemes == {"curve", "line", "none"}

BatteryInit(step) ==
    /\ ~power.ready
    /\ \/ /\ step = "pins"     \* gpio_config fails: everything is given back
          /\ UNCHANGED <<power, taken>>
       \/ /\ step \in Schemes
          /\ power' = [ready |-> TRUE, calibrated |-> step # "none"]
          /\ taken' = [adc |-> taken.adc + 1,
                       cali |-> taken.cali + (IF step = "none" THEN 0 ELSE 1),
                       dropped |-> taken.dropped]
    /\ UNCHANGED reading

\* The calibration is given back only if it is still in use.
BatteryDeinit ==
    /\ power.ready
    /\ power' = PowerOff
    /\ taken' = [taken EXCEPT !.adc = @ - 1, !.cali = IF power.calibrated THEN @ - 1 ELSE @]
    /\ UNCHANGED reading

Clamped(raw) == LET mv == 2 * ((raw * 3300) \div 4095) IN IF mv > 4300 THEN 4300 ELSE mv

\* get_info and read_battery_mv: eight samples, an average and its voltage.  A calibration
\* that fails once is never used again; a sample that fails is a voltage of zero.
BatteryRead(raw, how, charging) ==
    /\ power.ready
    /\ LET mv == IF how = "unread" THEN 0 ELSE Clamped(raw)
           percent == Percent(mv)
       IN  reading' = [before |-> reading.last,
                       last |-> [mv |-> mv, percent |-> percent,
                                 state |-> IF charging THEN "charging"
                                           ELSE IF percent >= 99 THEN "charged"
                                           ELSE "discharging"]]
    /\ LET drops == how = "uncalibrated" /\ power.calibrated
       IN  /\ power' = [power EXCEPT !.calibrated = @ /\ ~drops]
           /\ taken' = [taken EXCEPT !.dropped = IF drops THEN @ + 1 ELSE @]

BatteryNext ==
    \/ \E step \in Schemes \cup {"pins"} : taken.dropped < 2 /\ BatteryInit(step)
    \/ BatteryDeinit
    \/ \E raw \in Samples, how \in {"read", "uncalibrated", "unread"}, charging \in BOOLEAN :
          BatteryRead(raw, how, charging)

-----------------------------------------------------------------------------
(* The accelerometer and gyroscope.                                        *)

\* hz_to_odr, as the rate in thirty-seconds of a Hertz that the code stands for.
OdrOf(hz) ==
    IF hz >= 8000 THEN 256000 ELSE IF hz >= 4000 THEN 128000 ELSE IF hz >= 2000 THEN 64000
    ELSE IF hz >= 1000 THEN 32000 ELSE IF hz >= 500 THEN 16000 ELSE IF hz >= 250 THEN 8000
    ELSE IF hz >= 125 THEN 4000 ELSE IF hz >= 63 THEN 2000 ELSE 1000

Odrs == {256000, 128000, 64000, 32000, 16000, 8000, 4000, 2000, 1000}

\* A write may fail: the first, the second or the third one.
ImuInit(step) ==
    /\ imu = "off"
    /\ odr' = [accel |-> IF step = "accel" THEN odr.accel ELSE OdrOf(100),
               gyro |-> IF step \in {"accel", "gyro"} THEN odr.gyro ELSE OdrOf(100)]
    /\ imu' = IF step = "all" THEN "on" ELSE "off"
    /\ rated' = IF step = "all" THEN 100 ELSE 0
\* What deinit writes to the chip may fail, and is not looked at.
ImuDeinit ==
    /\ imu # "off"
    /\ imu' = "off"
    /\ rated' = 0
    /\ UNCHANGED odr
\* set_sample_rate: the accelerometer's, then the gyroscope's.
ImuSetRate(hz, step) ==
    /\ imu # "off"
    /\ odr' = [accel |-> IF step = "accel" THEN odr.accel ELSE OdrOf(hz),
               gyro |-> IF step \in {"accel", "gyro"} THEN odr.gyro ELSE OdrOf(hz)]
    /\ rated' = IF step = "all" THEN hz ELSE IF step = "accel" THEN rated ELSE 0
    /\ UNCHANGED imu
\* get_data reads a chip that sleeps without a word.
ImuSleep(enter) ==
    /\ imu # "off"
    /\ imu' = IF enter THEN "asleep" ELSE "on"
    /\ UNCHANGED <<odr, rated>>

ImuNext ==
    \/ \E step \in {"accel", "gyro", "all"} :
          ImuInit(step) \/ \E hz \in Rates : ImuSetRate(hz, step)
    \/ ImuDeinit
    \/ \E enter \in BOOLEAN : ImuSleep(enter)

-----------------------------------------------------------------------------
(* The light sensor.                                                       *)

\* ltr553_calculate_lux.
Lux(ch0, ch1) ==
    IF ch0 + ch1 = 0 THEN 0
    ELSE LET ratio == (ch1 * 1000) \div (ch0 + ch1)
             difference == 4279 * ch0 - 1955 * ch1
             raw == CASE ratio < 450 -> (1774 * ch0 + 1106 * ch1) \div 1000
                      [] ratio >= 450 /\ ratio < 640 ->
                            (IF difference < 0 THEN 0 ELSE difference) \div 1000
                      [] ratio >= 640 /\ ratio < 850 -> (593 * ch0 + 119 * ch1) \div 1000
                      [] OTHER -> 0
         IN  IF raw > 65535 THEN 65535 ELSE raw

LightInit(works) ==
    /\ light = "off"
    /\ light' = IF works THEN "ready" ELSE "off"
    /\ UNCHANGED lux
LightDeinit ==
    /\ light = "ready"
    /\ light' = "off"
    /\ UNCHANGED lux
LightRead(c) ==
    /\ light = "ready"
    /\ lux' = Lux(c[1], c[2])
    /\ UNCHANGED light

LightNext ==
    \/ \E works \in BOOLEAN : LightInit(works)
    \/ LightDeinit
    \/ \E c \in Lights : LightRead(c)

-----------------------------------------------------------------------------
GpsStart ==
    /\ gps = "off" /\ rx = "none" /\ line = NoLine /\ fix = NoFix
    /\ cb = [func |-> "none", data |-> "none"]
    /\ given = [fix |-> NoFix, cb |-> cb] /\ torn = FALSE
    /\ copy = NoCopy /\ lines = 0
RtcStart == rtc = "off" /\ regs = Unset /\ wanted = NoTime
BatteryStart ==
    /\ power = PowerOff /\ taken = [adc |-> 0, cali |-> 0, dropped |-> 0]
    /\ reading = [before |-> NoReading, last |-> NoReading]
ImuStart == imu = "off" /\ odr = [accel |-> 0, gyro |-> 0] /\ rated = 0
LightStart == light = "off" /\ lux = 0

Init == GpsStart /\ RtcStart /\ BatteryStart /\ ImuStart /\ LightStart

\* The sensors have no state in common.
Next ==
    \/ GpsNext /\ UNCHANGED <<rtcVars, batteryVars, imuVars, lightVars>>
    \/ RtcNext /\ UNCHANGED <<gpsVars, batteryVars, imuVars, lightVars>>
    \/ BatteryNext /\ UNCHANGED <<gpsVars, rtcVars, imuVars, lightVars>>
    \/ ImuNext /\ UNCHANGED <<gpsVars, rtcVars, batteryVars, lightVars>>
    \/ LightNext /\ UNCHANGED <<gpsVars, rtcVars, batteryVars, imuVars>>

vars == <<gpsVars, rtcVars, batteryVars, imuVars, lightVars>>

-----------------------------------------------------------------------------
(* Properties.                                                             *)

\* The types of the state.
TypeOK ==
    /\ gps \in {"off", "ready", "on"}
    /\ rx \in {"none", "read", "lat", "lon", "rest", "tell", "gga"}
    /\ (rx = "none") = (gps # "on")
    /\ line.start \in Sentences \cup {NoOne} /\ line.end \in Sentences \cup {NoOne}
    /\ torn \in BOOLEAN /\ copy.calm \in BOOLEAN /\ copy.at \in {"idle", "lon", "rest", "given"}
    /\ lines \in 0..MaxLines
    /\ rtc \in {"off", "ready"} /\ wanted \in Times \cup {NoTime}
    /\ power.ready \in BOOLEAN /\ power.calibrated \in BOOLEAN
    /\ imu \in {"off", "on", "asleep"} /\ rated \in Rates \cup {0, 100}
    /\ light \in {"off", "ready"} /\ lux \in 0..65535

\* The days from 1970 to a date, counted by the Gregorian rule.
DaysUntil(year, month, day) ==
    LET y == IF month > 2 THEN year ELSE year - 1
        m == IF month > 2 THEN month - 3 ELSE month + 9
    IN  365 * y + y \div 4 - y \div 100 + y \div 400 + (153 * m + 2) \div 5 + day - 719469

\* The days a date is counted as are those of the calendar (nmea_to_timestamp).
IsGregorian(t) ==
    Timestamp(t) = <<DaysUntil((IF t.yy >= 70 THEN 1900 ELSE 2000) + t.yy, t.month, t.day), t.second>>

\* Position, course and time are those of one sentence.
OfOne(f) ==
    \E s \in Sentences :
        /\ s.kind = "rmc"
        /\ f.lat = Coord(s.lat) /\ f.lon = Coord(s.lon) /\ f.speed = s.speed
        /\ Timestamp(s.time) # <<0, 0>> => f.when = Timestamp(s.time)

\* What get_position gives is of one sentence, whatever was lost, stopped and started, if
\* nothing was half written while it was copied: neither by the task nor by one that was
\* deleted (process_gnrmc, mia_m10q_get_position).
FixIsOfOneSentence == copy.at = "given" /\ copy.calm => OfOne(copy.fix)

\* drv_gps_mia_m10q.rs: "last_position updates mirror C portENTER_CRITICAL semantics": what
\* get_position gives is of one sentence, whenever it is called.
PositionIsOfOneSentence == copy.at = "given" => OfOne(copy.fix)

\* What a callback is given is valid, of one sentence (nmea_process_sentence).
ToldFixesAreWhole ==
    given.cb.func # "none" => given.fix.valid /\ OfOne(given.fix)

\* A valid clock says what it was set to, in the two centuries it has (pcf8563_set_time,
\* pcf8563_get_time).
ClockKeepsTime ==
    IsValid =>
        /\ wanted # NoTime
        /\ wanted.year \in 1900..2099 => TimeOf(regs) = wanted

\* More voltage is never less charge, and what init took deinit gives back, but for a
\* calibration that was given up (voltage_to_percent, tp4065b_deinit).
BatteryIsSound ==
    /\ LET a == reading.before  b == reading.last
       IN  /\ (a.mv >= 0 /\ a.mv <= b.mv) => a.percent <= b.percent
           /\ (b.mv >= 0 /\ a.mv >= b.mv) => a.percent >= b.percent
           /\ b.percent \in 0..100
    /\ taken.adc = IF power.ready THEN 1 ELSE 0
    /\ taken.cali - taken.dropped = IF power.calibrated THEN 1 ELSE 0

\* Both sensors run at the greatest rate that is not above the one asked for, or at the
\* lowest one there is (hz_to_odr, qmi8658_set_sample_rate).
RatesAgree ==
    imu # "off" /\ rated # 0 =>
        /\ odr.accel = odr.gyro
        /\ odr.accel <= 32 * rated \/ odr.accel = 1000
        /\ \A r \in Odrs : r <= 32 * rated => r <= odr.accel

=============================================================================
