------------------------------- MODULE Panels -------------------------------
(***************************************************************************)
(* What the drivers of the displays and of the sound do between init and   *)
(* deinit: drv_lcd_st7789.rs, drv_lcd_ili9341.rs, drv_oled_ssd1306.rs,     *)
(* drv_display_co5300.rs, drv_epaper_gdeq031t10.c, drv_audio_pcm5102a.rs.  *)
(*                                                                         *)
(* A driver turns a call into commands to its chip, any of which the bus   *)
(* may refuse.  Some drivers stop there and return the error, some go on   *)
(* and return ESP_OK.  A picture is a colour for every row of the screen.  *)
(* The initialisation of the drivers is in DeviceStart, the way of a       *)
(* picture to the e-paper panel in Devices.                                *)
(***************************************************************************)
EXTENDS Integers, Sequences, FiniteSets, SequencesExt

CONSTANTS
    Kinds,       \* the displays: "st7789", "ili9341", "ssd1306", "co5300", "gdeq"
    Rows,        \* rows of the screen
    Percents,    \* brightness that is asked for
    Sounds,      \* samples that are played
    MaxFaults    \* bound: commands the bus refuses

VARIABLES
    kind,     \* the display of the board
    pin,      \* its backlight (st7789, ili9341) or reset (gdeq) is connected
    up,       \* s.initialized
    chip,     \* the display is on, the chip sleeps, and the light, 0..255
    memory,   \* s.brightness, in percent; of the co5300, as its register has it
    fb,       \* the driver's framebuffer (ssd1306, gdeq)
    old,      \* fb_old: the picture before (gdeq)
    ram,      \* what the panel has been sent; for e-paper, what it shows
    mode,     \* the next refresh is the first one, a full or a fast one
    level,    \* ghost: the brightness that was last set
    believed, \* ghost: "awake", "asleep" or "unsure", from what sleep returned
    drawn,    \* ghost: the picture that was flushed
    synced,   \* ghost: "yes" when the last flush went well and has been refreshed, "due"
              \* before that, and "no" once a refresh met a panel that slept
    audio,    \* the sound: ready, playing, volume, rate and slot
    channel,  \* the channel of the I2S peripheral is enabled
    heard,    \* the last sample and what was written of it
    faults    \* commands refused so far

displayVars == <<kind, pin, up, chip, memory, fb, old, ram, mode, level, believed, drawn, synced>>
audioVars == <<audio, channel, heard>>

Colours == {0, 1}
Pictures == [0..Rows - 1 -> Colours]
Blank == [r \in 0..Rows - 1 |-> 0]

Straight(y) == y
\* The framebuffer of the e-paper panel is upside down.
Mirrored(y) == Rows - 1 - y

Lcds == {"st7789", "ili9341"}
Lit(percent) == IF percent > 100 THEN 100 ELSE percent

\* bl_set_duty, ssd1306_set_brightness, co5300_set_brightness: percent to a byte.
Duty(percent) == (Lit(percent) * 255) \div 100

-----------------------------------------------------------------------------
(* Commands to the chip.                                                   *)

On(c) == [c EXCEPT !.on = TRUE]
Off(c) == [c EXCEPT !.on = FALSE]
SleepIn(c) == [c EXCEPT !.asleep = TRUE]
SleepOut(c) == [c EXCEPT !.asleep = FALSE]

\* A command whose refusal ends the call with an error, and one whose refusal is ignored.
Send(command) == [do |-> command, checked |-> TRUE]
Try(command) == [do |-> command, checked |-> FALSE]
Backlight == IF pin THEN <<Try("light")>> ELSE <<>>

\* What sleep sends.
St7789Sleep(enter) == <<Try(IF enter THEN "off" ELSE "on")>> \o Backlight
Ili9341Sleep(enter) ==
    (IF enter THEN <<Send("off"), Send("sleep")>> ELSE <<Send("wake"), Send("on")>>) \o Backlight
Ssd1306Sleep(enter) == <<Send(IF enter THEN "off" ELSE "on")>>
Co5300Sleep(enter) ==
    IF enter THEN <<Send("off"), Send("sleep")>> ELSE <<Send("wake"), Send("on")>>
\* The reset wakes the panel, if it is connected; the commands after it do not.
GdeqSleep(enter) ==
    IF enter THEN <<Try("power"), Try("sleep")>>
    ELSE <<Try(IF pin THEN "wake" ELSE "nothing"), Try("setting")>>

Commands(enter) ==
    CASE kind = "st7789" -> St7789Sleep(enter)
      [] kind = "ili9341" -> Ili9341Sleep(enter)
      [] kind = "ssd1306" -> Ssd1306Sleep(enter)
      [] kind = "co5300" -> Co5300Sleep(enter)
      [] OTHER -> GdeqSleep(enter)

Obey(c, command, enter) ==
    CASE command = "on" -> On(c)
      [] command = "off" -> Off(c)
      [] command = "sleep" -> SleepIn(c)
      [] command = "wake" -> SleepOut(c)
      [] command = "light" -> [c EXCEPT !.light = IF enter THEN 0 ELSE Duty(memory)]
      [] OTHER -> c

-----------------------------------------------------------------------------
DisplayInit ==
    /\ ~up
    /\ up' = TRUE
    \* Only its reset wakes an e-paper panel.
    /\ chip' = [on |-> TRUE, asleep |-> chip.asleep /\ kind = "gdeq" /\ ~pin,
                light |-> CASE kind \in Lcds -> IF pin THEN 255 ELSE 0
                            [] kind = "ssd1306" -> 207
                            [] kind = "co5300" -> memory
                            [] OTHER -> 0]
    /\ memory' = IF kind \in Lcds THEN 100 ELSE memory
    /\ level' = IF kind \in Lcds THEN 100 ELSE level
    /\ fb' = Blank /\ old' = Blank /\ mode' = "first"
    /\ ram' = IF kind = "ssd1306" THEN Blank ELSE ram
    /\ drawn' = IF kind \in {"ssd1306", "gdeq"} THEN Blank ELSE ram
    /\ synced' = IF kind = "gdeq" THEN "due" ELSE "yes"
    /\ believed' = "awake"
    /\ UNCHANGED <<kind, pin, faults>>

\* The light and the display go off, if the chip obeys; nobody looks.
DisplayDeinit(refused) ==
    /\ up
    /\ refused => faults < MaxFaults
    /\ up' = FALSE
    /\ chip' = IF refused THEN chip
               ELSE [chip EXCEPT !.on = FALSE, !.light = IF kind \in Lcds THEN 0 ELSE @,
                                 !.asleep = @ \/ kind = "gdeq"]
    /\ believed' = "unsure"
    /\ faults' = IF refused THEN faults + 1 ELSE faults
    /\ UNCHANGED <<kind, pin, memory, fb, old, ram, mode, level, drawn, synced>>

Brightened(percent, refused) ==
    /\ refused => faults < MaxFaults
    /\ chip' = IF refused THEN chip ELSE [chip EXCEPT !.light = Duty(percent)]
    /\ level' = IF refused THEN level ELSE Lit(percent)
    /\ faults' = IF refused THEN faults + 1 ELSE faults
    /\ UNCHANGED <<kind, pin, up, fb, old, ram, mode, believed, drawn, synced>>

\* An LCD remembers a brightness that worked and is not 0.
LcdBrightness(percent, refused) ==
    /\ up /\ kind \in Lcds /\ pin
    /\ memory' = IF ~refused /\ Lit(percent) > 0 THEN Lit(percent) ELSE memory
    /\ Brightened(percent, refused)
OledBrightness(percent, refused) ==
    /\ up /\ kind = "ssd1306"
    /\ Brightened(percent, refused)
    /\ UNCHANGED memory
\* Remembered even if it is refused: the chip is given it at the next init.
AmoledBrightness(percent, refused) ==
    /\ up /\ kind = "co5300"
    /\ memory' = Duty(percent)
    /\ Brightened(percent, refused)

\* sleep, with the commands that are refused.
Sleep(enter, refused) ==
    /\ up
    /\ refused \subseteq 1..Len(Commands(enter))
    /\ faults + Cardinality(refused) <= MaxFaults
    /\ LET commands == Commands(enter)
           fatal == {i \in refused : commands[i].checked}
           sent == {i \in 1..Len(commands) \ refused : \A j \in fatal : i < j}
           Run(c, i) == IF i \in sent THEN Obey(c, commands[i].do, enter) ELSE c
       IN  /\ chip' = FoldLeft(Run, chip, [i \in 1..Len(commands) |-> i])
           /\ believed' = IF refused # {} THEN "unsure"
                          ELSE IF enter THEN "asleep" ELSE "awake"
           \* An LCD that wakes has the light of before, whatever was set meanwhile.
           /\ level' = IF ~enter /\ kind \in Lcds /\ refused = {} THEN memory ELSE level
    /\ faults' = faults + Cardinality(refused)
    /\ UNCHANGED <<kind, pin, up, memory, fb, old, ram, mode, drawn, synced>>

-----------------------------------------------------------------------------
(* Pictures.                                                               *)

\* The rows of an area that are on the screen.
Painted(picture, first, last, colour, Place(_)) ==
    [r \in 0..Rows - 1 |-> IF \E y \in first..last : y < Rows /\ Place(y) = r
                           THEN colour ELSE picture[r]]
\* An area goes to the panel, or does not.
Sent(first, last, colour, refused) ==
    /\ refused => faults < MaxFaults
    /\ ram' = IF refused THEN ram ELSE Painted(ram, first, last, colour, Straight)
    /\ drawn' = IF refused THEN drawn ELSE Painted(drawn, first, last, colour, Straight)
    /\ faults' = IF refused THEN faults + 1 ELSE faults
    /\ UNCHANGED <<kind, pin, up, chip, memory, fb, old, mode, level, believed, synced>>

\* esp_lcd_panel_draw_bitmap; the co5300 is sent a window and its pixels.
FlushLcd(first, last, colour, refused) ==
    up /\ kind \in Lcds /\ Sent(first, last, colour, refused)
FlushAmoled(first, last, colour, refused) ==
    up /\ kind = "co5300" /\ first <= last /\ Sent(first, last, colour, refused)

\* The OLED is sent the whole framebuffer: a flush makes up for those that were refused.
FlushOled(first, last, colour, refused) ==
    /\ up /\ kind = "ssd1306"
    /\ refused => faults < MaxFaults
    /\ fb' = Painted(fb, first, last, colour, Straight)
    /\ drawn' = Painted(drawn, first, last, colour, Straight)
    /\ ram' = IF refused THEN ram ELSE fb'
    /\ synced' = IF refused THEN "due" ELSE "yes"
    /\ faults' = IF refused THEN faults + 1 ELSE faults
    /\ UNCHANGED <<kind, pin, up, chip, memory, old, mode, level, believed>>

FlushEpaper(first, last, colour) ==
    /\ up /\ kind = "gdeq" /\ first <= last /\ first < Rows
    /\ fb' = Painted(fb, first, last, colour, Mirrored)
    /\ drawn' = Painted(drawn, first, last, colour, Straight)
    /\ synced' = IF synced = "yes" THEN "due" ELSE synced
    /\ UNCHANGED <<kind, pin, up, chip, memory, old, ram, mode, level, believed, faults>>

\* gdeq031t10_refresh sends no picture that has not changed, whatever the mode.
NothingNew == mode # "first" /\ fb = old
RefreshSkips ==
    /\ up /\ kind = "gdeq" /\ NothingNew
    /\ synced' = IF synced = "no" THEN "no" ELSE "yes"
    /\ UNCHANGED <<kind, pin, up, chip, memory, fb, old, ram, mode, level, believed, drawn,
                   faults>>

\* A fast one changes the rows in which the two pictures differ.  A panel that sleeps does
\* not answer, and the driver takes its silence for success.
Refresh ==
    /\ up /\ kind = "gdeq" /\ ~NothingNew
    /\ ram' = IF chip.asleep THEN ram
              ELSE IF mode # "fast" THEN fb
              ELSE [r \in 0..Rows - 1 |-> IF fb[r] # old[r] THEN fb[r] ELSE ram[r]]
    /\ old' = fb
    /\ mode' = "fast"
    /\ synced' = IF chip.asleep \/ (mode = "fast" /\ synced = "no") THEN "no" ELSE "yes"
    /\ UNCHANGED <<kind, pin, up, chip, memory, fb, level, believed, drawn, faults>>

SetRefreshMode(m) ==
    /\ up /\ kind = "gdeq"
    /\ mode' = IF mode = "first" THEN mode ELSE m
    /\ UNCHANGED <<kind, pin, up, chip, memory, fb, old, ram, level, believed, drawn,
                   synced, faults>>

DisplayNext ==
    \/ DisplayInit
    \/ \E refused \in BOOLEAN :
          \/ DisplayDeinit(refused)
          \/ \E percent \in Percents :
                \/ LcdBrightness(percent, refused)
                \/ OledBrightness(percent, refused)
                \/ AmoledBrightness(percent, refused)
          \/ \E first, last \in 0..Rows, colour \in Colours :
                \/ FlushLcd(first, last, colour, refused)
                \/ FlushAmoled(first, last, colour, refused)
                \/ FlushOled(first, last, colour, refused)
    \/ \E enter \in BOOLEAN, refused \in SUBSET (1..3) : Sleep(enter, refused)
    \/ \E first, last \in 0..Rows, colour \in Colours : FlushEpaper(first, last, colour)
    \/ RefreshSkips \/ Refresh
    \/ \E m \in {"full", "fast"} : SetRefreshMode(m)

-----------------------------------------------------------------------------
(* Sound.                                                                  *)

\* A quotient that is rounded towards zero, as the machine does.
Quotient(a, b) == IF a < 0 THEN -((-a) \div b) ELSE a \div b

\* apply_volume, of one sample of 16 bits.
Scaled(sample, volume) ==
    IF volume >= 100 THEN sample ELSE Quotient(sample * volume, 100)

AudioInit ==
    /\ ~audio.ready
    /\ audio' = [audio EXCEPT !.ready = TRUE, !.playing = FALSE, !.rate = 0, !.slot = 0]
    /\ channel' = FALSE
    /\ UNCHANGED <<heard, faults>>
\* The channel is deleted; that it could not be disabled before is not looked at.
AudioDeinit ==
    /\ audio.ready
    /\ audio' = [audio EXCEPT !.ready = FALSE, !.playing = FALSE]
    /\ channel' = FALSE
    /\ UNCHANGED <<heard, faults>>

\* The channel is enabled with the first sample; enabling or writing may be refused.
Play(sample, refused) ==
    /\ audio.ready
    /\ refused = "enable" => ~audio.playing
    \* A channel that is enabled cannot be enabled again.
    /\ LET enabled == channel /\ ~audio.playing
       IN  /\ enabled => refused = "enable"
           /\ refused = "no" \/ enabled \/ faults < MaxFaults
    /\ IF refused = "enable"
       THEN UNCHANGED <<audio, channel, heard>>
       ELSE /\ audio' = [audio EXCEPT !.playing = TRUE]
            /\ channel' = TRUE
            /\ heard' = IF refused = "write" THEN heard
                        ELSE <<sample, Scaled(sample, audio.volume)>>
    /\ faults' = IF refused = "no" \/ faults = MaxFaults THEN faults ELSE faults + 1

Stop(refused) ==
    /\ audio.ready /\ audio.playing
    /\ refused => faults < MaxFaults
    /\ audio' = [audio EXCEPT !.playing = refused]
    /\ channel' = refused
    /\ faults' = IF refused THEN faults + 1 ELSE faults
    /\ UNCHANGED heard

SetVolume(percent) ==
    /\ audio' = [audio EXCEPT !.volume = Lit(percent)]
    /\ UNCHANGED <<channel, heard, faults>>

\* pcm5102a_configure stops the channel, then sets the clock and then the slot: what it
\* refuses half-way leaves a channel that is stopped, with the clock of the one and the
\* slot of the other.
Configure(c, refused) ==
    /\ audio.ready
    /\ faults + Cardinality(refused) <= MaxFaults
    /\ "disable" \in refused => audio.playing
    /\ channel' = (channel /\ (~audio.playing \/ "disable" \in refused))
    /\ audio' = [audio EXCEPT
            !.playing = FALSE,
            !.rate = IF refused \cap {"bits", "clock"} = {} THEN c ELSE @,
            !.slot = IF refused \cap {"bits", "clock", "slot"} = {} THEN c ELSE @]
    /\ faults' = faults + Cardinality(refused)
    /\ UNCHANGED heard

AudioNext ==
    \/ AudioInit \/ AudioDeinit
    \/ \E sample \in Sounds, refused \in {"no", "enable", "write"} : Play(sample, refused)
    \/ \E refused \in BOOLEAN : Stop(refused)
    \/ \E percent \in Percents : SetVolume(percent)
    \/ \E c \in {1, 2}, refused \in SUBSET {"disable", "bits", "clock", "slot"} :
          Configure(c, refused)

-----------------------------------------------------------------------------
DisplayStart ==
    /\ kind \in Kinds /\ pin \in BOOLEAN /\ up = FALSE
    /\ chip = [on |-> FALSE, asleep |-> FALSE, light |-> 0]
    /\ memory = IF kind = "co5300" THEN 208 ELSE 0
    /\ fb = Blank /\ old = Blank /\ ram = Blank /\ mode = "first"
    /\ level = 0 /\ believed = "unsure" /\ drawn = Blank /\ synced = "due"
AudioStart ==
    /\ audio = [ready |-> FALSE, playing |-> FALSE, volume |-> 100, rate |-> 0, slot |-> 0]
    /\ channel = FALSE /\ heard = <<0, 0>>
Init == DisplayStart /\ AudioStart /\ faults = 0

Next ==
    \/ DisplayNext /\ UNCHANGED audioVars
    \/ AudioNext /\ UNCHANGED displayVars

vars == <<displayVars, audioVars, faults>>

-----------------------------------------------------------------------------
(* Properties.                                                             *)

\* The types of the state.
TypeOK ==
    /\ kind \in Kinds /\ {pin, up, channel} \subseteq BOOLEAN /\ synced \in {"yes", "due", "no"}
    /\ chip.on \in BOOLEAN /\ chip.asleep \in BOOLEAN /\ chip.light \in 0..255
    /\ memory \in 0..255 /\ level \in 0..100 /\ audio.volume \in 0..100
    /\ {fb, old, ram, drawn} \subseteq Pictures
    /\ mode \in {"first", "full", "fast"} /\ believed \in {"awake", "asleep", "unsure"}
    /\ faults \in 0..MaxFaults

\* A display whose calls went well is on and as bright as it was set, or it is off, and it
\* does not wake dark; a backlight shines on a display that sleeps only if it was set to
\* while it slept (sleep and set_brightness of the drivers).
ScreenIsAsBelieved ==
    up /\ kind # "gdeq" =>
        /\ kind \in Lcds => memory # 0
        /\ believed = "awake" =>
              /\ chip.on /\ ~chip.asleep
              /\ (kind \in Lcds /\ pin) => chip.light = Duty(level)
        /\ believed = "asleep" =>
              /\ ~chip.on
              /\ kind \in Lcds => chip.light \in {0, Duty(level)}

\* What a flush (or, on e-paper, a refresh) that went well leaves on the panel is every
\* picture flushed before, those that were refused by the OLED among them
\* (ssd1306_flush, gdeq031t10_flush, gdeq031t10_refresh).
PanelShowsThePicture ==
    up /\ synced = "yes" =>
        CASE kind = "gdeq" -> \A r \in 0..Rows - 1 : ram[Mirrored(r)] = drawn[r]
          [] OTHER -> ram = drawn

\* Volume never amplifies a sample or turns it over, a channel is enabled while the driver
\* thinks so, and clock and slot are of one configuration, unless a command was refused
\* (apply_volume, pcm5102a_play, pcm5102a_stop, pcm5102a_configure).
SoundIsSound ==
    /\ LET a == heard[1]  b == heard[2]
       IN  /\ a >= 0 => b \in 0..a
           /\ a < 0 => b \in a..0
    /\ audio.playing => channel
    /\ faults = 0 => (audio.playing = channel /\ audio.rate = audio.slot)
=============================================================================
