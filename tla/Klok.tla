-------------------------------- MODULE Klok --------------------------------
(***************************************************************************)
(* The sketch src/arduino/KlokTHREEjr/KlokTHREEjr.ino: setup(), the three   *)
(* Adafruit IO feed handlers, the settings kept in EEPROM and clock(), the  *)
(* body of loop().  The program is one thread; pc names the places where it *)
(* blocks, and only there does the rest of the world move: time passes,     *)
(* feed messages arrive, the link drops, the power fails.                   *)
(*                                                                          *)
(* Times are in minutes.  Day is the length of a day (1440 in the code),    *)
(* IncLen that of a display increment (5) and Wrap the size of uint32_t     *)
(* (2^32 s): like 2^32 and 86400, Wrap need not be a multiple of Day.       *)
(***************************************************************************)
EXTENDS Integers, Sequences

CONSTANTS Day, IncLen, Wrap, MaxBrightness,
          Values,     \* what String::toInt() returns for the payloads
          FirstUtc,   \* the hour of the first power-up
          MaxUtc, MaxMsgs, MaxFails, MaxDrops   \* bounds of the environment

ASSUME DayAssumption ==
  /\ Day \in Nat \ {0} /\ IncLen \in Nat \ {0} /\ Wrap \in Nat \ {0}
ASSUME RangeAssumption ==
  /\ MaxBrightness \in 0..254
  /\ Values \subseteq Int
ASSUME BoundAssumption ==
  /\ FirstUtc \in Nat /\ MaxUtc \in Nat
  /\ MaxMsgs \in Nat /\ MaxFails \in Nat /\ MaxDrops \in Nat

N_DISPLAY == 3
WipeAround == 1  \* WipeAroundDisplay, what CurrentDisplay_p starts as
Dark == -1       \* no word is lit

Feeds == {"timezone", "brightness", "display_idx"}

(* A payload is what the handlers look at: is it the empty string, and what *)
(* does toInt() make of it (0 for the empty string and for letters).        *)
Messages == {m \in [feed : Feeds, value : Values, empty : BOOLEAN] :
               m.empty => m.value = 0}

(* The fields of config_t the sketch uses; alarm and mode are never read.   *)
Config == [timezone : Int, brightness : 0..255, display_idx : 0..255]

(* What EEPROM_readAnything makes of an erased sector, all bytes 0xFF.      *)
Erased == [timezone |-> -1, brightness |-> 255, display_idx |-> 255]

(* Static storage before setup() has read the settings.                     *)
ZeroConfig == [timezone |-> 0, brightness |-> 0, display_idx |-> 0]

(* C's remainder takes the sign of the dividend.                            *)
CRem(a, b) == IF a >= 0 THEN a % b ELSE -((-a) % b)

(* spm / 300 for a uint32_t time.                                           *)
TimeInc(t) == ((t % Wrap) % Day) \div IncLen

VARIABLES
  pc,
  configuration,   \* config_t configuration
  timeOffset,      \* NTPClient::_timeOffset, in minutes
  brightness,      \* FastLED's brightness
  currentDisplay,  \* the index of *CurrentDisplay_p
  current_time,    \* the last reading of getEpochTime()
  time_inc,        \* clock()'s local of that name, while a transition runs
  last_time_inc,
  panel,           \* the increment whose words are lit, or Dark
  io_due,          \* millis() - last_io_update_ms > UPDATE_IO_MS
  synced,          \* NTPClient has had an answer since power-up
  flash,           \* the EEPROM sector
  online,          \* the MQTT session is up
  queue,           \* packets received and not yet read
  utc, uptime,     \* the real time; the time since power-up
  msgs, fails, drops  \* how much of the bounds is used

program == <<pc, configuration, timeOffset, brightness, currentDisplay,
             current_time, time_inc, last_time_inc, panel, io_due, synced>>
outputs == <<timeOffset, brightness, currentDisplay>>
clockvars == <<current_time, time_inc, last_time_inc, panel, io_due, synced>>
world == <<flash, online, queue, utc, uptime, msgs, fails, drops>>
env == <<utc, uptime, msgs, fails, drops>>
vars == <<program, world>>

-----------------------------------------------------------------------------
(* RAM at power-up: the initialisers of the globals.                        *)
PowerUpState ==
  [pc |-> "connect", configuration |-> ZeroConfig, timeOffset |-> 0,
   brightness |-> 255, currentDisplay |-> WipeAround, current_time |-> 0,
   time_inc |-> 0, last_time_inc |-> 0, panel |-> Dark, io_due |-> FALSE,
   synced |-> FALSE]

Init ==
  /\ pc = PowerUpState.pc
  /\ configuration = PowerUpState.configuration
  /\ timeOffset = PowerUpState.timeOffset
  /\ brightness = PowerUpState.brightness
  /\ currentDisplay = PowerUpState.currentDisplay
  /\ current_time = PowerUpState.current_time
  /\ time_inc = PowerUpState.time_inc
  /\ last_time_inc = PowerUpState.last_time_inc
  /\ panel = PowerUpState.panel
  /\ io_due = PowerUpState.io_due
  /\ synced = PowerUpState.synced
  /\ flash = Erased
  /\ online = FALSE
  /\ queue = <<>>
  /\ utc = FirstUtc
  /\ uptime = 0
  /\ msgs = 0 /\ fails = 0 /\ drops = 0

-----------------------------------------------------------------------------
(* setup()                                                                  *)

(* while(io.status() < AIO_CONNECTED), and run()'s loop on mqttStatus():    *)
(* both keep calling Adafruit_MQTT::connect until the broker accepts.       *)
Connect ==
  /\ pc \in {"connect", "run"}
  /\ pc = "run" => io_due
  /\ ~online
  /\ online' = TRUE
  /\ UNCHANGED <<program, flash, queue, env>>

SetupConnected ==
  /\ pc = "connect"
  /\ online
  /\ pc' = "load"
  /\ UNCHANGED <<configuration, outputs, clockvars, world>>

(* onMessage, EEPROM.begin and loadSettings; new_display's init blocks.     *)
SetupLoad ==
  /\ pc = "load"
  /\ configuration' = flash
  /\ pc' = "init"
  /\ UNCHANGED <<outputs, clockvars, world>>

(* The rest of setup(), from the assignment at the end of new_display.      *)
(* Mutant: setup() forgets timeClient.setTimeOffset.                        *)
SetupApply_NoTimeOffset ==
  /\ pc = "init"
  /\ currentDisplay' = configuration.display_idx % N_DISPLAY
  /\ brightness' = configuration.brightness
  /\ pc' = "tick"
  /\ UNCHANGED <<configuration, timeOffset, clockvars, world>>

SetupApply ==
  /\ pc = "init"
  /\ currentDisplay' = configuration.display_idx % N_DISPLAY
  /\ brightness' = configuration.brightness
  /\ timeOffset' = configuration.timezone
  /\ pc' = "tick"
  /\ UNCHANGED <<configuration, clockvars, world>>

-----------------------------------------------------------------------------
(* clock(): the time update.                                                *)

(* getEpochTime(): the real time once an answer has come, the time since    *)
(* power-up before that; uint32_t arithmetic.                               *)
Reading(ok) == ((IF ok THEN utc ELSE uptime) + timeOffset) % Wrap

TickSynced ==
  /\ pc = "tick"
  /\ synced' = TRUE
  /\ current_time' = Reading(TRUE)
  /\ pc' = "run"
  /\ UNCHANGED <<configuration, outputs, time_inc, last_time_inc, panel, io_due,
                 world>>

TickNoReply ==
  /\ pc = "tick"
  /\ ~synced
  /\ current_time' = Reading(FALSE)
  /\ pc' = "run"
  /\ UNCHANGED <<configuration, outputs, time_inc, last_time_inc, panel, io_due,
                 synced, world>>

(* Less than UPDATE_INTERVAL_MS since the last update.                      *)
TickNotDue ==
  /\ pc = "tick"
  /\ pc' = "run"
  /\ UNCHANGED <<configuration, outputs, clockvars, world>>

-----------------------------------------------------------------------------
(* clock(): io.run() and the feed handlers it calls.                        *)

RunSkip ==
  /\ pc = "run"
  /\ ~io_due
  /\ pc' = "draw"
  /\ UNCHANGED <<configuration, outputs, clockvars, world>>

RunConnected ==
  /\ pc = "run"
  /\ io_due
  /\ online
  /\ pc' = "io"
  /\ UNCHANGED <<configuration, outputs, clockvars, world>>

(* One turn of processPackets: the next packet goes to its feed's handler.  *)
Receive(feed) ==
  /\ pc \in {"io", "io_more"}
  /\ queue # <<>>
  /\ Head(queue).feed = feed
  /\ queue' = Tail(queue)
  /\ UNCHANGED <<flash, online, env, clockvars>>

(* A message whose value a handler does not take.                           *)
Ignore ==
  /\ pc' = "io_more"
  /\ UNCHANGED <<configuration, outputs>>

(* Mutant: no test against the setting in force.                            *)
AcceptsTimezone_Unchanged(m) == -Day < 2 * m.value /\ 2 * m.value <= Day

AcceptsTimezone(m) ==
  /\ m.value # configuration.timezone
  /\ -Day < 2 * m.value
  /\ 2 * m.value <= Day

(* Mutant: the new timezone is stored and not passed on to NTPClient.       *)
HandleTimezone_NoSetTimeOffset ==
  /\ Receive("timezone")
  /\ LET m == Head(queue) IN
       \/ /\ AcceptsTimezone(m)
          /\ configuration' = [configuration EXCEPT !.timezone = m.value]
          /\ pc' = "erase"
          /\ UNCHANGED outputs
       \/ ~AcceptsTimezone(m) /\ Ignore

HandleTimezone ==
  /\ Receive("timezone")
  /\ LET m == Head(queue) IN
       \/ /\ AcceptsTimezone(m)
          /\ configuration' = [configuration EXCEPT !.timezone = m.value]
          /\ timeOffset' = m.value
          /\ pc' = "erase"
          /\ UNCHANGED <<brightness, currentDisplay>>
       \/ ~AcceptsTimezone(m) /\ Ignore

(* Mutant: the lower limit is not tested.                                   *)
AcceptsBrightness_NoLowerLimit(m) ==
  ~m.empty /\ m.value # configuration.brightness /\ m.value <= MaxBrightness

AcceptsBrightness(m) ==
  /\ ~m.empty
  /\ m.value # configuration.brightness
  /\ 0 <= m.value
  /\ m.value <= MaxBrightness

(* Mutant: the brightness is applied and not saved.                         *)
HandleBrightness_NoSave ==
  /\ Receive("brightness")
  /\ LET m == Head(queue) IN
       \/ /\ AcceptsBrightness(m)
          /\ configuration' = [configuration EXCEPT !.brightness = m.value]
          /\ brightness' = m.value
          /\ pc' = "io_more"
          /\ UNCHANGED <<timeOffset, currentDisplay>>
       \/ ~AcceptsBrightness(m) /\ Ignore

HandleBrightness ==
  /\ Receive("brightness")
  /\ LET m == Head(queue) IN
       \/ /\ AcceptsBrightness(m)
          /\ configuration' = [configuration EXCEPT !.brightness = m.value]
          /\ brightness' = m.value
          /\ pc' = "erase"
          /\ UNCHANGED <<timeOffset, currentDisplay>>
       \/ ~AcceptsBrightness(m) /\ Ignore

AcceptsDisplayIdx(m) ==
  LET new_idx == CRem(m.value, N_DISPLAY) IN
    /\ ~m.empty
    /\ new_idx # configuration.display_idx
    /\ 0 <= new_idx
    /\ new_idx <= MaxBrightness

(* Up to the call of new_display, which blocks in the display's init.       *)
HandleDisplayIdx ==
  /\ Receive("display_idx")
  /\ LET m == Head(queue) IN
       \/ /\ AcceptsDisplayIdx(m)
          /\ configuration' =
               [configuration EXCEPT !.display_idx = CRem(m.value, N_DISPLAY)]
          /\ pc' = "new_display"
          /\ UNCHANGED outputs
       \/ ~AcceptsDisplayIdx(m) /\ Ignore

(* Mutant: handleDisplayIdx returns without saveSettings.                   *)
NewDisplay_NoSave ==
  /\ pc = "new_display"
  /\ currentDisplay' = configuration.display_idx
  /\ pc' = "io_more"
  /\ UNCHANGED <<configuration, timeOffset, brightness, clockvars, world>>

(* new_display: CurrentDisplay_p changes when the init animation is over.   *)
NewDisplay ==
  /\ pc = "new_display"
  /\ currentDisplay' = configuration.display_idx
  /\ pc' = "erase"
  /\ UNCHANGED <<configuration, timeOffset, brightness, clockvars, world>>

(* saveSettings: EEPROM.commit() erases the sector, then programs it.       *)
CommitErase ==
  /\ pc = "erase"
  /\ flash' = Erased
  /\ pc' = "program"
  /\ UNCHANGED <<configuration, outputs, clockvars, online, queue, env>>

CommitProgram ==
  /\ pc = "program"
  /\ flash' = configuration
  /\ pc' = "io_more"
  /\ UNCHANGED <<configuration, outputs, clockvars, online, queue, env>>

(* Mutant: processPackets gives up before the first read.                   *)
IoDone_Early ==
  /\ pc \in {"io", "io_more"}
  /\ pc' = "draw"
  /\ UNCHANGED <<configuration, outputs, clockvars, world>>

(* processPackets returns when its time is up: it has then read at least    *)
(* one packet if there was one.                                             *)
IoDone ==
  /\ \/ pc = "io_more"
     \/ pc = "io" /\ queue = <<>>
  /\ pc' = "draw"
  /\ UNCHANGED <<configuration, outputs, clockvars, world>>

-----------------------------------------------------------------------------
(* clock(): the display.                                                    *)

(* Every transition first shows the words of last_time_inc:                 *)
(* wipe_around_transition and TheMatrix all at once, word_drop_out one after *)
(* the other, each from its own row down (module Transitions).              *)
StartTransition ==
  /\ pc = "draw"
  /\ TimeInc(current_time) # last_time_inc
  /\ time_inc' = TimeInc(current_time)
  /\ panel' = last_time_inc
  /\ pc' = "transition"
  /\ UNCHANGED <<configuration, outputs, current_time, last_time_inc, io_due,
                 synced, world>>

(* Mutants: last_time_inc is not set; the words of the wrong increment end  *)
(* up lit.                                                                  *)
EndTransition_KeepLast ==
  /\ pc = "transition"
  /\ panel' = time_inc
  /\ pc' = "tick"
  /\ UNCHANGED <<configuration, outputs, current_time, time_inc, last_time_inc,
                 io_due, synced, world>>

EndTransition_OldWords ==
  /\ pc = "transition"
  /\ last_time_inc' = time_inc
  /\ panel' = last_time_inc
  /\ pc' = "tick"
  /\ UNCHANGED <<configuration, outputs, current_time, time_inc, io_due, synced,
                 world>>

EndTransition ==
  /\ pc = "transition"
  /\ last_time_inc' = time_inc
  /\ panel' = time_inc
  /\ pc' = "tick"
  /\ UNCHANGED <<configuration, outputs, current_time, time_inc, io_due, synced,
                 world>>

Draw ==
  /\ pc = "draw"
  /\ TimeInc(current_time) = last_time_inc
  /\ panel' = TimeInc(current_time)
  /\ pc' = "tick"
  /\ UNCHANGED <<configuration, outputs, current_time, time_inc, last_time_inc,
                 io_due, synced, world>>

-----------------------------------------------------------------------------
(* The world.                                                               *)

MinutePasses ==
  /\ utc < MaxUtc
  /\ utc' = utc + 1
  /\ uptime' = uptime + 1
  /\ io_due' = TRUE
  /\ UNCHANGED <<pc, configuration, outputs, current_time, time_inc,
                 last_time_inc, panel, synced, flash, online, queue, msgs, fails,
                 drops>>

(* The first UPDATE_IO_MS go by.  last_io_update_ms stays 0 for ever: the   *)
(* statement meant to set it has no effect.                                 *)
IoBecomesDue ==
  /\ ~io_due
  /\ io_due' = TRUE
  /\ UNCHANGED <<pc, configuration, outputs, current_time, time_inc,
                 last_time_inc, panel, synced, world>>

Publish ==
  /\ online
  /\ msgs < MaxMsgs
  /\ msgs' = msgs + 1
  /\ \E m \in Messages : queue' = Append(queue, m)
  /\ UNCHANGED <<program, flash, online, utc, uptime, fails, drops>>

(* The session ends, and with it what was received and not read.            *)
LinkDrop ==
  /\ online
  /\ drops < MaxDrops
  /\ drops' = drops + 1
  /\ online' = FALSE
  /\ queue' = <<>>
  /\ UNCHANGED <<program, flash, utc, uptime, msgs, fails>>

PowerFail ==
  /\ fails < MaxFails
  /\ fails' = fails + 1
  /\ pc' = PowerUpState.pc
  /\ configuration' = PowerUpState.configuration
  /\ timeOffset' = PowerUpState.timeOffset
  /\ brightness' = PowerUpState.brightness
  /\ currentDisplay' = PowerUpState.currentDisplay
  /\ current_time' = PowerUpState.current_time
  /\ time_inc' = PowerUpState.time_inc
  /\ last_time_inc' = PowerUpState.last_time_inc
  /\ panel' = PowerUpState.panel
  /\ io_due' = PowerUpState.io_due
  /\ synced' = PowerUpState.synced
  /\ online' = FALSE
  /\ queue' = <<>>
  /\ uptime' = 0
  /\ UNCHANGED <<flash, utc, msgs, drops>>

-----------------------------------------------------------------------------
Setup == SetupConnected \/ SetupLoad \/ SetupApply
Tick == TickSynced \/ TickNoReply \/ TickNotDue
Io == \/ RunSkip \/ RunConnected \/ HandleTimezone \/ HandleBrightness
      \/ HandleDisplayIdx \/ NewDisplay \/ CommitErase \/ CommitProgram \/ IoDone
Show == StartTransition \/ EndTransition \/ Draw
World == MinutePasses \/ IoBecomesDue \/ Publish \/ LinkDrop \/ PowerFail

Next == Connect \/ Setup \/ Tick \/ Io \/ Show \/ World

Spec == Init /\ [][Next]_vars

(* The program does not stop at a step that does not wait for the network,  *)
(* NTP answers now and then (WF would let every tick fall on TickNotDue),   *)
(* and millis() advances.  Nothing says that the broker ever accepts.       *)
Fairness ==
  /\ WF_vars(Setup) /\ WF_vars(Tick) /\ WF_vars(Io) /\ WF_vars(Show)
  /\ SF_vars(TickSynced)
  /\ WF_vars(IoBecomesDue)

FairSpec == Spec /\ Fairness
-----------------------------------------------------------------------------
(* Properties *)

(* Increments, uint16_t in the code, and the places pc names.               *)
Incs == 0..Day
BeforeLoad == {"connect", "load"}
Pcs == {"connect", "load", "init", "tick", "run", "io", "io_more", "new_display",
        "erase", "program", "draw", "transition"}

(* The state of the settings as SettingsStore sees it.                      *)
Phase ==
  CASE pc \in BeforeLoad -> "off"
    [] pc \in {"new_display", "erase"} -> "changed"
    [] pc = "program" -> "saving"
    [] OTHER -> "saved"

Store == INSTANCE SettingsStore
           WITH settings <- configuration, stored <- flash, phase <- Phase,
                NoConfig <- ZeroConfig

(* Every variable keeps its type; a negative or large payload never gets    *)
(* into the uint8_t fields of config_t.                                     *)
TypeOK ==
  /\ pc \in Pcs
  /\ configuration \in Config
  /\ timeOffset \in Int
  /\ brightness \in 0..255
  /\ currentDisplay \in 0..(N_DISPLAY - 1)
  /\ current_time \in Nat
  /\ time_inc \in Incs /\ last_time_inc \in Incs
  /\ panel \in Incs \cup {Dark}
  /\ io_due \in BOOLEAN /\ synced \in BOOLEAN /\ online \in BOOLEAN
  /\ flash \in Config
  /\ queue \in Seq(Messages)
  /\ utc \in Nat /\ uptime \in Nat
  /\ msgs \in Nat /\ fails \in Nat /\ drops \in Nat

(* Whatever order settings, power failures and restarts come in, NTPClient, *)
(* FastLED and CurrentDisplay_p follow the settings from the end of setup() *)
(* on; only while new_display blocks is the old display still the current.  *)
OutputsFollow ==
  pc \notin BeforeLoad \cup {"init"} =>
    /\ timeOffset = configuration.timezone
    /\ brightness = configuration.brightness
    /\ pc # "new_display" =>
         currentDisplay = configuration.display_idx % N_DISPLAY

(* Whenever clock() is not inside a feed handler the settings in RAM are the *)
(* ones a restart would find: no power failure there changes a setting.     *)
SettingsSaved ==
  pc \notin BeforeLoad \cup {"new_display", "erase", "program"} =>
    flash = configuration

(* Inside a handler that took a new value, up to the commit, EEPROM and RAM *)
(* differ in exactly one field: a failure loses at most the change being    *)
(* made, and the sector is never erased for a value it already holds.       *)
OneChangePending ==
  /\ pc \in {"new_display", "erase"} =>
       Store!OneFieldDiffers(flash, configuration)
  /\ pc = "program" => flash = Erased

(* last_time_inc is the increment whose words are lit, through messages,    *)
(* stale readings and transitions that outlast increments: word_drop_out    *)
(* takes down words that are up.  After power-up no word is lit.            *)
PanelIsLast ==
  /\ panel \in {Dark, last_time_inc}
  /\ pc = "transition" => time_inc = TimeInc(current_time)

(* At the end of a pass of clock() the words lit are those of the time read *)
(* in that pass, although io.run() and a transition blocked in between.     *)
FrameShowsReading ==
  pc = "tick" /\ panel # Dark => panel = TimeInc(current_time)

(* The first words lit after power-up are those of the time that was read:  *)
(* word_drop's test for last_time_inc 289 says that no time came before.    *)
(* last_time_inc starts as 0, so every display first shows midnight.        *)
FirstWordsAreTheTime ==
  [][panel = Dark /\ panel' # Dark => panel' = TimeInc(current_time)]_vars

(* A record that was saved holds a brightness up to MAX_BRIGHTNESS.  The    *)
(* fields an erased sector gave are saved unchecked with the first setting. *)
SavedBrightnessInRange ==
  flash # Erased => flash.brightness <= MaxBrightness

(* If the session is up from some time on, the panel comes to show the real *)
(* time in the timezone set, whatever happened before.  Without the         *)
(* hypothesis it does not: run() does not return while the broker is away.  *)
ShowsLocalTime == panel = TimeInc(utc + configuration.timezone)
KeepsTime == <>[]online => []<>ShowsLocalTime

(* Every packet received is read, if a lost session does not take it.       *)
PacketsRead == queue # <<>> ~> queue = <<>>

(* The settings are those of SettingsStore: saved as a whole, one change at *)
(* a time, restored as saved or erased.                                     *)
StoreSpec == Store!Spec
=============================================================================
