------------------------------ MODULE KlokProofs ------------------------------
(***************************************************************************)
(* Proofs about Klok for every length of the day, every set of payloads and *)
(* any number of messages, power failures and lost sessions.                *)
(***************************************************************************)
EXTENDS Klok, TLAPS, SequenceTheorems

(* What the assignment at the end of new_display needs to know.             *)
NewIdxInRange == pc = "new_display" => configuration.display_idx \in 0..(N_DISPLAY - 1)

(* No word is lit before the first pass of clock(). *)
DarkInSetup == pc \in {"connect", "load", "init"} => panel = Dark

Inv ==
  /\ TypeOK
  /\ OutputsFollow
  /\ SettingsSaved
  /\ OneChangePending
  /\ PanelIsLast
  /\ FrameShowsReading
  /\ NewIdxInRange
  /\ DarkInSetup

(* The display increment of any uint32_t time is an index of DISPLAYS.      *)
LEMMA TimeIncType ==
  ASSUME NEW t \in Nat
  PROVE  TimeInc(t) \in Incs
<1>1. (t % Wrap) \in Nat
  BY DayAssumption
<1>2. PICK m \in 0..(Day - 1) : m = (t % Wrap) % Day
  BY <1>1, DayAssumption
<1>3. m \div IncLen \in 0..m
  BY <1>2, DayAssumption
<1>. QED
  BY <1>2, <1>3, DayAssumption DEF TimeInc, Incs

(* The reading of the clock is a uint32_t. *)
LEMMA ReadingType ==
  ASSUME TypeOK, NEW ok \in BOOLEAN
  PROVE  Reading(ok) \in Nat
<1>1. (IF ok THEN utc ELSE uptime) + timeOffset \in Int
  BY DEF TypeOK
<1>. QED
  BY <1>1, DayAssumption DEF Reading

(* C's remainder by N_DISPLAY, if not negative, is an index of Display_ps.  *)
LEMMA CRemIdx ==
  ASSUME NEW v \in Int, 0 <= CRem(v, N_DISPLAY)
  PROVE  CRem(v, N_DISPLAY) \in 0..(N_DISPLAY - 1)
BY DEF CRem, N_DISPLAY

(* A handler gets a message, and leaves a queue of messages behind.         *)
LEMMA ReceiveType ==
  ASSUME TypeOK, NEW feed, Receive(feed)
  PROVE  /\ Head(queue) \in Messages
         /\ Head(queue).value \in Int
         /\ queue' \in Seq(Messages)
<1>1. queue \in Seq(Messages) /\ queue # <<>> /\ queue' = Tail(queue)
  BY DEF TypeOK, Receive
<1>2. Head(queue) \in Messages /\ Tail(queue) \in Seq(Messages)
  BY <1>1
<1>3. Head(queue).value \in Int
  BY <1>2, RangeAssumption DEF Messages
<1>. QED
  BY <1>1, <1>2, <1>3

(* The index of a display, as setup() and new_display make it.              *)
LEMMA DisplayIdx ==
  /\ \A n \in 0..255 : n % N_DISPLAY \in 0..(N_DISPLAY - 1)
  /\ \A n \in 0..(N_DISPLAY - 1) : n % N_DISPLAY = n
BY DEF N_DISPLAY

(* An accepted brightness is a new one and fits uint8_t. *)
LEMMA AcceptedBrightness ==
  ASSUME NEW m, m.value \in Int, AcceptsBrightness(m)
  PROVE  m.value \in 0..255 /\ m.value # configuration.brightness
<1>1. 0 <= m.value /\ m.value <= MaxBrightness /\ m.value # configuration.brightness
  BY ZenonT(20) DEF AcceptsBrightness
<1>. QED
  BY <1>1, RangeAssumption

(* Replacing one field of a record of settings by another value. *)
LEMMA OneField ==
  ASSUME NEW c \in Config, NEW f \in {"timezone", "brightness", "display_idx"},
         NEW v, v # c[f]
  PROVE  Store!OneFieldDiffers(c, [c EXCEPT ![f] = v])
<1>1. DOMAIN c = {"timezone", "brightness", "display_idx"}
  BY DEF Config
<1>. QED
  BY <1>1 DEF Store!OneFieldDiffers, Config

THEOREM InvInit == Init => Inv
<1>. SUFFICES ASSUME Init
              PROVE  Inv
  OBVIOUS
<1>1. 0 \in Incs
  BY DayAssumption DEF Incs
<1>2. queue \in Seq(Messages)
  BY EmptySeq DEF Init
<1>3. io_due \in BOOLEAN /\ synced \in BOOLEAN /\ online \in BOOLEAN
  BY Zenon DEF Init, PowerUpState
<1>4. /\ pc = "connect" /\ panel = Dark /\ last_time_inc = 0
      /\ configuration = ZeroConfig /\ flash = Erased
  BY DEF Init, PowerUpState
<1>5. TypeOK
  BY <1>1, <1>2, <1>3, <1>4, BoundAssumption
  DEF Init, PowerUpState, TypeOK, Pcs, Config, ZeroConfig, Erased, WipeAround, N_DISPLAY
<1>. QED
  BY <1>4, <1>5
  DEF Inv, OutputsFollow, SettingsSaved, OneChangePending, PanelIsLast,
      FrameShowsReading, NewIdxInRange, DarkInSetup, BeforeLoad

(* Every step keeps the invariant. *)
THEOREM InvStep == Inv /\ [Next]_vars => Inv'
<1>. SUFFICES ASSUME Inv, [Next]_vars
              PROVE  Inv'
  OBVIOUS
<1>. USE DEF Inv, outputs, clockvars, world, env, program,
       TypeOK, OutputsFollow, SettingsSaved, OneChangePending, PanelIsLast,
       FrameShowsReading, NewIdxInRange, DarkInSetup, Pcs, BeforeLoad, Config
<1>1. CASE Connect
  BY <1>1 DEF Connect
<1>2. CASE SetupConnected
  BY <1>2 DEF SetupConnected
<1>3. CASE SetupLoad
  BY <1>3 DEF SetupLoad
<1>4. CASE SetupApply
  <2>1. configuration.display_idx % N_DISPLAY \in 0..(N_DISPLAY - 1)
    BY DisplayIdx
  <2>. QED
    BY <1>4, <2>1 DEF SetupApply
<1>5. CASE TickSynced
  <2>1. current_time' \in Nat
    BY <1>5, ReadingType DEF TickSynced
  <2>. QED
    BY <1>5, <2>1 DEF TickSynced
<1>6. CASE TickNoReply
  <2>1. current_time' \in Nat
    BY <1>6, ReadingType DEF TickNoReply
  <2>. QED
    BY <1>6, <2>1 DEF TickNoReply
<1>7. CASE TickNotDue
  BY <1>7 DEF TickNotDue
<1>8. CASE RunSkip
  BY <1>8 DEF RunSkip
<1>9. CASE RunConnected
  BY <1>9 DEF RunConnected
<1>10. CASE HandleTimezone
  <2>1. Head(queue).value \in Int /\ queue' \in Seq(Messages)
    BY <1>10, ReceiveType DEF HandleTimezone
  <2>2. CASE AcceptsTimezone(Head(queue))
    <3>. DEFINE v == Head(queue).value
    <3>1. /\ configuration' = [configuration EXCEPT !.timezone = v]
          /\ timeOffset' = v
          /\ pc' = "erase"
          /\ UNCHANGED <<brightness, currentDisplay>>
      BY <1>10, <2>2 DEF HandleTimezone
    <3>2. v \in Int /\ v # configuration.timezone /\ flash = configuration
      BY <1>10, <2>1, <2>2 DEF AcceptsTimezone, HandleTimezone, Receive
    <3>3. Store!OneFieldDiffers(flash, configuration)'
      BY <1>10, <3>1, <3>2, OneField DEF HandleTimezone, Receive
    <3>. HIDE DEF v
    <3>. QED
      BY <1>10, <2>1, <3>1, <3>2, <3>3 DEF HandleTimezone, Receive
  <2>3. CASE ~AcceptsTimezone(Head(queue))
    BY <1>10, <2>1, <2>3 DEF HandleTimezone, Receive, Ignore
  <2>. QED
    BY <2>2, <2>3
<1>11. CASE HandleBrightness
  <2>1. Head(queue).value \in Int /\ queue' \in Seq(Messages)
    BY <1>11, ReceiveType DEF HandleBrightness
  <2>2. CASE AcceptsBrightness(Head(queue))
    <3>. DEFINE v == Head(queue).value
    <3>1. v \in 0..255 /\ v # configuration.brightness
      BY <2>1, <2>2, AcceptedBrightness
    <3>2. /\ configuration' = [configuration EXCEPT !.brightness = v]
          /\ brightness' = v
          /\ pc' = "erase"
          /\ UNCHANGED <<timeOffset, currentDisplay>>
      BY <1>11, <2>2 DEF HandleBrightness
    <3>3. flash = configuration
      BY <1>11 DEF HandleBrightness, Receive
    <3>4. Store!OneFieldDiffers(flash, configuration)'
      BY <1>11, <3>1, <3>2, <3>3, OneField DEF HandleBrightness, Receive
    <3>. HIDE DEF v
    <3>. QED
      BY <1>11, <2>1, <3>1, <3>2, <3>4 DEF HandleBrightness, Receive
  <2>3. CASE ~AcceptsBrightness(Head(queue))
    BY <1>11, <2>1, <2>3 DEF HandleBrightness, Receive, Ignore
  <2>. QED
    BY <2>2, <2>3
<1>12. CASE HandleDisplayIdx
  <2>1. Head(queue).value \in Int /\ queue' \in Seq(Messages)
    BY <1>12, ReceiveType DEF HandleDisplayIdx
  <2>2. CASE AcceptsDisplayIdx(Head(queue))
    <3>. DEFINE idx == CRem(Head(queue).value, N_DISPLAY)
    <3>1. /\ idx \in 0..(N_DISPLAY - 1) /\ idx \in 0..255
          /\ idx # configuration.display_idx
      <4>1. 0 <= idx /\ idx # configuration.display_idx
        BY <2>2, ZenonT(20) DEF AcceptsDisplayIdx
      <4>. QED
        BY <2>1, <4>1, CRemIdx DEF N_DISPLAY
    <3>2. /\ configuration' = [configuration EXCEPT !.display_idx = idx]
          /\ pc' = "new_display"
          /\ UNCHANGED <<timeOffset, brightness, currentDisplay>>
      BY <1>12, <2>2 DEF HandleDisplayIdx
    <3>3. flash = configuration
      BY <1>12 DEF HandleDisplayIdx, Receive
    <3>4. Store!OneFieldDiffers(flash, configuration)'
      BY <1>12, <3>1, <3>2, <3>3, OneField DEF HandleDisplayIdx, Receive
    <3>. HIDE DEF idx
    <3>. QED
      BY <1>12, <2>1, <3>1, <3>2, <3>4 DEF HandleDisplayIdx, Receive
  <2>3. CASE ~AcceptsDisplayIdx(Head(queue))
    BY <1>12, <2>1, <2>3 DEF HandleDisplayIdx, Receive, Ignore
  <2>. QED
    BY <2>2, <2>3
<1>13. CASE NewDisplay
  <2>1. configuration.display_idx % N_DISPLAY = configuration.display_idx
    BY <1>13, DisplayIdx DEF NewDisplay
  <2>. QED
    BY <1>13, <2>1 DEF NewDisplay
<1>14. CASE CommitErase
  BY <1>14 DEF CommitErase, Erased
<1>15. CASE CommitProgram
  BY <1>15 DEF CommitProgram
<1>16. CASE IoDone
  BY <1>16 DEF IoDone
<1>17. CASE StartTransition
  <2>1. TimeInc(current_time) \in Incs
    BY TimeIncType
  <2>. QED
    BY <1>17, <2>1 DEF StartTransition
<1>18. CASE EndTransition
  BY <1>18 DEF EndTransition
<1>19. CASE Draw
  BY <1>19 DEF Draw
<1>20. CASE MinutePasses
  BY <1>20 DEF MinutePasses
<1>21. CASE IoBecomesDue
  BY <1>21 DEF IoBecomesDue
<1>22. CASE Publish
  BY <1>22 DEF Publish
<1>23. CASE LinkDrop
  <2>1. queue' \in Seq(Messages)
    BY <1>23, EmptySeq DEF LinkDrop
  <2>2. drops' \in Nat
    BY <1>23 DEF LinkDrop
  <2>3. online' \in BOOLEAN
    BY <1>23, Zenon DEF LinkDrop
  <2>4. UNCHANGED <<program, flash, utc, uptime, msgs, fails>>
    BY <1>23 DEF LinkDrop
  <2>. QED
    BY <2>1, <2>2, <2>3, <2>4
<1>24. CASE PowerFail
  <2>1. queue' \in Seq(Messages)
    BY <1>24, EmptySeq DEF PowerFail
  <2>2. 0 \in Incs
    BY DayAssumption DEF Incs
  <2>3. /\ pc' = "connect" /\ panel' = Dark /\ last_time_inc' = 0 /\ time_inc' = 0
        /\ configuration' = ZeroConfig /\ timeOffset' = 0 /\ brightness' = 255
        /\ currentDisplay' = WipeAround /\ current_time' = 0
        /\ fails' = fails + 1 /\ uptime' = 0
        /\ UNCHANGED <<flash, utc, msgs, drops>>
    BY <1>24 DEF PowerFail, PowerUpState
  <2>4. io_due' \in BOOLEAN /\ synced' \in BOOLEAN /\ online' \in BOOLEAN
    BY <1>24, Zenon DEF PowerFail, PowerUpState
  <2>. QED
    BY <2>1, <2>2, <2>3, <2>4 DEF ZeroConfig, WipeAround, N_DISPLAY
<1>25. CASE UNCHANGED vars
  BY <1>25 DEF vars
<1>. QED
  BY <1>1, <1>2, <1>3, <1>4, <1>5, <1>6, <1>7, <1>8, <1>9, <1>10, <1>11, <1>12,
     <1>13, <1>14, <1>15, <1>16, <1>17, <1>18, <1>19, <1>20, <1>21, <1>22, <1>23,
     <1>24, <1>25 DEF Next, Setup, Tick, Io, Show, World

(* The invariants of the runs hold for every instance. *)
THEOREM Invariance == Spec => []Inv
<1>1. Init => Inv
  BY InvInit
<1>2. Inv /\ [Next]_vars => Inv'
  BY InvStep
<1>. QED
  BY <1>1, <1>2, PTL DEF Spec

(* Types, and with them the uint8_t fields of the settings. *)
THEOREM TypeCorrect == Spec => []TypeOK
BY Invariance, PTL DEF Inv

(* NTPClient, FastLED and CurrentDisplay_p follow the settings. *)
THEOREM OutputsCorrect == Spec => []OutputsFollow
BY Invariance, PTL DEF Inv

(* Outside a handler EEPROM holds the settings in force. *)
THEOREM SettingsDurable == Spec => []SettingsSaved
BY Invariance, PTL DEF Inv

(* Inside one it holds them less at most the change being made. *)
THEOREM OneChange == Spec => []OneChangePending
BY Invariance, PTL DEF Inv

(* The words lit are those of last_time_inc, whatever clock() blocks in. *)
THEOREM PanelCorrect == Spec => []PanelIsLast
BY Invariance, PTL DEF Inv

(* A pass of clock() ends with the words of the time it read. *)
THEOREM PassCorrect == Spec => []FrameShowsReading
BY Invariance, PTL DEF Inv

-----------------------------------------------------------------------------
(* Klok implements SettingsStore. *)

LEMMA StoreInit == Init => Store!Init
BY DEF Init, PowerUpState, Store!Init, Phase, BeforeLoad, Config, Erased

LEMMA StoreStep == Inv /\ Inv' /\ [Next]_vars => [Store!Next]_Store!vars
<1>. SUFFICES ASSUME Inv, Inv', [Next]_vars
              PROVE  [Store!Next]_Store!vars
  OBVIOUS
<1>. USE DEF Store!vars, Phase, BeforeLoad, outputs, clockvars, world, env, program
<1>1. CASE SetupLoad
  BY <1>1 DEF SetupLoad, Store!Next, Store!Restore
<1>2. CASE HandleTimezone \/ HandleBrightness \/ HandleDisplayIdx
  <2>1. UNCHANGED flash /\ pc \in {"io", "io_more"}
    BY <1>2 DEF HandleTimezone, HandleBrightness, HandleDisplayIdx, Receive
  <2>2. CASE pc' = "io_more"
    <3>1. UNCHANGED configuration
      BY <1>2, <2>2 DEF HandleTimezone, HandleBrightness, HandleDisplayIdx, Ignore
    <3>. QED
      BY <2>1, <2>2, <3>1
  <2>3. CASE pc' \in {"erase", "new_display"}
    <3>1. configuration' \in Config
      BY DEF Inv, TypeOK
    <3>2. flash = configuration
      BY <2>1 DEF Inv, SettingsSaved
    <3>3. Store!OneFieldDiffers(configuration, configuration')
      BY <2>1, <2>3, <3>2 DEF Inv, OneChangePending, Store!OneFieldDiffers
    <3>. QED
      BY <2>1, <2>3, <3>1, <3>3 DEF Store!Next, Store!Change
  <2>. QED
    BY <1>2, <2>2, <2>3
    DEF HandleTimezone, HandleBrightness, HandleDisplayIdx, Ignore
<1>3. CASE CommitErase
  BY <1>3 DEF CommitErase, Store!Next, Store!BeginSave
<1>4. CASE CommitProgram
  BY <1>4 DEF CommitProgram, Store!Next, Store!EndSave
<1>5. CASE PowerFail
  BY <1>5 DEF PowerFail, PowerUpState, Store!Next, Store!PowerLoss
<1>6. CASE NewDisplay
  BY <1>6 DEF NewDisplay
<1>7. CASE Connect \/ SetupConnected \/ SetupApply
  BY <1>7 DEF Connect, SetupConnected, SetupApply
<1>8. CASE Tick \/ RunSkip \/ RunConnected \/ IoDone
  BY <1>8 DEF Tick, TickSynced, TickNoReply, TickNotDue, RunSkip, RunConnected, IoDone
<1>9. CASE Show
  BY <1>9 DEF Show, StartTransition, EndTransition, Draw
<1>10. CASE MinutePasses \/ IoBecomesDue \/ Publish \/ LinkDrop
  BY <1>10 DEF MinutePasses, IoBecomesDue, Publish, LinkDrop
<1>11. CASE UNCHANGED vars
  BY <1>11 DEF vars
<1>. QED
  BY <1>1, <1>2, <1>3, <1>4, <1>5, <1>6, <1>7, <1>8, <1>9, <1>10, <1>11
  DEF Next, Setup, Io, World

(* Every behaviour of Klok is one of SettingsStore. *)
THEOREM Refinement == Spec => StoreSpec
<1>1. Init => Store!Init
  BY StoreInit
<1>2. Inv /\ Inv' /\ [Next]_vars => [Store!Next]_Store!vars
  BY StoreStep
<1>. QED
  BY <1>1, <1>2, Invariance, PTL DEF Spec, StoreSpec, Store!Spec

=============================================================================
