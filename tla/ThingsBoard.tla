----------------------------- MODULE ThingsBoard -----------------------------
(***************************************************************************)
(* The v3 sketch: setup(), loop(), the ThingsBoard client over PubSubClient  *)
(* and the choice of the display.  A dashboard has two switches, pin 3 and  *)
(* pin 5; together they name a display, and the display is kept in EEPROM.  *)
(*                                                                          *)
(* The program is one thread.  klok_loop() changes nothing the switches     *)
(* look at, it only takes its time: seconds, or the whole of a transition.  *)
(***************************************************************************)
EXTENDS Integers, Sequences

CONSTANTS
  Methods,   \* of the requests: "get", "set" or another
  Stored,    \* the display_idx that may be in EEPROM at first
  MaxRequests, MaxFaults, MaxFails  \* bounds of the model

N_DISPLAY == 3
Switches == {0, 2}   \* GPIO0 and GPIO2, pins 3 and 5 of the dashboard
OtherPin == 1
GpioStates == [Switches -> BOOLEAN]
AllLow == [s \in Switches |-> FALSE]
Erased == 255        \* configuration.display_idx in an erased sector
NoDisplay == 0       \* what configuration.display_idx is before it is read
TheMatrixDisplay == 2

ASSUME ThingsAssumption ==
  /\ Methods \subseteq STRING
  /\ Stored \subseteq 0..(N_DISPLAY - 1) \cup {Erased}
  /\ MaxRequests \in Nat /\ MaxFaults \in Nat /\ MaxFails \in Nat

VARIABLES
  pc,
  gpioState, my_display_idx,
  display_idx,     \* configuration.display_idx
  currentDisplay,  \* the id of *CurrentDisplay_p
  pingOutstanding,
  flash,     \* display_idx in EEPROM
  tcp, session, subscribed,  \* the connection, and the server's side of it
  outbox, inbox,  \* packets under way to the server, and received
  attributes,     \* the switches as the server has them
  up,        \* the network and the server are there
  requests, faults, fails,  \* how much of the bounds is used
  moved      \* a switch has changed since power-up

ram == <<gpioState, my_display_idx, display_idx, currentDisplay>>
link == <<tcp, session, subscribed, outbox, inbox>>
bounds == <<requests, faults, fails>>
vars == <<pc, ram, pingOutstanding, flash, link, attributes, up, bounds, moved>>

Packet(type, arg) == [type |-> type, arg |-> arg]

Init ==
  /\ pc = "setup"
  /\ gpioState = AllLow /\ my_display_idx = 0 /\ display_idx = NoDisplay
  /\ currentDisplay = TheMatrixDisplay
  /\ pingOutstanding = FALSE
  /\ flash \in Stored /\ attributes = AllLow
  /\ tcp = FALSE /\ session = "none" /\ subscribed = FALSE
  /\ outbox = <<>> /\ inbox = <<>>
  /\ up \in BOOLEAN
  /\ requests = 0 /\ faults = 0 /\ fails = 0
  /\ moved = FALSE

-----------------------------------------------------------------------------
(* setup(): klok_setup() loads the settings; new_display blocks in init.    *)

SetupLoad ==
  /\ pc = "setup"
  /\ display_idx' = flash
  /\ pc' = "init"
  /\ UNCHANGED <<gpioState, my_display_idx, currentDisplay, pingOutstanding,
                 flash, link, attributes, up, bounds, moved>>

SetupDisplay ==
  /\ pc = "init"
  /\ currentDisplay' = display_idx % N_DISPLAY
  /\ pc' = "loop"
  /\ UNCHANGED <<gpioState, my_display_idx, display_idx, pingOutstanding,
                 flash, link, attributes, up, bounds, moved>>

-----------------------------------------------------------------------------
(* thingsboard_loop(): reconnect().                                         *)

(* connected(), and the test of the while in reconnect().                   *)
Connected ==
  /\ pc = "loop" /\ tcp
  /\ pc' = "keepalive"
  /\ UNCHANGED <<ram, pingOutstanding, flash, link, attributes, up, bounds, moved>>

StartConnect ==
  /\ pc = "loop" /\ ~tcp
  /\ up
  /\ tcp' = TRUE /\ session' = "none" /\ subscribed' = FALSE
  /\ outbox' = <<Packet("CONNECT", AllLow)>> /\ inbox' = <<>>
  /\ pc' = "connack"
  /\ UNCHANGED <<ram, pingOutstanding, flash, attributes, up, bounds, moved>>

(* Nobody reads what goes into a dead connection.                           *)
Sent(packets) == IF session = "dead" THEN outbox ELSE outbox \o packets

Status == Packet("ATTRIBUTES", gpioState)

NoConnection ==
  /\ tcp' = FALSE /\ session' = "none" /\ subscribed' = FALSE
  /\ outbox' = <<>> /\ inbox' = <<>>

Accepted == inbox # <<>> /\ Head(inbox) = Packet("CONNACK", TRUE)

(* Mutant: the current GPIO status is not sent.                             *)
Connack_NoStatus ==
  /\ pc = "connack"
  /\ Accepted
  /\ inbox' = Tail(inbox)
  /\ pingOutstanding' = FALSE
  /\ outbox' = Sent(<<Packet("SUBSCRIBE", AllLow)>>)
  /\ pc' = "loop"
  /\ UNCHANGED <<ram, flash, tcp, session, subscribed, attributes, up, bounds,
                 moved>>

(* subscribe() does not wait for its SUBACK, and the results of subscribe() *)
(* and publish() are not looked at.                                         *)
Connack ==
  /\ pc = "connack"
  /\ Accepted
  /\ inbox' = Tail(inbox)
  /\ pingOutstanding' = FALSE
  /\ outbox' = Sent(<<Packet("SUBSCRIBE", AllLow), Status>>)
  /\ pc' = "loop"
  /\ UNCHANGED <<ram, flash, tcp, session, subscribed, attributes, up, bounds,
                 moved>>

ConnackRefused ==
  /\ pc = "connack"
  /\ inbox # <<>> /\ ~Accepted
  /\ NoConnection
  /\ pc' = "loop"
  /\ UNCHANGED <<ram, pingOutstanding, flash, attributes, up, bounds, moved>>

(* Mutant: the socket stays open after the timeout.                         *)
ConnackTimeout_Open ==
  /\ pc = "connack" /\ inbox = <<>>
  /\ pc' = "loop"
  /\ UNCHANGED <<ram, pingOutstanding, flash, link, attributes, up, bounds, moved>>

(* Mutant: the client waits as long as the connection lasts.                *)
ConnackTimeout_Never ==
  /\ pc = "connack" /\ inbox = <<>>
  /\ IF tcp THEN UNCHANGED <<pc, link>> ELSE NoConnection /\ pc' = "loop"
  /\ UNCHANGED <<ram, pingOutstanding, flash, attributes, up, bounds, moved>>

(* MQTT_SOCKET_TIMEOUT, also if the connection is lost meanwhile.           *)
ConnackTimeout ==
  /\ pc = "connack" /\ inbox = <<>>
  /\ NoConnection
  /\ pc' = "loop"
  /\ UNCHANGED <<ram, pingOutstanding, flash, attributes, up, bounds, moved>>

-----------------------------------------------------------------------------
(* thingsboard_loop(): client.loop().                                       *)

NotConnected ==
  /\ pc = "keepalive" /\ ~tcp
  /\ pc' = "klok"
  /\ UNCHANGED <<ram, pingOutstanding, flash, link, attributes, up, bounds, moved>>

(* MQTT_KEEPALIVE may have gone by since the last packet in, or out, or not: *)
(* klok_loop() takes milliseconds or many seconds.                          *)
NoPing ==
  /\ pc = "keepalive" /\ tcp
  /\ pc' = "read"
  /\ UNCHANGED <<ram, pingOutstanding, flash, link, attributes, up, bounds, moved>>

Ping ==
  /\ pc = "keepalive" /\ tcp /\ ~pingOutstanding
  /\ outbox' = Sent(<<Packet("PINGREQ", AllLow)>>)
  /\ pingOutstanding' = TRUE
  /\ pc' = "read"
  /\ UNCHANGED <<ram, flash, tcp, session, subscribed, inbox, attributes, up, bounds,
                 moved>>

(* Mutant: an unanswered ping is sent again.                                *)
GiveUp_PingAgain ==
  /\ pc = "keepalive" /\ tcp /\ pingOutstanding
  /\ outbox' = Sent(<<Packet("PINGREQ", AllLow)>>)
  /\ pc' = "read"
  /\ UNCHANGED <<ram, pingOutstanding, flash, tcp, session, subscribed, inbox,
                 attributes, up, bounds, moved>>

(* MQTT_CONNECTION_TIMEOUT: tested before the answer is read that may have  *)
(* come while klok_loop() was busy.                                         *)
GiveUp ==
  /\ pc = "keepalive" /\ tcp /\ pingOutstanding
  /\ NoConnection
  /\ pc' = "klok"
  /\ UNCHANGED <<ram, pingOutstanding, flash, attributes, up, bounds, moved>>

NothingToRead ==
  /\ pc = "read" /\ inbox = <<>>
  /\ pc' = "klok"
  /\ UNCHANGED <<ram, pingOutstanding, flash, link, attributes, up, bounds, moved>>

Reads(type) == pc = "read" /\ inbox # <<>> /\ Head(inbox).type = type

(* set_gpio_status(): only the two pins are known.                          *)
SetGpio(pin, enabled) ==
  gpioState' = IF pin \in Switches THEN [gpioState EXCEPT ![pin] = enabled] ELSE gpioState

(* on_message(): a reply, and after a change the attributes.                *)
Answers(method) ==
  CASE method = "get" -> <<Packet("REPLY", AllLow)>>
    [] method = "set" -> <<Packet("REPLY", AllLow), Packet("ATTRIBUTES", gpioState')>>
    [] OTHER -> <<>>

(* Mutant: client.loop() reads on while there is something to read.         *)
ReadRequest_Drain ==
  /\ Reads("REQUEST")
  /\ inbox' = Tail(inbox)
  /\ LET r == Head(inbox).arg IN
       /\ IF r.method = "set" THEN SetGpio(r.pin, r.enabled) ELSE UNCHANGED gpioState
       /\ outbox' = Sent(Answers(r.method))
  /\ moved' = (moved \/ gpioState' # gpioState)
  /\ pc' = "read"
  /\ UNCHANGED <<my_display_idx, display_idx, currentDisplay, pingOutstanding, flash,
                 tcp, session, subscribed, attributes, up, bounds>>

(* One packet is read in a call of loop(). *)
ReadRequest ==
  /\ Reads("REQUEST")
  /\ inbox' = Tail(inbox)
  /\ LET r == Head(inbox).arg IN
       /\ IF r.method = "set" THEN SetGpio(r.pin, r.enabled) ELSE UNCHANGED gpioState
       /\ outbox' = Sent(Answers(r.method))
  /\ moved' = (moved \/ gpioState' # gpioState)
  /\ pc' = "klok"
  /\ UNCHANGED <<my_display_idx, display_idx, currentDisplay, pingOutstanding, flash,
                 tcp, session, subscribed, attributes, up, bounds>>

ReadOther ==
  /\ Reads("PINGRESP") \/ Reads("SUBACK")
  /\ inbox' = Tail(inbox)
  /\ pingOutstanding' = (pingOutstanding /\ Head(inbox).type # "PINGRESP")
  /\ pc' = "klok"
  /\ UNCHANGED <<ram, flash, tcp, session, subscribed, outbox, attributes, up, bounds,
                 moved>>

-----------------------------------------------------------------------------
(* After klok_loop(): set_display() if the switches name another display.   *)

tb_get_idx == (IF gpioState[0] THEN 1 ELSE 0) + (IF gpioState[2] THEN 2 ELSE 0)

SameDisplay ==
  /\ pc = "klok"
  /\ tb_get_idx = my_display_idx
  /\ pc' = "loop"
  /\ UNCHANGED <<ram, pingOutstanding, flash, link, attributes, up, bounds, moved>>

(* Mutant: the index is not tested.                                         *)
SetDisplay_NoRange ==
  /\ pc = "klok"
  /\ tb_get_idx # my_display_idx
  /\ my_display_idx' = tb_get_idx
  /\ IF tb_get_idx # display_idx
       THEN display_idx' = tb_get_idx /\ pc' = "erase"
       ELSE pc' = "show" /\ UNCHANGED display_idx
  /\ UNCHANGED <<gpioState, currentDisplay, pingOutstanding, flash, link,
                 attributes, up, bounds, moved>>

(* Mutant: set_display does not save.                                       *)
SetDisplay_NoSave ==
  /\ pc = "klok"
  /\ tb_get_idx # my_display_idx
  /\ my_display_idx' = tb_get_idx
  /\ IF tb_get_idx >= N_DISPLAY
       THEN pc' = "loop" /\ UNCHANGED display_idx
       ELSE display_idx' = tb_get_idx /\ pc' = "show"
  /\ UNCHANGED <<gpioState, currentDisplay, pingOutstanding, flash, link,
                 attributes, up, bounds, moved>>

SetDisplay ==
  /\ pc = "klok"
  /\ tb_get_idx # my_display_idx
  /\ my_display_idx' = tb_get_idx
  /\ IF tb_get_idx >= N_DISPLAY
       THEN pc' = "loop" /\ UNCHANGED display_idx
       ELSE IF tb_get_idx # display_idx
         THEN display_idx' = tb_get_idx /\ pc' = "erase"
         ELSE pc' = "show" /\ UNCHANGED display_idx
  /\ UNCHANGED <<gpioState, currentDisplay, pingOutstanding, flash, link,
                 attributes, up, bounds, moved>>

(* saveSettings(): EEPROM.commit() erases the sector, then programs it.     *)
CommitErase ==
  /\ pc = "erase"
  /\ flash' = Erased
  /\ pc' = "program"
  /\ UNCHANGED <<ram, pingOutstanding, link, attributes, up, bounds, moved>>

CommitProgram ==
  /\ pc = "program"
  /\ flash' = display_idx
  /\ pc' = "show"
  /\ UNCHANGED <<ram, pingOutstanding, link, attributes, up, bounds, moved>>

ShowDisplay ==
  /\ pc = "show"
  /\ currentDisplay' = my_display_idx
  /\ pc' = "loop"
  /\ UNCHANGED <<gpioState, my_display_idx, display_idx, pingOutstanding, flash,
                 link, attributes, up, bounds, moved>>

-----------------------------------------------------------------------------
(* The server, the network, time and power.                                 *)

Request ==
  /\ requests < MaxRequests
  /\ session = "live" /\ subscribed
  /\ requests' = requests + 1
  /\ \E method \in Methods, pin \in Switches \cup {OtherPin}, enabled \in BOOLEAN :
       /\ method # "set" \/ pin = OtherPin => pin = OtherPin /\ ~enabled
       /\ inbox' = Append(inbox, Packet("REQUEST",
                      [method |-> method, pin |-> pin, enabled |-> enabled]))
  /\ UNCHANGED <<pc, ram, pingOutstanding, flash, tcp, session, subscribed,
                 outbox, attributes, up, faults, fails, moved>>

ServerReads(type) ==
  /\ tcp /\ session # "dead"
  /\ outbox # <<>> /\ Head(outbox).type = type
  /\ outbox' = Tail(outbox)
  /\ UNCHANGED <<pc, ram, pingOutstanding, flash, tcp, up, requests, fails,
                 moved>>

ServerAccepts ==
  /\ ServerReads("CONNECT")
  /\ session' = "live"
  /\ inbox' = Append(inbox, Packet("CONNACK", TRUE))
  /\ UNCHANGED <<subscribed, attributes, faults>>

ServerRefuses ==
  /\ ServerReads("CONNECT")
  /\ faults < MaxFaults
  /\ faults' = faults + 1
  /\ inbox' = Append(inbox, Packet("CONNACK", FALSE))
  /\ UNCHANGED <<session, subscribed, attributes>>

ServerSubscribes ==
  /\ ServerReads("SUBSCRIBE")
  /\ subscribed' = TRUE
  /\ inbox' = Append(inbox, Packet("SUBACK", AllLow))
  /\ UNCHANGED <<session, attributes, faults>>

ServerStores ==
  /\ ServerReads("ATTRIBUTES")
  /\ attributes' = Head(outbox).arg
  /\ UNCHANGED <<session, subscribed, inbox, faults>>

ServerGetsReply ==
  /\ ServerReads("REPLY")
  /\ UNCHANGED <<session, subscribed, inbox, attributes, faults>>

ServerPongs ==
  /\ ServerReads("PINGREQ")
  /\ inbox' = Append(inbox, Packet("PINGRESP", AllLow))
  /\ UNCHANGED <<session, subscribed, attributes, faults>>

LinkDrop ==
  /\ tcp /\ faults < MaxFaults
  /\ faults' = faults + 1
  /\ NoConnection
  /\ UNCHANGED <<pc, ram, pingOutstanding, flash, attributes, up, requests,
                 fails, moved>>

(* The connection is gone and the clock does not know. *)
LinkDies ==
  /\ tcp /\ faults < MaxFaults
  /\ faults' = faults + 1
  /\ session' = "dead" /\ subscribed' = FALSE /\ outbox' = <<>>
  /\ UNCHANGED <<pc, ram, pingOutstanding, flash, tcp, inbox, attributes, up,
                 requests, fails, moved>>

OutageBegins ==
  /\ up /\ faults < MaxFaults
  /\ up' = FALSE /\ faults' = faults + 1
  /\ UNCHANGED <<pc, ram, pingOutstanding, flash, link, attributes, requests,
                 fails, moved>>

OutageEnds ==
  /\ ~up
  /\ up' = TRUE
  /\ UNCHANGED <<pc, ram, pingOutstanding, flash, link, attributes, bounds, moved>>

(* RAM starts anew, EEPROM and the server keep what they have. *)
PowerFail ==
  /\ fails < MaxFails
  /\ fails' = fails + 1
  /\ pc' = "setup"
  /\ gpioState' = AllLow /\ my_display_idx' = 0 /\ display_idx' = NoDisplay
  /\ currentDisplay' = TheMatrixDisplay
  /\ pingOutstanding' = FALSE /\ moved' = FALSE
  /\ NoConnection
  /\ UNCHANGED <<flash, attributes, up, requests, faults>>

-----------------------------------------------------------------------------
Reconnect == StartConnect \/ Connack \/ ConnackRefused \/ ConnackTimeout
ClientLoop ==
  \/ NotConnected \/ NoPing \/ Ping \/ GiveUp
  \/ NothingToRead \/ ReadRequest \/ ReadOther
SwitchDisplay == SameDisplay \/ SetDisplay \/ CommitErase \/ CommitProgram \/ ShowDisplay
Sketch == SetupLoad \/ SetupDisplay \/ Connected \/ Reconnect \/ ClientLoop \/ SwitchDisplay
Server ==
  \/ ServerAccepts \/ ServerRefuses \/ ServerSubscribes \/ ServerStores
  \/ ServerGetsReply \/ ServerPongs
World ==
  \/ Request \/ LinkDrop \/ LinkDies \/ OutageBegins \/ OutageEnds \/ PowerFail

Next == Sketch \/ Server \/ World

Spec == Init /\ [][Next]_vars

(* The thread runs on and blocks nowhere for ever but in reconnect(); on a  *)
(* dead connection nothing comes in, so MQTT_KEEPALIVE goes by again and    *)
(* again; and a server that is connected to again and again answers within  *)
(* MQTT_SOCKET_TIMEOUT once in a while.  Nothing is assumed of outages.     *)
Fairness ==
  /\ WF_vars(Sketch)
  /\ SF_vars(session = "dead" /\ Ping) /\ SF_vars(session = "dead" /\ GiveUp)
  /\ SF_vars(ServerAccepts) /\ SF_vars(Connack)

FairSpec == Spec /\ Fairness

-----------------------------------------------------------------------------
(* Properties *)

Requested == [method : Methods, pin : Switches \cup {OtherPin}, enabled : BOOLEAN]

TypeOK ==
  /\ pc \in {"setup", "init", "loop", "connack", "keepalive", "read",
            "klok", "erase", "program", "show"}
  /\ gpioState \in GpioStates /\ attributes \in GpioStates
  /\ my_display_idx \in 0..3
  /\ display_idx \in 0..(N_DISPLAY - 1) \cup {Erased}
  /\ flash \in 0..(N_DISPLAY - 1) \cup {Erased}
  /\ currentDisplay \in 0..(N_DISPLAY - 1)
  /\ pingOutstanding \in BOOLEAN
  /\ session \in {"none", "live", "dead"} /\ (session # "none" => tcp)
  /\ \A k \in DOMAIN inbox : inbox[k].type = "REQUEST" => inbox[k].arg \in Requested

(* When loop() starts again after a switch has changed since power-up, the  *)
(* panel has the display the switches name, if they name one: no change is  *)
(* missed between two looks at the switches.  Before that the panel has the *)
(* stored display while the switches are both off.                          *)
PanelFollowsSwitches ==
  pc = "loop" /\ moved /\ tb_get_idx < N_DISPLAY => currentDisplay = tb_get_idx

InSession == session = "live" /\ outbox = <<>> /\ pc # "connack"

(* The server has the switches as they are once it has read what is under   *)
(* way, also after a power failure has reset them: a dashboard that asks    *)
(* for the attributes does not show what was.                               *)
DashboardAgrees == InSession => attributes = gpioState

(* Whatever became of earlier attempts to connect, a session the client     *)
(* goes on with hears the dashboard's requests.                             *)
HearsRequests == InSession => subscribed

(* The display kept in EEPROM is saved as SettingsStore promises.           *)
Phase == CASE pc = "setup" -> "off" [] pc = "erase" -> "changed"
           [] pc = "program" -> "saving" [] OTHER -> "saved"
Fields(idx) == [display_idx |-> idx]
Store == INSTANCE SettingsStore
           WITH Config <- {Fields(idx) : idx \in 0..255}, Erased <- Fields(Erased),
                NoConfig <- Fields(NoDisplay), settings <- Fields(display_idx),
                stored <- Fields(flash), phase <- Phase
StoreSpec == Store!Spec

(* A dead connection is found out by an unanswered ping.                    *)
DeadIsNoticed == session = "dead" ~> session # "dead"

(* If the outages end, the clock goes on, through refusals, late answers,   *)
(* sessions given up with their answer unread and connections that die in   *)
(* the middle of reconnect().  During an outage it stands still.            *)
ClockGoesOn == <>[]up => []<>(pc = "klok")
=============================================================================
