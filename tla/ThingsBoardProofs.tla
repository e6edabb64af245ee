-------------------------- MODULE ThingsBoardProofs --------------------------
(***************************************************************************)
(* What ThingsBoard keeps for any number of requests, faults and power      *)
(* failures.  The invariants of the runs are not inductive: between two     *)
(* looks at the switches the panel may differ from them, and a status or a  *)
(* subscription may still be under way to the server.  Inv says for each    *)
(* place in the program which of these may be the case.                     *)
(***************************************************************************)
EXTENDS ThingsBoard, TLAPS

Args == BOOLEAN \cup GpioStates \cup Requested
Kinds == {"CONNECT", "CONNACK", "SUBSCRIBE", "SUBACK", "ATTRIBUTES", "REQUEST",
          "REPLY", "PINGREQ", "PINGRESP"}
Packets == [type : Kinds, arg : Args]

StatusTyped(q) ==
  \A k \in DOMAIN q : q[k].type = "ATTRIBUTES" => q[k].arg \in GpioStates
RequestTyped(q) ==
  \A k \in DOMAIN q : q[k].type = "REQUEST" => q[k].arg \in Requested

(* TypeOK and the types of what is under way, in two parts: the program's   *)
(* state and the connection's.                                              *)
RamTypes ==
  /\ pc \in {"setup", "init", "loop", "connack", "keepalive", "read",
            "klok", "erase", "program", "show"}
  /\ gpioState \in GpioStates
  /\ my_display_idx \in 0..3
  /\ display_idx \in 0..(N_DISPLAY - 1) \cup {Erased}
  /\ flash \in 0..(N_DISPLAY - 1) \cup {Erased}
  /\ currentDisplay \in 0..(N_DISPLAY - 1)
  /\ pingOutstanding \in BOOLEAN

LinkTypes ==
  /\ session \in {"none", "live", "dead"} /\ (session # "none" => tcp)
  /\ attributes \in GpioStates
  /\ outbox \in Seq(Packets) /\ StatusTyped(outbox)
  /\ inbox \in Seq(Packets) /\ RequestTyped(inbox)

None(q, type) == \A k \in DOMAIN q : q[k].type # type

(* CONNECT is the first packet of a connection, and what the server sends   *)
(* answers it.                                                              *)
Connect == Packet("CONNECT", AllLow)
Handshake ==
  /\ pc = "connack" =>
       outbox = <<>> \/ (outbox = <<Connect>> /\ inbox = <<>> /\ session # "live")
  /\ pc # "connack" => None(outbox, "CONNECT")

(* Only klok_loop() runs between a change of the switches and the look at   *)
(* them; the panel has followed when loop() starts again.                   *)
SwitchesSeen ==
  /\ pc # "klok" => my_display_idx = tb_get_idx
  /\ ~moved => my_display_idx = 0 /\ gpioState = AllLow
  /\ pc \in {"setup", "init"} => ~moved
  /\ pc \in {"erase", "program", "show"} => my_display_idx < N_DISPLAY
  /\ /\ moved /\ my_display_idx < N_DISPLAY
     /\ pc \in {"loop", "connack", "keepalive", "read", "klok"}
     /\ my_display_idx = tb_get_idx
     => currentDisplay = my_display_idx

(* The last status sent is the status now, or it has been stored. *)
StatusArrives ==
  \/ /\ attributes = gpioState
     /\ None(outbox, "ATTRIBUTES")
  \/ \E k \in DOMAIN outbox :
       /\ outbox[k] = Status
       /\ \A j \in DOMAIN outbox : j > k => outbox[j].type # "ATTRIBUTES"

SubscribeArrives ==
  subscribed \/ \E k \in DOMAIN outbox : outbox[k].type = "SUBSCRIBE"

SessionSetUp ==
  session = "live" /\ pc # "connack" => StatusArrives /\ SubscribeArrives

Inv == RamTypes /\ LinkTypes /\ Handshake /\ SwitchesSeen /\ SessionSetUp

-----------------------------------------------------------------------------
(* Lemmas. *)

(* The two switches are told apart by the index. *)
LEMMA IdxInjective ==
  \A g, h \in GpioStates :
    (IF g[0] THEN 1 ELSE 0) + (IF g[2] THEN 2 ELSE 0)
      = (IF h[0] THEN 1 ELSE 0) + (IF h[2] THEN 2 ELSE 0) => g = h
<1>. SUFFICES ASSUME NEW g \in GpioStates, NEW h \in GpioStates,
                     (IF g[0] THEN 1 ELSE 0) + (IF g[2] THEN 2 ELSE 0)
                       = (IF h[0] THEN 1 ELSE 0) + (IF h[2] THEN 2 ELSE 0)
              PROVE  g = h
  OBVIOUS
<1>1. g[0] \in BOOLEAN /\ g[2] \in BOOLEAN /\ h[0] \in BOOLEAN /\ h[2] \in BOOLEAN
  BY DEF GpioStates, Switches
<1>2. g[0] = h[0]
  BY <1>1
<1>3. g[2] = h[2]
  BY <1>1
<1>. QED
  BY <1>2, <1>3 DEF GpioStates, Switches

(* The four states of the switches are four indices, ...                    *)
LEMMA IdxType == gpioState \in GpioStates => tb_get_idx \in 0..3
BY DEF tb_get_idx

(* ... the first if both are off.                                           *)
LEMMA IdxLow == gpioState = AllLow => tb_get_idx = 0
BY DEF tb_get_idx, AllLow, Switches

(* Packets the program makes. *)
LEMMA AllLowType == AllLow \in GpioStates
BY DEF AllLow, GpioStates

(* Packets that are built are packets.                                      *)
LEMMA PacketTypes ==
  /\ \A t \in Kinds, a \in Args : Packet(t, a) \in Packets
  /\ BOOLEAN \subseteq Args /\ GpioStates \subseteq Args /\ Requested \subseteq Args
BY DEF Args, Packet, Packets

(* Typed queues stay so when they are read from and written to.             *)
LEMMA StatusTypedTail ==
  ASSUME NEW q \in Seq(Packets), q # <<>>, StatusTyped(q)
  PROVE  StatusTyped(Tail(q))
BY DEF StatusTyped

(* A queue keeps its types when packets are added.                          *)
LEMMA StatusTypedConcat ==
  ASSUME NEW q \in Seq(Packets), NEW r \in Seq(Packets), StatusTyped(q), StatusTyped(r)
  PROVE  StatusTyped(q \o r)
<1>. SUFFICES ASSUME NEW k \in DOMAIN (q \o r), (q \o r)[k].type = "ATTRIBUTES"
              PROVE  (q \o r)[k].arg \in GpioStates
  BY DEF StatusTyped
<1>1. CASE k <= Len(q)
  BY <1>1 DEF StatusTyped
<1>2. CASE k > Len(q)
  <2>1. k - Len(q) \in DOMAIN r /\ (q \o r)[k] = r[k - Len(q)]
    BY <1>2
  <2>. QED
    BY <2>1 DEF StatusTyped
<1>. QED
  BY <1>1, <1>2

(* A queue without packets of a type stays so when its head is taken, ...   *)
LEMMA NoneTail ==
  ASSUME NEW q \in Seq(Packets), q # <<>>, NEW type, None(q, type)
  PROVE  None(Tail(q), type)
BY DEF None

(* ... and when others are added.                                           *)
LEMMA NoneConcat ==
  ASSUME NEW q \in Seq(Packets), NEW r \in Seq(Packets), NEW type,
         None(q, type), None(r, type)
  PROVE  None(q \o r, type)
<1>. SUFFICES ASSUME NEW k \in DOMAIN (q \o r)
              PROVE  (q \o r)[k].type # type
  BY DEF None
<1>1. CASE k <= Len(q)
  BY <1>1 DEF None
<1>2. CASE k > Len(q)
  <2>1. k - Len(q) \in DOMAIN r /\ (q \o r)[k] = r[k - Len(q)]
    BY <1>2
  <2>. QED
    BY <2>1 DEF None
<1>. QED
  BY <1>1, <1>2

(* What the clock sends has its types.                                      *)
LEMMA SentTypes ==
  ASSUME LinkTypes, NEW packets \in Seq(Packets), StatusTyped(packets)
  PROVE  Sent(packets) \in Seq(Packets) /\ StatusTyped(Sent(packets))
BY StatusTypedConcat DEF LinkTypes, Sent

(* Requests keep their types when the first is taken, ...                   *)
LEMMA RequestTypedTail ==
  ASSUME NEW q \in Seq(Packets), q # <<>>, RequestTyped(q)
  PROVE  RequestTyped(Tail(q))
BY DEF RequestTyped

(* ... and when one is added.                                               *)
LEMMA RequestTypedAppend ==
  ASSUME NEW q \in Seq(Packets), RequestTyped(q), NEW p \in Packets,
         p.type = "REQUEST" => p.arg \in Requested
  PROVE  RequestTyped(Append(q, p))
BY DEF RequestTyped

-----------------------------------------------------------------------------
(* Types. *)

(* The clock's state starts with its types.                                 *)
LEMMA RamInit == Init => RamTypes
<1>. SUFFICES ASSUME Init PROVE RamTypes
  OBVIOUS
<1>1. pingOutstanding \in BOOLEAN
  BY Zenon DEF Init
<1>2. flash \in 0..(N_DISPLAY - 1) \cup {Erased}
  BY ThingsAssumption DEF Init
<1>. QED
  BY <1>1, <1>2, AllLowType
  DEF Init, RamTypes, NoDisplay, TheMatrixDisplay, N_DISPLAY

(* The connection's state starts with its types.                            *)
LEMMA LinkInit == Init => LinkTypes
BY AllLowType DEF Init, LinkTypes, StatusTyped, RequestTyped

(* No action leaves the types of the clock's state.                         *)
LEMMA RamStep == RamTypes /\ LinkTypes /\ SwitchesSeen /\ [Next]_vars => RamTypes'
<1>. SUFFICES ASSUME RamTypes, LinkTypes, SwitchesSeen, [Next]_vars
              PROVE  RamTypes'
  OBVIOUS
<1>. USE DEF RamTypes, ram
<1>1. CASE SetupLoad
  BY <1>1 DEF SetupLoad
<1>2. CASE SetupDisplay
  BY <1>2 DEF SetupDisplay, N_DISPLAY, Erased
<1>3. CASE Connected \/ StartConnect \/ ConnackRefused \/ ConnackTimeout
  BY <1>3 DEF Connected, StartConnect, ConnackRefused, ConnackTimeout
<1>4. CASE Connack \/ Ping
  BY <1>4 DEF Connack, Ping
<1>5. CASE NotConnected \/ NoPing \/ GiveUp \/ NothingToRead
  BY <1>5 DEF NotConnected, NoPing, GiveUp, NothingToRead
<1>6. CASE ReadRequest
  <2>1. Head(inbox).arg \in Requested
    BY <1>6 DEF ReadRequest, Reads, LinkTypes, RequestTyped
  <2>2. gpioState' \in GpioStates
    BY <1>6, <2>1 DEF ReadRequest, SetGpio, Requested, GpioStates
  <2>. QED
    BY <1>6, <2>2 DEF ReadRequest
<1>7. CASE ReadOther
  <2>1. pingOutstanding' \in BOOLEAN
    BY <1>7, Zenon DEF ReadOther
  <2>. QED
    BY <1>7, <2>1 DEF ReadOther
<1>8. CASE SameDisplay
  BY <1>8 DEF SameDisplay
<1>9. CASE SetDisplay
  BY <1>9, IdxType DEF SetDisplay, N_DISPLAY
<1>10. CASE CommitErase \/ CommitProgram
  BY <1>10 DEF CommitErase, CommitProgram
<1>11. CASE ShowDisplay
  BY <1>11 DEF ShowDisplay, SwitchesSeen, N_DISPLAY
<1>12. CASE Server
  BY <1>12 DEF Server, ServerReads, ServerAccepts, ServerRefuses, ServerSubscribes,
               ServerStores, ServerGetsReply, ServerPongs
<1>13. CASE Request \/ LinkDrop \/ LinkDies \/ OutageBegins \/ OutageEnds
  BY <1>13 DEF Request, LinkDrop, LinkDies, OutageBegins, OutageEnds
<1>14. CASE PowerFail
  <2>1. pingOutstanding' \in BOOLEAN
    BY <1>14, Zenon DEF PowerFail
  <2>. QED
    BY <1>14, <2>1, AllLowType DEF PowerFail, NoDisplay, TheMatrixDisplay, N_DISPLAY
<1>15. CASE UNCHANGED vars
  BY <1>15 DEF vars
<1>. QED
  BY <1>1, <1>2, <1>3, <1>4, <1>5, <1>6, <1>7, <1>8, <1>9, <1>10, <1>11, <1>12,
     <1>13, <1>14, <1>15
  DEF Next, Sketch, Reconnect, ClientLoop, SwitchDisplay, World

(* What on_message() sends. *)
LEMMA AnswersTypes ==
  ASSUME RamTypes'
  PROVE  \A m : Answers(m) \in Seq(Packets) /\ StatusTyped(Answers(m))
<1>1. Packet("REPLY", AllLow) \in Packets /\ Packet("ATTRIBUTES", gpioState') \in Packets
  BY PacketTypes, AllLowType DEF RamTypes, Kinds
<1>. QED
  BY <1>1 DEF Answers, StatusTyped, Packet, RamTypes

(* No action leaves the types of what is under way.                         *)
LEMMA LinkStep == RamTypes /\ LinkTypes /\ RamTypes' /\ [Next]_vars => LinkTypes'
<1>. SUFFICES ASSUME RamTypes, LinkTypes, RamTypes', [Next]_vars
              PROVE  LinkTypes'
  OBVIOUS
<1>p. /\ \A t \in Kinds, a \in Args : Packet(t, a) \in Packets
      /\ AllLow \in Args /\ TRUE \in Args /\ FALSE \in Args
      /\ gpioState \in Args /\ gpioState' \in Args /\ Requested \subseteq Args
  BY PacketTypes, AllLowType DEF RamTypes
<1>u. ASSUME UNCHANGED <<link, attributes>> PROVE LinkTypes'
  BY <1>u DEF link, LinkTypes, StatusTyped, RequestTyped
<1>n. ASSUME NoConnection, UNCHANGED attributes PROVE LinkTypes'
  BY <1>n DEF NoConnection, LinkTypes, StatusTyped, RequestTyped
<1>i. ASSUME inbox # <<>>, inbox' = Tail(inbox)
      PROVE  inbox' \in Seq(Packets) /\ RequestTyped(inbox')
  BY <1>i, RequestTypedTail DEF LinkTypes
<1>s. ASSUME NEW t \in Kinds, NEW arg \in Args, t # "REQUEST",
             inbox' = Append(inbox, Packet(t, arg))
      PROVE  inbox' \in Seq(Packets) /\ RequestTyped(inbox')
  <2>1. Packet(t, arg) \in Packets
    BY <1>s, <1>p
  <2>2. Packet(t, arg).type # "REQUEST"
    BY <1>s DEF Packet
  <2>. QED
    BY <1>s, <2>1, <2>2, RequestTypedAppend DEF LinkTypes
<1>o. ASSUME NEW packets \in Seq(Packets), StatusTyped(packets), outbox' = Sent(packets)
      PROVE  outbox' \in Seq(Packets) /\ StatusTyped(outbox')
  BY <1>o, SentTypes
<1>1. CASE SetupLoad \/ SetupDisplay \/ Connected \/ NotConnected \/ NoPing \/ NothingToRead
  BY <1>1, <1>u
  DEF SetupLoad, SetupDisplay, Connected, NotConnected, NoPing, NothingToRead
<1>2. CASE SwitchDisplay \/ OutageBegins \/ OutageEnds \/ UNCHANGED vars
  BY <1>2, <1>u
  DEF SwitchDisplay, SameDisplay, SetDisplay, CommitErase, CommitProgram, ShowDisplay,
      OutageBegins, OutageEnds, vars
<1>3. CASE ConnackRefused \/ ConnackTimeout \/ GiveUp \/ LinkDrop \/ PowerFail
  BY <1>3, <1>n DEF ConnackRefused, ConnackTimeout, GiveUp, LinkDrop, PowerFail
<1>4. CASE StartConnect
  <2>1. outbox' \in Seq(Packets) /\ StatusTyped(outbox')
    BY <1>4, <1>p DEF StartConnect, StatusTyped, Packet, Kinds
  <2>. QED
    BY <1>4, <2>1 DEF StartConnect, LinkTypes, RequestTyped
<1>5. CASE Connack
  <2>1. Packet("SUBSCRIBE", AllLow) \in Packets /\ Status \in Packets
    BY <1>p DEF Status, Kinds
  <2>2. StatusTyped(<<Packet("SUBSCRIBE", AllLow), Status>>)
    BY DEF StatusTyped, Status, Packet, RamTypes
  <2>3. <<Packet("SUBSCRIBE", AllLow), Status>> \in Seq(Packets)
    BY <2>1
  <2>4. outbox' \in Seq(Packets) /\ StatusTyped(outbox')
    BY <1>5, <1>o, <2>2, <2>3 DEF Connack
  <2>. QED
    BY <1>5, <1>i, <2>4 DEF Connack, Accepted, LinkTypes
<1>6. CASE Ping
  <2>1. <<Packet("PINGREQ", AllLow)>> \in Seq(Packets)
    BY <1>p DEF Kinds
  <2>2. StatusTyped(<<Packet("PINGREQ", AllLow)>>)
    BY DEF StatusTyped, Packet
  <2>3. outbox' \in Seq(Packets) /\ StatusTyped(outbox')
    BY <1>6, <1>o, <2>1, <2>2 DEF Ping
  <2>. QED
    BY <1>6, <2>3 DEF Ping, LinkTypes
<1>7. CASE ReadRequest
  <2>3. outbox' \in Seq(Packets) /\ StatusTyped(outbox')
    BY <1>7, <1>o, AnswersTypes DEF ReadRequest
  <2>. QED
    BY <1>7, <1>i, <2>3 DEF ReadRequest, Reads, LinkTypes
<1>8. CASE ReadOther
  BY <1>8, <1>i DEF ReadOther, Reads, LinkTypes
<1>9. CASE Server
  <2>1. outbox # <<>> /\ outbox' = Tail(outbox) /\ tcp /\ UNCHANGED tcp
    BY <1>9 DEF Server, ServerReads, ServerAccepts, ServerRefuses, ServerSubscribes,
                ServerStores, ServerGetsReply, ServerPongs
  <2>2. outbox' \in Seq(Packets) /\ StatusTyped(outbox')
    BY <2>1, StatusTypedTail DEF LinkTypes
  <2>3. CASE ServerAccepts \/ ServerRefuses \/ ServerSubscribes \/ ServerPongs
    <3>1. \E t \in {"CONNACK", "SUBACK", "PINGRESP"}, arg \in {TRUE, FALSE, AllLow} :
            inbox' = Append(inbox, Packet(t, arg))
      BY <2>3, Zenon DEF ServerAccepts, ServerRefuses, ServerSubscribes, ServerPongs
    <3>2. inbox' \in Seq(Packets) /\ RequestTyped(inbox')
      BY <3>1, <1>s, <1>p DEF Kinds
    <3>3. session' \in {session, "live"} /\ UNCHANGED attributes
      BY <2>3 DEF ServerAccepts, ServerRefuses, ServerSubscribes, ServerPongs
    <3>. QED
      BY <2>1, <2>2, <3>2, <3>3 DEF LinkTypes
  <2>4. CASE ServerStores
    BY <2>1, <2>2, <2>4 DEF ServerStores, ServerReads, LinkTypes, StatusTyped, RequestTyped
  <2>5. CASE ServerGetsReply
    BY <2>1, <2>2, <2>5 DEF ServerGetsReply, LinkTypes, RequestTyped
  <2>. QED
    BY <1>9, <2>3, <2>4, <2>5 DEF Server
<1>10. CASE Request
  <2>1. PICK method \in Methods, pin \in Switches \cup {OtherPin}, enabled \in BOOLEAN :
          inbox' = Append(inbox, Packet("REQUEST",
                     [method |-> method, pin |-> pin, enabled |-> enabled]))
    BY <1>10 DEF Request
  <2>. DEFINE r == [method |-> method, pin |-> pin, enabled |-> enabled]
  <2>2. r \in Requested
    BY DEF Requested
  <2>3. Packet("REQUEST", r) \in Packets /\ Packet("REQUEST", r).arg \in Requested
    BY <2>2, <1>p DEF Packet, Kinds
  <2>4. inbox' \in Seq(Packets) /\ RequestTyped(inbox')
    BY <2>1, <2>3, RequestTypedAppend DEF LinkTypes
  <2>. QED
    BY <1>10, <2>4 DEF Request, LinkTypes
<1>11. CASE LinkDies
  BY <1>11 DEF LinkDies, LinkTypes, StatusTyped, RequestTyped
<1>. QED
  BY <1>1, <1>2, <1>3, <1>4, <1>5, <1>6, <1>7, <1>8, <1>9, <1>10, <1>11
  DEF Next, Sketch, Reconnect, ClientLoop, World

-----------------------------------------------------------------------------
(* CONNECT comes first. *)

(* The handshake has one packet under way at a time.                        *)
LEMMA HandshakeStep ==
  RamTypes' /\ LinkTypes /\ Handshake /\ [Next]_vars => Handshake'
<1>. SUFFICES ASSUME RamTypes', LinkTypes, Handshake, [Next]_vars
              PROVE  Handshake'
  OBVIOUS
<1>. USE DEF Handshake
<1>n. ASSUME NoConnection PROVE Handshake'
  BY <1>n DEF NoConnection, None
<1>u. ASSUME UNCHANGED outbox, pc # "connack", pc' # "connack" PROVE Handshake'
  BY <1>u DEF None
<1>o. ASSUME NEW q \in Seq(Packets), None(q, "CONNECT"),
             pc # "connack", outbox' = Sent(q), pc' # "connack"
      PROVE  Handshake'
  <2>1. None(outbox, "CONNECT") /\ outbox \in Seq(Packets)
    BY <1>o DEF LinkTypes
  <2>2. None(Sent(q), "CONNECT")
    BY <1>o, <2>1, NoneConcat DEF Sent
  <2>. QED
    BY <1>o, <2>2 DEF None
<1>1. CASE SetupLoad \/ SetupDisplay \/ Connected \/ NotConnected \/ NoPing \/ NothingToRead
  BY <1>1, <1>u
  DEF SetupLoad, SetupDisplay, Connected, NotConnected, NoPing, NothingToRead, link
<1>2. CASE SwitchDisplay
  BY <1>2, <1>u
  DEF SwitchDisplay, SameDisplay, SetDisplay, CommitErase, CommitProgram, ShowDisplay, link
<1>3. CASE ConnackRefused \/ ConnackTimeout \/ GiveUp \/ LinkDrop \/ PowerFail
  BY <1>3, <1>n DEF ConnackRefused, ConnackTimeout, GiveUp, LinkDrop, PowerFail
<1>4. CASE StartConnect
  BY <1>4 DEF StartConnect, Connect
<1>5. CASE Connack
  <2>. DEFINE q == <<Packet("SUBSCRIBE", AllLow), Status>>
  <2>1. outbox = <<>>
    BY <1>5 DEF Connack, Accepted
  <2>2. outbox' \in {outbox, outbox \o q} /\ pc' = "loop"
    BY <1>5 DEF Connack, Sent
  <2>3. outbox' \in {<<>>, q}
    BY <2>1, <2>2
  <2>4. None(outbox', "CONNECT")
    BY <2>3 DEF Status, Packet, None
  <2>. QED
    BY <2>2, <2>4 DEF None
<1>6. CASE Ping
  <2>. DEFINE q == <<Packet("PINGREQ", AllLow)>>
  <2>1. q \in Seq(Packets) /\ None(q, "CONNECT")
    BY PacketTypes, AllLowType DEF Packet, Kinds, None
  <2>. QED
    BY <1>6, <1>o, <2>1 DEF Ping
<1>7. CASE ReadRequest
  <2>. DEFINE q == Answers(Head(inbox).arg.method)
  <2>1. q \in Seq(Packets) /\ None(q, "CONNECT")
    BY AnswersTypes DEF Answers, Packet, None
  <2>. QED
    BY <1>7, <1>o, <2>1 DEF ReadRequest, Reads
<1>8. CASE ReadOther
  BY <1>8, <1>u DEF ReadOther, Reads
<1>9. CASE Server
  <2>1. outbox # <<>> /\ outbox' = Tail(outbox) /\ UNCHANGED pc
    BY <1>9 DEF Server, ServerReads, ServerAccepts, ServerRefuses, ServerSubscribes,
                ServerStores, ServerGetsReply, ServerPongs
  <2>2. CASE pc = "connack"
    BY <2>1, <2>2
  <2>3. CASE pc # "connack"
    BY <2>1, <2>3, NoneTail DEF LinkTypes
  <2>. QED
    BY <2>2, <2>3
<1>10. CASE Request
  BY <1>10 DEF Request
<1>11. CASE LinkDies
  BY <1>11 DEF LinkDies, None
<1>12. CASE OutageBegins \/ OutageEnds \/ UNCHANGED vars
  BY <1>12 DEF OutageBegins, OutageEnds, vars, link
<1>. QED
  BY <1>1, <1>2, <1>3, <1>4, <1>5, <1>6, <1>7, <1>8, <1>9, <1>10, <1>11, <1>12
  DEF Next, Sketch, Reconnect, ClientLoop, World

-----------------------------------------------------------------------------
(* The panel follows the switches. *)

(* A clock that starts has looked at no switch.                             *)
LEMMA SwitchesInit == Init => SwitchesSeen
BY IdxLow DEF Init, SwitchesSeen

(* The display last set is the one of the switches last seen.               *)
LEMMA SwitchesStep ==
  RamTypes /\ RamTypes' /\ SwitchesSeen /\ [Next]_vars => SwitchesSeen'
<1>. SUFFICES ASSUME RamTypes, RamTypes', SwitchesSeen, [Next]_vars
              PROVE  SwitchesSeen'
  OBVIOUS
<1>i. gpioState' = gpioState => tb_get_idx' = tb_get_idx
  BY DEF tb_get_idx
<1>t. tb_get_idx \in 0..3 /\ my_display_idx \in 0..3
  BY IdxType DEF RamTypes
<1>u. ASSUME UNCHANGED <<ram, moved, pc>> PROVE SwitchesSeen'
  BY <1>u, <1>i DEF SwitchesSeen, ram
<1>. USE <1>i, <1>t DEF SwitchesSeen, ram
<1>1. CASE SetupLoad \/ SetupDisplay
  BY <1>1, IdxLow DEF SetupLoad, SetupDisplay
<1>2. CASE Connected \/ StartConnect \/ Connack \/ ConnackRefused \/ ConnackTimeout
  BY <1>2 DEF Connected, StartConnect, Connack, ConnackRefused, ConnackTimeout
<1>3. CASE NotConnected \/ NoPing \/ Ping \/ GiveUp \/ NothingToRead \/ ReadOther
  BY <1>3 DEF NotConnected, NoPing, Ping, GiveUp, NothingToRead, ReadOther, Reads
<1>4. CASE ReadRequest
  <2>1. /\ moved' = (moved \/ gpioState' # gpioState) /\ pc = "read" /\ pc' = "klok"
        /\ UNCHANGED <<my_display_idx, currentDisplay>>
    BY <1>4 DEF ReadRequest, Reads
  <2>2. tb_get_idx' = tb_get_idx => gpioState' = gpioState
    BY IdxInjective DEF tb_get_idx, RamTypes
  <2>. QED
    BY <2>1, <2>2
<1>5. CASE SameDisplay
  BY <1>5 DEF SameDisplay
<1>6. CASE SetDisplay
  <2>1. moved /\ UNCHANGED <<gpioState, moved>> /\ my_display_idx' = tb_get_idx
    BY <1>6, IdxLow DEF SetDisplay
  <2>2. CASE tb_get_idx < N_DISPLAY
    <3>1. pc' \in {"erase", "show"}
      BY <1>6, <2>2 DEF SetDisplay, N_DISPLAY
    <3>. QED
      BY <2>1, <2>2, <3>1
  <2>3. CASE ~(tb_get_idx < N_DISPLAY)
    <3>1. pc' = "loop"
      BY <1>6, <2>3 DEF SetDisplay, N_DISPLAY
    <3>. QED
      BY <2>1, <2>3, <3>1
  <2>. QED
    BY <2>2, <2>3
<1>7. CASE CommitErase \/ CommitProgram
  BY <1>7 DEF CommitErase, CommitProgram
<1>8. CASE ShowDisplay
  BY <1>8 DEF ShowDisplay
<1>9. CASE Server
  <2>1. UNCHANGED <<ram, moved, pc>>
    BY <1>9 DEF Server, ServerReads, ServerAccepts, ServerRefuses, ServerSubscribes,
                ServerStores, ServerGetsReply, ServerPongs
  <2>. QED
    BY <1>u, <2>1
<1>10. CASE Request \/ LinkDrop \/ LinkDies \/ OutageBegins \/ OutageEnds
  <2>1. UNCHANGED <<ram, moved, pc>>
    BY <1>10 DEF Request, LinkDrop, LinkDies, OutageBegins, OutageEnds
  <2>. QED
    BY <1>u, <2>1
<1>11. CASE PowerFail
  <2>1. tb_get_idx' = 0
    BY <1>11 DEF PowerFail, tb_get_idx, AllLow, Switches
  <2>. QED
    BY <1>11, <2>1 DEF PowerFail
<1>12. CASE UNCHANGED vars
  BY <1>12 DEF vars
<1>. QED
  BY <1>1, <1>2, <1>3, <1>4, <1>5, <1>6, <1>7, <1>8, <1>9, <1>10, <1>11, <1>12
  DEF Next, Sketch, Reconnect, ClientLoop, SwitchDisplay, World

-----------------------------------------------------------------------------
(* The server hears of the switches and is subscribed to. *)

(* Packets other than a status leave the last status the last.              *)
LEMMA StatusKept ==
  ASSUME LinkTypes, StatusArrives, NEW r \in Seq(Packets), None(r, "ATTRIBUTES"),
         outbox' = outbox \o r, UNCHANGED <<gpioState, attributes>>
  PROVE  StatusArrives'
<1>. outbox \in Seq(Packets)
  BY DEF LinkTypes
<1>1. CASE attributes = gpioState /\ None(outbox, "ATTRIBUTES")
  BY <1>1, NoneConcat DEF StatusArrives
<1>2. CASE \E k \in DOMAIN outbox :
             /\ outbox[k] = Status
             /\ \A j \in DOMAIN outbox : j > k => outbox[j].type # "ATTRIBUTES"
  <2>1. PICK k \in DOMAIN outbox :
          /\ outbox[k] = Status
          /\ \A j \in DOMAIN outbox : j > k => outbox[j].type # "ATTRIBUTES"
    BY <1>2
  <2>2. k \in DOMAIN outbox' /\ outbox'[k] = Status'
    BY <2>1 DEF Status
  <2>3. ASSUME NEW j \in DOMAIN outbox', j > k
        PROVE  outbox'[j].type # "ATTRIBUTES"
    <3>1. CASE j <= Len(outbox)
      BY <2>1, <2>3, <3>1
    <3>2. CASE j > Len(outbox)
      <4>1. j - Len(outbox) \in DOMAIN r /\ outbox'[j] = r[j - Len(outbox)]
        BY <3>2
      <4>. QED
        BY <4>1 DEF None
    <3>. QED
      BY <3>1, <3>2
  <2>. QED
    BY <2>2, <2>3 DEF StatusArrives
<1>. QED
  BY <1>1, <1>2 DEF StatusArrives

(* A status sent last arrives last. *)
LEMMA StatusLast ==
  ASSUME LinkTypes, NEW r \in Seq(Packets), r # <<>>, r[Len(r)] = Status',
         outbox' = outbox \o r
  PROVE  StatusArrives'
<1>. outbox \in Seq(Packets)
  BY DEF LinkTypes
<1>. DEFINE k == Len(outbox) + Len(r)
<1>1. k \in DOMAIN outbox' /\ outbox'[k] = Status'
  OBVIOUS
<1>2. \A j \in DOMAIN outbox' : ~(j > k)
  OBVIOUS
<1>. QED
  BY <1>1, <1>2 DEF StatusArrives

(* A SUBSCRIBE under way stays there until the broker reads it.             *)
LEMMA SubscribeKept ==
  ASSUME LinkTypes, SubscribeArrives, NEW r \in Seq(Packets),
         outbox' = outbox \o r, UNCHANGED subscribed
  PROVE  SubscribeArrives'
<1>. outbox \in Seq(Packets)
  BY DEF LinkTypes
<1>1. ASSUME NEW k \in DOMAIN outbox
      PROVE  k \in DOMAIN outbox' /\ outbox'[k] = outbox[k]
  OBVIOUS
<1>. QED
  BY <1>1 DEF SubscribeArrives

(* At first there is no session.                                            *)
LEMMA SessionInit == Init => SessionSetUp
BY DEF Init, SessionSetUp

(* What the dashboard was told last is what the switches are.               *)
LEMMA SessionStep ==
  RamTypes /\ RamTypes' /\ LinkTypes /\ Handshake /\ SessionSetUp /\ [Next]_vars
    => SessionSetUp'
<1>. SUFFICES ASSUME RamTypes, RamTypes', LinkTypes, Handshake, SessionSetUp, [Next]_vars
              PROVE  SessionSetUp'
  OBVIOUS
<1>t. outbox \in Seq(Packets)
  BY DEF LinkTypes
<1>n. ASSUME NoConnection PROVE SessionSetUp'
  BY <1>n DEF NoConnection, SessionSetUp
<1>u. ASSUME UNCHANGED <<session, subscribed, outbox, attributes, gpioState>>,
             pc = "connack" => pc' = "connack"
      PROVE  SessionSetUp'
  BY <1>u DEF SessionSetUp, StatusArrives, SubscribeArrives, Status, None
<1>1. CASE SetupLoad \/ SetupDisplay \/ Connected \/ NotConnected \/ NoPing
           \/ NothingToRead \/ ReadOther
  BY <1>1, <1>u
  DEF SetupLoad, SetupDisplay, Connected, NotConnected, NoPing, NothingToRead,
      ReadOther, Reads, link, ram
<1>2. CASE SwitchDisplay
  BY <1>2, <1>u
  DEF SwitchDisplay, SameDisplay, SetDisplay, CommitErase, CommitProgram, ShowDisplay,
      link, ram
<1>3. CASE ConnackRefused \/ ConnackTimeout \/ GiveUp \/ LinkDrop \/ PowerFail
  BY <1>3, <1>n DEF ConnackRefused, ConnackTimeout, GiveUp, LinkDrop, PowerFail
<1>4. CASE StartConnect \/ LinkDies
  BY <1>4 DEF StartConnect, LinkDies, SessionSetUp
<1>5. CASE Connack
  <2>. SUFFICES ASSUME session = "live"
                PROVE  StatusArrives' /\ SubscribeArrives'
    BY <1>5 DEF Connack, SessionSetUp
  <2>. DEFINE r == <<Packet("SUBSCRIBE", AllLow), Status>>
  <2>1. outbox' = outbox \o r
    BY <1>5 DEF Connack, Sent
  <2>2. r \in Seq(Packets)
    BY PacketTypes, AllLowType DEF Kinds, Status, RamTypes
  <2>3. Status' = Status
    BY <1>5 DEF Connack, ram, Status
  <2>4. StatusArrives'
    BY <2>1, <2>2, <2>3, StatusLast
  <2>5. Len(outbox) + 1 \in DOMAIN outbox' /\ outbox'[Len(outbox) + 1].type = "SUBSCRIBE"
    BY <1>t, <2>1 DEF Packet
  <2>. QED
    BY <2>4, <2>5 DEF SubscribeArrives
<1>6. CASE Ping
  <2>. SUFFICES ASSUME session = "live"
                PROVE  StatusArrives' /\ SubscribeArrives'
    BY <1>6 DEF Ping, SessionSetUp
  <2>. DEFINE r == <<Packet("PINGREQ", AllLow)>>
  <2>1. outbox' = outbox \o r /\ UNCHANGED <<gpioState, attributes, subscribed>>
    BY <1>6 DEF Ping, Sent, ram
  <2>2. r \in Seq(Packets) /\ None(r, "ATTRIBUTES")
    BY PacketTypes, AllLowType DEF Kinds, Packet, None
  <2>3. StatusArrives /\ SubscribeArrives
    BY <1>6 DEF Ping, SessionSetUp
  <2>. QED
    BY <2>1, <2>2, <2>3, StatusKept, SubscribeKept
<1>7. CASE ReadRequest
  <2>. SUFFICES ASSUME session = "live"
                PROVE  StatusArrives' /\ SubscribeArrives'
    BY <1>7 DEF ReadRequest, SessionSetUp
  <2>. DEFINE m == Head(inbox).arg.method
              r == Answers(m)
  <2>1. outbox' = outbox \o r /\ UNCHANGED <<attributes, subscribed>>
    BY <1>7 DEF ReadRequest, Sent
  <2>2. r \in Seq(Packets)
    BY AnswersTypes
  <2>3. StatusArrives /\ SubscribeArrives
    BY <1>7 DEF ReadRequest, Reads, SessionSetUp
  <2>4. SubscribeArrives'
    BY <2>1, <2>2, <2>3, SubscribeKept
  <2>5. CASE m = "set"
    <3>1. r # <<>> /\ r[Len(r)] = Status'
      BY <2>5 DEF Answers, Status
    <3>. QED
      BY <2>1, <2>2, <2>4, <3>1, StatusLast
  <2>6. CASE m # "set"
    <3>1. UNCHANGED gpioState
      BY <1>7, <2>6 DEF ReadRequest
    <3>2. None(r, "ATTRIBUTES")
      BY <2>6 DEF Answers, Packet, None
    <3>. QED
      BY <2>1, <2>2, <2>3, <2>4, <3>1, <3>2, StatusKept
  <2>. QED
    BY <2>5, <2>6
<1>8. CASE Server
  <2>1. /\ outbox # <<>> /\ outbox' = Tail(outbox) /\ UNCHANGED <<pc, gpioState>>
    BY <1>8 DEF Server, ServerReads, ServerAccepts, ServerRefuses, ServerSubscribes,
                ServerStores, ServerGetsReply, ServerPongs, ram
  <2>2. Head(outbox) = outbox[1] /\ 1 \in DOMAIN outbox
    BY <1>t, <2>1
  <2>3. CASE Head(outbox).type = "CONNECT"
    BY <2>1, <2>2, <2>3 DEF Handshake, None, SessionSetUp
  <2>4. CASE Head(outbox).type # "CONNECT"
    <3>1. UNCHANGED session
      BY <1>8, <2>4 DEF Server, ServerReads, ServerAccepts, ServerRefuses,
                ServerSubscribes, ServerStores, ServerGetsReply, ServerPongs
    <3>. SUFFICES ASSUME session = "live", pc # "connack"
                  PROVE  StatusArrives' /\ SubscribeArrives'
      BY <2>1, <3>1 DEF SessionSetUp
    <3>2. StatusArrives /\ SubscribeArrives
      BY DEF SessionSetUp
    <3>3. ASSUME NEW k \in DOMAIN outbox, k # 1
          PROVE  k - 1 \in DOMAIN outbox' /\ outbox'[k - 1] = outbox[k]
      BY <1>t, <2>1, <3>3
    <3>4. ASSUME NEW j \in DOMAIN outbox'
          PROVE  j + 1 \in DOMAIN outbox /\ outbox[j + 1] = outbox'[j]
      BY <1>t, <2>1, <3>4
    <3>5. SubscribeArrives'
      <4>1. CASE Head(outbox).type = "SUBSCRIBE"
        BY <1>8, <4>1, Zenon DEF Server, ServerReads, ServerAccepts, ServerRefuses,
           ServerSubscribes, ServerStores, ServerGetsReply, ServerPongs, SubscribeArrives
      <4>2. CASE Head(outbox).type # "SUBSCRIBE"
        <5>1. UNCHANGED subscribed
          BY <1>8, <4>2 DEF Server, ServerReads, ServerAccepts, ServerRefuses,
             ServerSubscribes, ServerStores, ServerGetsReply, ServerPongs
        <5>. QED
          BY <2>2, <3>2, <3>3, <4>2, <5>1 DEF SubscribeArrives
      <4>. QED
        BY <4>1, <4>2
    <3>6. StatusArrives'
      <4>1. CASE attributes = gpioState /\ None(outbox, "ATTRIBUTES")
        <5>1. Head(outbox).type # "ATTRIBUTES"
          BY <2>2, <4>1 DEF None
        <5>2. UNCHANGED attributes
          BY <1>8, <5>1 DEF Server, ServerReads, ServerAccepts, ServerRefuses,
             ServerSubscribes, ServerStores, ServerGetsReply, ServerPongs
        <5>. QED
          BY <1>t, <2>1, <4>1, <5>2, NoneTail DEF StatusArrives
      <4>2. CASE \E k \in DOMAIN outbox :
                   /\ outbox[k] = Status
                   /\ \A j \in DOMAIN outbox : j > k => outbox[j].type # "ATTRIBUTES"
        <5>1. PICK k \in DOMAIN outbox :
                /\ outbox[k] = Status
                /\ \A j \in DOMAIN outbox : j > k => outbox[j].type # "ATTRIBUTES"
          BY <4>2
        <5>2. CASE k = 1
          <6>1. Head(outbox).type = "ATTRIBUTES" /\ Head(outbox).arg = gpioState
            BY <2>2, <5>1, <5>2 DEF Status, Packet
          <6>2. attributes' = Head(outbox).arg
            BY <1>8, <6>1 DEF Server, ServerReads, ServerAccepts, ServerRefuses,
               ServerSubscribes, ServerStores, ServerGetsReply, ServerPongs
          <6>3. None(outbox', "ATTRIBUTES")
            BY <1>t, <2>1, <3>4, <5>1, <5>2 DEF None
          <6>. QED
            BY <2>1, <6>1, <6>2, <6>3 DEF StatusArrives
        <5>3. CASE k # 1
          <6>1. k - 1 \in DOMAIN outbox' /\ outbox'[k - 1] = Status'
            BY <2>1, <3>3, <5>1, <5>3 DEF Status
          <6>2. ASSUME NEW j \in DOMAIN outbox', j > k - 1
                PROVE  outbox'[j].type # "ATTRIBUTES"
            <7>1. j + 1 \in DOMAIN outbox /\ outbox[j + 1] = outbox'[j] /\ j + 1 > k
              BY <1>t, <2>1, <3>4, <6>2
            <7>. QED
              BY <5>1, <7>1
          <6>. QED
            BY <6>1, <6>2 DEF StatusArrives
        <5>. QED
          BY <5>2, <5>3
      <4>. QED
        BY <3>2, <4>1, <4>2 DEF StatusArrives
    <3>. QED
      BY <3>5, <3>6
  <2>. QED
    BY <2>3, <2>4
<1>9. CASE Request
  BY <1>9, <1>u DEF Request, ram
<1>10. CASE OutageBegins \/ OutageEnds \/ UNCHANGED vars
  BY <1>10, <1>u DEF OutageBegins, OutageEnds, vars, link, ram
<1>. QED
  BY <1>1, <1>2, <1>3, <1>4, <1>5, <1>6, <1>7, <1>8, <1>9, <1>10
  DEF Next, Sketch, Reconnect, ClientLoop, World

-----------------------------------------------------------------------------
(* The theorems. *)

(* The invariant holds when the clock is switched on.                       *)
THEOREM InvInit == Init => Inv
<1>1. Init => Handshake
  BY DEF Init, Handshake, None
<1>. QED
  BY <1>1, RamInit, LinkInit, SwitchesInit, SessionInit DEF Inv

(* Every step keeps the invariant. *)
THEOREM InvStep == Inv /\ [Next]_vars => Inv'
<1>. SUFFICES ASSUME Inv, [Next]_vars
              PROVE  Inv'
  OBVIOUS
<1>1. RamTypes'
  BY RamStep DEF Inv
<1>2. LinkTypes'
  BY <1>1, LinkStep DEF Inv
<1>3. Handshake'
  BY <1>1, HandshakeStep DEF Inv
<1>4. SwitchesSeen'
  BY <1>1, SwitchesStep DEF Inv
<1>5. SessionSetUp'
  BY <1>1, SessionStep DEF Inv
<1>. QED
  BY <1>1, <1>2, <1>3, <1>4, <1>5 DEF Inv

(* Init and every action of the clock, the broker and the dashboard keep Inv. *)
THEOREM Invariance == Spec => []Inv
BY InvInit, InvStep, PTL DEF Spec

(* Types, and with them the index of the display. *)
THEOREM TypeCorrect == Spec => []TypeOK
<1>1. Inv => TypeOK
  BY DEF Inv, RamTypes, LinkTypes, RequestTyped, TypeOK
<1>. QED
  BY <1>1, Invariance, PTL

(* When loop() starts again, the panel has the display the switches name. *)
THEOREM PanelCorrect == Spec => []PanelFollowsSwitches
<1>1. Inv => PanelFollowsSwitches
  BY DEF Inv, SwitchesSeen, PanelFollowsSwitches
<1>. QED
  BY <1>1, Invariance, PTL

(* In a session the server has the switches as they are once what is under  *)
(* way to it has arrived.                                                   *)
THEOREM SessionCorrect == Spec => []DashboardAgrees
<1>1. Inv => DashboardAgrees
  BY DEF Inv, SessionSetUp, StatusArrives, DashboardAgrees, InSession
<1>. QED
  BY <1>1, Invariance, PTL

(* And the clock's subscription, so that it hears what is requested.        *)
THEOREM SessionHears == Spec => []HearsRequests
<1>1. Inv => HearsRequests
  BY DEF Inv, SessionSetUp, SubscribeArrives, HearsRequests, InSession
<1>. QED
  BY <1>1, Invariance, PTL

-----------------------------------------------------------------------------
(* ThingsBoard implements SettingsStore. *)

(* The initial states are initial states of the store.                      *)
LEMMA StoreInit == Init => Store!Init
<1>. SUFFICES ASSUME Init PROVE Store!Init
  OBVIOUS
<1>1. flash \in 0..255
  BY ThingsAssumption DEF Init, N_DISPLAY, Erased
<1>. QED
  BY <1>1 DEF Init, Store!Init, Phase

(* A step of the clock is one of the store or leaves its variables alone.   *)
LEMMA StoreStep == Inv /\ [Next]_vars => [Store!Next]_Store!vars
<1>. SUFFICES ASSUME Inv, [Next]_vars
              PROVE  [Store!Next]_Store!vars
  OBVIOUS
<1>. USE DEF Store!vars, Phase, Fields, ram
<1>1. CASE SetupLoad
  BY <1>1 DEF SetupLoad, Store!Next, Store!Restore
<1>2. CASE SetDisplay
  <2>1. CASE pc' = "erase"
    <3>1. display_idx' = tb_get_idx /\ tb_get_idx # display_idx /\ pc = "klok"
          /\ UNCHANGED flash
      BY <1>2, <2>1 DEF SetDisplay
    <3>2. display_idx' \in 0..255
      BY <3>1, IdxType DEF Inv, RamTypes
    <3>3. Store!OneFieldDiffers(Fields(display_idx), Fields(display_idx)')
      BY <3>1 DEF Store!OneFieldDiffers
    <3>. QED
      BY <2>1, <3>1, <3>2, <3>3 DEF Store!Next, Store!Change
  <2>2. CASE pc' # "erase"
    BY <1>2, <2>2 DEF SetDisplay
  <2>. QED
    BY <2>1, <2>2
<1>3. CASE CommitErase
  BY <1>3 DEF CommitErase, Store!Next, Store!BeginSave
<1>4. CASE CommitProgram
  BY <1>4 DEF CommitProgram, Store!Next, Store!EndSave
<1>5. CASE PowerFail
  BY <1>5 DEF PowerFail, Store!Next, Store!PowerLoss
<1>6. CASE SetupDisplay \/ Connected \/ StartConnect \/ Connack \/ ConnackRefused
           \/ ConnackTimeout
  BY <1>6 DEF SetupDisplay, Connected, StartConnect, Connack, ConnackRefused,
              ConnackTimeout
<1>7. CASE ClientLoop
  BY <1>7 DEF ClientLoop, NotConnected, NoPing, Ping, GiveUp, NothingToRead,
              ReadRequest, ReadOther, Reads
<1>8. CASE SameDisplay \/ ShowDisplay
  BY <1>8 DEF SameDisplay, ShowDisplay
<1>9. CASE Server
  BY <1>9 DEF Server, ServerReads, ServerAccepts, ServerRefuses, ServerSubscribes,
              ServerStores, ServerGetsReply, ServerPongs
<1>10. CASE Request \/ LinkDrop \/ LinkDies \/ OutageBegins \/ OutageEnds
  BY <1>10 DEF Request, LinkDrop, LinkDies, OutageBegins, OutageEnds
<1>11. CASE UNCHANGED vars
  BY <1>11 DEF vars
<1>. QED
  BY <1>1, <1>2, <1>3, <1>4, <1>5, <1>6, <1>7, <1>8, <1>9, <1>10, <1>11
  DEF Next, Sketch, Reconnect, SwitchDisplay, World

(* Every behaviour of the v3 sketch is one of SettingsStore. *)
THEOREM Refinement == Spec => StoreSpec
BY StoreInit, StoreStep, Invariance, PTL DEF Spec, StoreSpec, Store!Spec

=============================================================================
