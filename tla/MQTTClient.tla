----------------------------- MODULE MQTTClient -----------------------------
(***************************************************************************)
(* The clock's MQTT session: AdafruitIO::status(), run() and mqttStatus(),  *)
(* Adafruit_MQTT's connect(), processPackets() and ping(), over a TCP       *)
(* connection to the broker.                                                *)
(*                                                                          *)
(* client->connected() is all the library knows of a session: it is true    *)
(* from the TCP connection on, whatever became of CONNECT and SUBSCRIBE.    *)
(* All packets are read into one buffer.  Its first two bytes are those of  *)
(* the last packet; `body' is the publish whose topic and data are still    *)
(* behind them.  A packet arrives whole.                                    *)
(***************************************************************************)
EXTENDS Integers, Sequences

CONSTANTS
  NSubs,        \* the subscriptions, one for each feed: 3 in the sketch
  Retries,      \* how often a SUBSCRIBE is sent before connect() gives up: 3
  Refusals,     \* the CONNACK codes the broker may refuse with
  MaxMsgs, MaxPings   \* bounds of the model

ASSUME SessionAssumption ==
  /\ NSubs \in Nat \ {0} /\ Retries \in Nat \ {0}
  /\ Refusals \subseteq 1..7
  /\ MaxMsgs \in Nat /\ MaxPings \in Nat

VARIABLES
  pc,       \* where the thread waits for a packet, or "status" or "loop"
  caller,   \* who called mqttStatus: "setup" through status(), or "run"
  status,   \* AdafruitIO::_status
  sub, retry,  \* connect()'s place in its loops
  body,     \* the publish left in the buffer, 0 if none
  wifi,     \* networkStatus() = AIO_NET_CONNECTED
  tcp,      \* client->connected()
  session,  \* the broker's side: "none", "live", "refused" or "dead"
  subs,     \* what the broker has subscribed the clock to
  outbox, inbox,  \* packets under way to the broker, and received
  sent, handled,  \* the feeds of the messages; the handlers' calls
  pings,    \* how often ping() was called, up to MaxPings
  slow,     \* a wait of connect() timed out on this connection
  latePong  \* a wait for a PINGRESP timed out

client == <<pc, caller, status, sub, retry, body>>
link == <<wifi, tcp, session, subs, outbox, inbox>>
vars == <<client, link, sent, handled, pings, slow, latePong>>

Feeds == 1..NSubs
Packet(type, arg) == [type |-> type, arg |-> arg]

(* mqttStatus() and the CONNACK codes: 1, 2, 4, 5 and 7 are final, 3 and 6  *)
(* (unavailable, throttled) are waited for.                                 *)
Outcome(code) == IF code \in {3, 6} THEN "disconnected" ELSE "failed"

Init ==
  /\ pc = "status" /\ caller = "setup" /\ status = "idle"
  /\ sub = 1 /\ retry = 1 /\ body = 0
  /\ wifi \in BOOLEAN /\ tcp = FALSE /\ session = "none"
  /\ subs = {} /\ outbox = <<>> /\ inbox = <<>>
  /\ sent = <<>> /\ handled = <<>>
  /\ pings = 0 /\ slow = FALSE /\ latePong = FALSE

-----------------------------------------------------------------------------
(* mqttStatus(), called by setup() and by run().                            *)

(* Mutant: a connect() that fails for any reason is not tried again.        *)
Return_Final(result) ==
  /\ UNCHANGED <<caller, sub, retry>>
  /\ IF caller = "setup"
       THEN /\ status' = IF result = "connected" THEN result ELSE "failed"
            /\ pc' = IF result = "connected" THEN "loop" ELSE "status"
       ELSE /\ pc' = IF result = "connected" THEN "packets" ELSE "status"
            /\ UNCHANGED status

(* What comes back: setup() leaves its loop on AIO_CONNECTED and keeps the  *)
(* status; run() only compares it.                                          *)
Return(result) ==
  /\ UNCHANGED <<caller, sub, retry>>
  /\ IF caller = "setup"
       THEN /\ status' = result
            /\ pc' = IF result = "connected" THEN "loop" ELSE "status"
       ELSE /\ pc' = IF result = "connected" THEN "packets" ELSE "status"
            /\ UNCHANGED status

(* status() asks for the network first, and so forgets a failed connection. *)
StatusNoNetwork ==
  /\ pc = "status" /\ caller = "setup" /\ ~wifi
  /\ status' = "net_disconnected"
  /\ UNCHANGED <<pc, caller, sub, retry, body, link, sent, handled, pings,
                 slow, latePong>>

(* "if the connection failed, return so we don't hammer IO", for good. *)
StatusFailed ==
  /\ pc = "status" /\ wifi /\ status = "failed"
  /\ UNCHANGED vars

AsksBroker ==
  /\ pc = "status"
  /\ caller = "setup" => wifi
  /\ status # "failed"

StatusConnected ==
  /\ AsksBroker
  /\ tcp
  /\ Return("connected")
  /\ UNCHANGED <<body, link, sent, handled, pings, slow, latePong>>

(* connectServer() fails. *)
NoServer ==
  /\ AsksBroker
  /\ ~tcp
  /\ Return("disconnected")
  /\ UNCHANGED <<body, link, sent, handled, pings, slow, latePong>>

(* connectServer() clears the buffer; CONNECT asks for a clean session.     *)
StartConnect ==
  /\ AsksBroker
  /\ ~tcp /\ wifi
  /\ tcp' = TRUE
  /\ session' = "none" /\ subs' = {}
  /\ outbox' = <<Packet("CONNECT", 0)>> /\ inbox' = <<>>
  /\ body' = 0
  /\ slow' = FALSE
  /\ pc' = "connack"
  /\ UNCHANGED <<caller, status, sub, retry, wifi, sent, handled, pings, latePong>>

-----------------------------------------------------------------------------
(* connect(), the waits for CONNACK and the SUBACKs.                        *)

(* sendPacket; nobody reads what goes into a dead connection.               *)
Send(packet) == outbox' = IF session = "dead" THEN outbox ELSE Append(outbox, packet)

Waits(place, type) ==
  /\ pc = place
  /\ inbox # <<>> /\ Head(inbox).type = type
  /\ inbox' = Tail(inbox)

TimesOut(place) == pc = place /\ tcp /\ inbox = <<>>

(* Mutant: the loop over the subscriptions leaves out the first.            *)
Connack_SkipsFirst ==
  /\ Waits("connack", "CONNACK")
  /\ body' = 0
  /\ IF Head(inbox).arg = 0
       THEN /\ pc' = "suback" /\ sub' = 2 /\ retry' = 1
            /\ Send(Packet("SUBSCRIBE", 2))
            /\ UNCHANGED <<caller, status>>
       ELSE Return(Outcome(Head(inbox).arg)) /\ UNCHANGED outbox
  /\ UNCHANGED <<wifi, tcp, session, subs, sent, handled, pings, slow, latePong>>

Connack ==
  /\ Waits("connack", "CONNACK")
  /\ body' = 0
  /\ IF Head(inbox).arg = 0
       THEN /\ pc' = "suback" /\ sub' = 1 /\ retry' = 1
            /\ Send(Packet("SUBSCRIBE", 1))
            /\ UNCHANGED <<caller, status>>
       ELSE Return(Outcome(Head(inbox).arg)) /\ UNCHANGED outbox
  /\ UNCHANGED <<wifi, tcp, session, subs, sent, handled, pings, slow, latePong>>

(* The TCP connection stays, and mqttStatus() will take it for a session.   *)
ConnackTimeout ==
  /\ TimesOut("connack")
  /\ slow' = TRUE
  /\ Return("disconnected")
  /\ UNCHANGED <<body, link, sent, handled, pings, latePong>>

(* Any SUBACK will do, a late one for an earlier SUBSCRIBE too.             *)
Suback ==
  /\ Waits("suback", "SUBACK")
  /\ body' = 0
  /\ IF sub < NSubs
       THEN /\ sub' = sub + 1 /\ retry' = 1
            /\ Send(Packet("SUBSCRIBE", sub'))
            /\ UNCHANGED <<pc, caller, status>>
       ELSE Return("connected") /\ UNCHANGED outbox
  /\ UNCHANGED <<wifi, tcp, session, subs, sent, handled, pings, slow, latePong>>

(* Mutant: one retry too many.                                              *)
SubackTimeout_OneMore ==
  /\ TimesOut("suback")
  /\ slow' = TRUE
  /\ IF retry <= Retries
       THEN /\ retry' = retry + 1
            /\ Send(Packet("SUBSCRIBE", sub))
            /\ body' = 0
            /\ UNCHANGED <<pc, caller, status, sub>>
       ELSE Return("disconnected") /\ UNCHANGED <<body, outbox>>
  /\ UNCHANGED <<wifi, tcp, session, subs, inbox, sent, handled, pings, latePong>>

SubackTimeout ==
  /\ TimesOut("suback")
  /\ slow' = TRUE
  /\ IF retry < Retries
       THEN /\ retry' = retry + 1
            /\ Send(Packet("SUBSCRIBE", sub))
            /\ body' = 0
            /\ UNCHANGED <<pc, caller, status, sub>>
       ELSE Return("disconnected") /\ UNCHANGED <<body, outbox>>
  /\ UNCHANGED <<wifi, tcp, session, subs, inbox, sent, handled, pings, latePong>>

(* The connection is lost while connect() waits or sends.                   *)
ConnectLost ==
  /\ pc \in {"connack", "suback"} /\ ~tcp
  /\ Return("disconnected")
  /\ UNCHANGED <<body, link, sent, handled, pings, slow, latePong>>

(* processPacketsUntil() reads a publish and drops it.                      *)
DropPublish ==
  /\ Waits("suback", "PUBLISH") \/ Waits("pong", "PUBLISH")
  /\ body' = Head(inbox).arg
  /\ UNCHANGED <<pc, caller, status, sub, retry, wifi, tcp, session, subs, outbox,
                 sent, handled, pings, slow, latePong>>

-----------------------------------------------------------------------------
(* run(): processPackets() and ping().                                      *)

Run ==
  /\ pc = "loop"
  /\ pc' = "status" /\ caller' = "run"
  /\ UNCHANGED <<status, sub, retry, body, link, sent, handled, pings, slow,
                 latePong>>

(* The handlers are called with a message: its feed is found by the topic.  *)
Handle(n) == handled' = Append(handled, [feed |-> sent[n], n |-> n])

InPackets == pc \in {"packets", "packets_more"}

(* Mutant: a publish that is handled is copied out of a buffer of its own.  *)
ReadPublish_OwnBuffer ==
  /\ Waits("packets", "PUBLISH") \/ Waits("packets_more", "PUBLISH")
  /\ Handle(Head(inbox).arg)
  /\ pc' = "packets_more"
  /\ UNCHANGED <<caller, status, sub, retry, body, wifi, tcp, session, subs, outbox,
                 sent, pings, slow, latePong>>

ReadPublish ==
  /\ Waits("packets", "PUBLISH") \/ Waits("packets_more", "PUBLISH")
  /\ body' = Head(inbox).arg
  /\ Handle(body')
  /\ pc' = "packets_more"
  /\ UNCHANGED <<caller, status, sub, retry, wifi, tcp, session, subs, outbox,
                 sent, pings, slow, latePong>>

(* readSubscription() takes any packet for a publish.  A late CONNACK or    *)
(* SUBACK has no topic in the buffer that it could be taken for.            *)
ReadAck ==
  /\ \/ InPackets /\ pc' = "packets_more"
     \/ pc = "pong" /\ pc' = pc
  /\ inbox # <<>> /\ Head(inbox).type \in {"CONNACK", "SUBACK"}
  /\ inbox' = Tail(inbox)
  /\ body' = 0
  /\ UNCHANGED <<caller, status, sub, retry, wifi, tcp, session, subs, outbox,
                 sent, handled, pings, slow, latePong>>

(* Mutant: ping() does not wait for its answer.                             *)
PacketsEnd_NoWait ==
  /\ pc = "packets_more" \/ (pc = "packets" /\ inbox = <<>>)
  /\ \/ /\ pings < MaxPings
        /\ pings' = pings + 1
        /\ IF tcp THEN Send(Packet("PINGREQ", 0)) ELSE UNCHANGED outbox
     \/ UNCHANGED <<pings, outbox>>
  /\ pc' = "loop"
  /\ UNCHANGED <<caller, status, sub, retry, body, wifi, tcp, session, subs, inbox,
                 sent, handled, slow, latePong>>

(* elapsed adds up the time since the start of the loop once more for each  *)
(* packet, so the loop may end with packets left to read.                   *)
PacketsEnd ==
  /\ pc = "packets_more" \/ (pc = "packets" /\ inbox = <<>>)
  /\ \/ /\ pings < MaxPings
        /\ pings' = pings + 1
        /\ IF tcp THEN Send(Packet("PINGREQ", 0)) /\ pc' = "pong"
                  ELSE UNCHANGED outbox /\ pc' = "loop"
     \/ UNCHANGED <<pings, outbox>> /\ pc' = "loop"
  /\ UNCHANGED <<caller, status, sub, retry, body, wifi, tcp, session, subs, inbox,
                 sent, handled, slow, latePong>>

(* A PINGRESP has no more than its two bytes, and readPacket() with nothing *)
(* to read does not stop: it reads on until nothing comes for a timeout.    *)
ReadPingresp ==
  /\ \/ Waits("packets", "PINGRESP") /\ pc' = "swallow"
     \/ Waits("packets_more", "PINGRESP") /\ pc' = "swallow"
     \/ Waits("pong", "PINGRESP") /\ pc' = "swallow_pong"
  /\ UNCHANGED <<caller, status, sub, retry, body, wifi, tcp, session, subs, outbox,
                 sent, handled, pings, slow, latePong>>

Swallow ==
  /\ pc \in {"swallow", "swallow_pong"}
  /\ inbox # <<>>
  /\ inbox' = Tail(inbox)
  /\ body' = 0
  /\ UNCHANGED <<pc, caller, status, sub, retry, wifi, tcp, session, subs, outbox,
                 sent, handled, pings, slow, latePong>>

(* In readSubscription() the PINGRESP is then taken for the publish that is *)
(* still in the buffer behind it, which is handled (again).  datalen comes  *)
(* out below zero and is cut off at the end of lastread: the stale bytes    *)
(* behind the payload stay behind the first CSV field, the one looked at.   *)
SwallowEnd ==
  /\ pc \in {"swallow", "swallow_pong"}
  /\ inbox = <<>>
  /\ IF pc = "swallow_pong" THEN pc' = "loop" ELSE pc' = "packets_more"
  /\ IF pc = "swallow" /\ body # 0 THEN Handle(body) ELSE UNCHANGED handled
  /\ UNCHANGED <<caller, status, sub, retry, body, link, sent, pings, slow, latePong>>

(* run() does not look at what ping() returns. *)
PongTimeout ==
  /\ pc = "pong" /\ inbox = <<>>
  /\ pc' = "loop"
  /\ latePong' = (latePong \/ tcp)
  /\ UNCHANGED <<caller, status, sub, retry, body, link, sent, handled, pings, slow>>

-----------------------------------------------------------------------------
(* The broker, the network and whoever publishes.                           *)

Publish ==
  /\ Len(sent) < MaxMsgs
  /\ \E f \in Feeds :
       /\ sent' = Append(sent, f)
       /\ inbox' = IF session = "live" /\ f \in subs
                     THEN Append(inbox, Packet("PUBLISH", Len(sent'))) ELSE inbox
  /\ UNCHANGED <<client, wifi, tcp, session, subs, outbox, handled, pings, slow,
                 latePong>>

BrokerReads(type) ==
  /\ tcp /\ session # "dead"
  /\ outbox # <<>> /\ Head(outbox).type = type
  /\ UNCHANGED <<client, wifi, tcp, sent, handled, pings, slow, latePong>>

BrokerAccepts ==
  /\ BrokerReads("CONNECT")
  /\ session' = "live"
  /\ inbox' = Append(inbox, Packet("CONNACK", 0))
  /\ outbox' = Tail(outbox)
  /\ UNCHANGED subs

(* A broker that refuses closes the connection. *)
BrokerRefuses ==
  /\ BrokerReads("CONNECT")
  /\ session' = "refused"
  /\ \E code \in Refusals : inbox' = Append(inbox, Packet("CONNACK", code))
  /\ outbox' = <<>>
  /\ UNCHANGED subs

BrokerSubscribes ==
  /\ BrokerReads("SUBSCRIBE")
  /\ session = "live"
  /\ subs' = subs \cup {Head(outbox).arg}
  /\ inbox' = Append(inbox, Packet("SUBACK", 0))
  /\ outbox' = Tail(outbox)
  /\ UNCHANGED session

BrokerPongs ==
  /\ BrokerReads("PINGREQ")
  /\ session = "live"
  /\ inbox' = Append(inbox, Packet("PINGRESP", 0))
  /\ outbox' = Tail(outbox)
  /\ UNCHANGED <<session, subs>>

NoConnection ==
  /\ tcp' = FALSE /\ session' = "none" /\ subs' = {}
  /\ outbox' = <<>> /\ inbox' = <<>>

LinkDrop ==
  /\ tcp
  /\ NoConnection
  /\ UNCHANGED <<client, wifi, sent, handled, pings, slow, latePong>>

(* The connection is gone and the clock does not know, with the Wi-Fi up or *)
(* down.                                                                    *)
LinkDies ==
  /\ tcp \/ wifi
  /\ wifi' \in {wifi, FALSE}
  /\ session' = IF tcp THEN "dead" ELSE session
  /\ subs' = {} /\ outbox' = <<>>
  /\ UNCHANGED <<client, tcp, inbox, sent, handled, pings, slow, latePong>>

(* TCP finds out, from a FIN or from what is not acknowledged; what has     *)
(* arrived is read before connected() says so.                              *)
TcpEnds ==
  /\ tcp /\ session \in {"refused", "dead"}
  /\ inbox = <<>>
  /\ NoConnection
  /\ UNCHANGED <<client, wifi, sent, handled, pings, slow, latePong>>

WifiUp ==
  /\ ~wifi
  /\ wifi' = TRUE
  /\ UNCHANGED <<client, tcp, session, subs, outbox, inbox, sent, handled, pings,
                 slow, latePong>>

-----------------------------------------------------------------------------
Status == StatusNoNetwork \/ StatusFailed \/ StatusConnected \/ NoServer \/ StartConnect
Connecting ==
  \/ Connack \/ ConnackTimeout \/ Suback \/ SubackTimeout \/ ConnectLost \/ DropPublish
Running ==
  \/ Run \/ ReadPublish \/ ReadAck \/ PacketsEnd
  \/ ReadPingresp \/ Swallow \/ SwallowEnd \/ PongTimeout
World ==
  \/ Publish \/ BrokerAccepts \/ BrokerRefuses \/ BrokerSubscribes \/ BrokerPongs
  \/ LinkDrop \/ LinkDies \/ TcpEnds \/ WifiUp

Next == Status \/ Connecting \/ Running \/ World

Spec == Init /\ [][Next]_vars

(* The thread does not stop outside its calls, connectServer() succeeds     *)
(* now and then, TCP gives up on a dead connection and the Wi-Fi comes back. *)
(* That losses and refusals end is not assumed here, and that the broker    *)
(* answers is not assumed anywhere.                                         *)
Fairness ==
  /\ WF_vars(Connecting \/ Running) /\ WF_vars(StatusConnected)
  /\ WF_vars(StartConnect)
  /\ WF_vars(TcpEnds) /\ WF_vars(WifiUp)

FairSpec == Spec /\ Fairness

-----------------------------------------------------------------------------
(* Properties *)

TypeOK ==
  /\ pc \in {"status", "connack", "suback", "loop", "packets", "packets_more",
            "pong", "swallow", "swallow_pong"}
  /\ caller \in {"setup", "run"}
  /\ status \in {"idle", "net_disconnected", "disconnected", "connected", "failed"}
  /\ sub \in Feeds /\ retry \in 1..Retries
  /\ body \in 0..Len(sent)
  /\ wifi \in BOOLEAN /\ tcp \in BOOLEAN
  /\ session \in {"none", "live", "refused", "dead"}
  /\ subs \subseteq Feeds
  /\ sent \in Seq(Feeds)
  /\ handled \in Seq([feed : Feeds, n : 1..Len(sent)])
  /\ slow \in BOOLEAN /\ latePong \in BOOLEAN

(* The handlers see published messages, at their feeds and in order, through *)
(* lost sessions, dropped packets and PINGRESPs taken for publishes.        *)
Channel == INSTANCE FeedChannel
ChannelSpec == Channel!Spec

(* processPackets() hears all feeds if no wait of connect() timed out: every *)
(* way out of mqttStatus() but that one sets the subscriptions up first.    *)
PromptMeansSubscribed ==
  InPackets /\ session = "live" /\ ~slow => subs = Feeds

(* A message is handled twice only after a PINGRESP came late.              *)
HandledOnce ==
  ~latePong => \A i, j \in DOMAIN handled : handled[i].n = handled[j].n => i = j

(* A broker that goes on refusing the clock may keep it in run(), or, with  *)
(* a passing code, in setup(); a final one stops setup() for good.          *)
(* But if none is final during setup() and refusals and losses come to an   *)
(* end, setup() ends and run() comes back to the clock again and again:     *)
(* what they left behind, late answers and a broker that is silent from     *)
(* then on do not keep the thread.                                          *)
RefusedForGood ==
  \E i \in DOMAIN inbox :
    inbox[i].type = "CONNACK" /\ inbox[i].arg # 0 /\ Outcome(inbox[i].arg) = "failed"

(* TcpEnds finds a loss out and is none. *)
Loses == (LinkDrop /\ ~TcpEnds) \/ LinkDies

RunReturns ==
  /\ [](caller = "setup" => ~RefusedForGood)
  /\ <>[](session # "refused")
  /\ <>[][~Loses]_vars
  => []<>(pc = "loop")

(* "loop until we have a connection", "Setup subscriptions once connected": *)
(* run() reads packets from a session that hears all feeds.                 *)
RunHearsAllFeeds ==
  InPackets /\ session = "live" /\ outbox = <<>> => subs = Feeds
=============================================================================
