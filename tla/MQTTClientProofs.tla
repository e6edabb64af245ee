--------------------------- MODULE MQTTClientProofs ---------------------------
(***************************************************************************)
(* What MQTTClient keeps for any number of feeds, messages, pings and       *)
(* faults, and that it implements FeedChannel.  The invariants of the runs  *)
(* speak of what has been handled; Inv speaks of what is under way and of   *)
(* what is left in the buffer as well, for that is handled next.            *)
(***************************************************************************)
EXTENDS MQTTClient, TLAPS

Kinds == {"CONNECT", "CONNACK", "SUBSCRIBE", "SUBACK", "PUBLISH", "PINGREQ", "PINGRESP"}
Packets == [type : Kinds, arg : Nat]

None(q, type) == \A k \in DOMAIN q : q[k].type # type
AtMostOne(q, type) ==
  \A j, k \in DOMAIN q : q[j].type = type /\ q[k].type = type => j = k

(* TypeOK and the types of what is under way, in two parts.                 *)
ClientTypes ==
  /\ pc \in {"status", "connack", "suback", "loop", "packets", "packets_more",
            "pong", "swallow", "swallow_pong"}
  /\ caller \in {"setup", "run"}
  /\ status \in {"idle", "net_disconnected", "disconnected", "connected", "failed"}
  /\ sub \in Feeds /\ retry \in 1..Retries
  /\ wifi \in BOOLEAN /\ tcp \in BOOLEAN
  /\ slow \in BOOLEAN /\ latePong \in BOOLEAN

LinkTypes ==
  /\ session \in {"none", "live", "refused", "dead"}
  /\ subs \subseteq Feeds
  /\ outbox \in Seq(Packets) /\ inbox \in Seq(Packets)
  /\ \A k \in DOMAIN outbox : outbox[k].type = "SUBSCRIBE" => outbox[k].arg \in Feeds
  /\ ~tcp => session = "none" /\ outbox = <<>> /\ inbox = <<>>

(* The message handled last. *)
Last == IF handled = <<>> THEN 0 ELSE handled[Len(handled)].n

(* The publishes in a queue are after message `from', up to `to', in order. *)
PublishesIn(q, from, to) ==
  /\ \A k \in DOMAIN q : q[k].type = "PUBLISH" => q[k].arg \in (from + 1)..to
  /\ \A j, k \in DOMAIN q :
       j < k /\ q[j].type = "PUBLISH" /\ q[k].type = "PUBLISH" => q[j].arg < q[k].arg

(* Publishes are read in the order they were sent, after the one in the     *)
(* buffer, which was handled last or dropped after it.                      *)
InOrder ==
  /\ sent \in Seq(Feeds)
  /\ handled \in Seq([feed : Feeds, n : 1..Len(sent)])
  /\ body \in 0..Len(sent) /\ (body # 0 => Last <= body)
  /\ PublishesIn(inbox, Last, Len(sent)) /\ PublishesIn(inbox, body, Len(sent))

(* Without a timeout there is one packet of the handshake under way at a    *)
(* time, and all subscriptions but the one waited for are there.            *)
SetUp ==
  /\ ~slow /\ pc # "connack" => None(outbox, "CONNECT")
  /\ ~slow /\ pc = "connack" =>
       outbox = <<>> \/ (outbox = <<Packet("CONNECT", 0)>> /\ inbox = <<>>
                         /\ session # "live")
  /\ ~slow /\ session = "live" /\ pc = "connack" =>
       /\ None(inbox, "SUBACK")
       /\ \A k \in DOMAIN inbox : inbox[k].type = "CONNACK" => inbox[k].arg = 0
  /\ ~slow /\ session = "live" /\ pc = "suback" =>
       /\ 1..(sub - 1) \subseteq subs
       /\ \/ outbox = <<Packet("SUBSCRIBE", sub)>> /\ None(inbox, "SUBACK")
          \/ outbox = <<>> /\ sub \in subs /\ AtMostOne(inbox, "SUBACK")
  /\ ~slow /\ session = "live" /\ pc \notin {"connack", "suback"} => subs = Feeds

(* Unless one is late, a PINGRESP is only under way while ping() waits, and *)
(* only one.                                                                *)
PongsAwaited ==
  /\ ~latePong => pc # "swallow"
  /\ ~latePong /\ pc # "pong" => None(outbox, "PINGREQ") /\ None(inbox, "PINGRESP")
  /\ ~latePong /\ pc = "pong" =>
       /\ None(outbox, "PINGREQ") \/ None(inbox, "PINGRESP")
       /\ AtMostOne(outbox, "PINGREQ") /\ AtMostOne(inbox, "PINGRESP")

HandledInOrder ==
  ~latePong => \A j, k \in DOMAIN handled : j < k => handled[j].n < handled[k].n

Inv ==
  ClientTypes /\ LinkTypes /\ InOrder /\ SetUp /\ PongsAwaited /\ HandledInOrder

-----------------------------------------------------------------------------
(* Lemmas on queues. *)

(* Packets that are built are packets.                                      *)
LEMMA PacketTypes == \A t \in Kinds, n \in Nat : Packet(t, n) \in Packets
BY DEF Packet, Packets

(* A queue without packets of a type stays so when its head is taken, ...   *)
LEMMA NoneTail ==
  ASSUME NEW q \in Seq(Packets), q # <<>>, NEW type, None(q, type)
  PROVE  None(Tail(q), type)
BY DEF None

(* ... and when a packet of another type is added.                          *)
LEMMA NoneAppend ==
  ASSUME NEW q \in Seq(Packets), NEW p \in Packets, NEW type, None(q, type), p.type # type
  PROVE  None(Append(q, p), type)
BY DEF None

(* A sequence over a set is one over a larger set.                          *)
LEMMA SeqMonotone ==
  ASSUME NEW S, NEW T, S \subseteq T, NEW q \in Seq(S)
  PROVE  q \in Seq(T)
OBVIOUS

(* A sequence's elements are in its set, ...                                *)
LEMMA Elements ==
  ASSUME NEW S, NEW q \in Seq(S)
  PROVE  DOMAIN q = 1..Len(q) /\ \A j \in DOMAIN q : q[j] \in S
OBVIOUS

(* ... the last one too.                                                    *)
LEMMA LastElement ==
  ASSUME NEW S, NEW q \in Seq(S), q # <<>>
  PROVE  Len(q) \in 1..Len(q) /\ q[Len(q)] \in S
OBVIOUS

(* The places of a queue after its head was taken.                          *)
LEMMA TailPlaces ==
  ASSUME NEW S, NEW q \in Seq(S), q # <<>>
  PROVE  /\ Head(q) = q[1] /\ 1 \in DOMAIN q
         /\ \A k \in DOMAIN Tail(q) : k + 1 \in DOMAIN q /\ q[k + 1] = Tail(q)[k]
OBVIOUS

(* ... and after one was added.                                             *)
LEMMA AppendPlaces ==
  ASSUME NEW S, NEW q \in Seq(S), NEW p
  PROVE  \A k \in DOMAIN Append(q, p) :
           \/ k \in DOMAIN q /\ Append(q, p)[k] = q[k]
           \/ k = Len(q) + 1 /\ Append(q, p)[k] = p
OBVIOUS

(* A queue that changes from q to r gets no more packets of the type.       *)
Keeps(q, r, type) ==
  (None(q, type) => None(r, type)) /\ (AtMostOne(q, type) => AtMostOne(r, type))

(* Taking the head adds nothing, ...                                        *)
LEMMA KeepsTail ==
  ASSUME NEW q \in Seq(Packets), q # <<>>, NEW type
  PROVE  Keeps(q, Tail(q), type)
<1>1. \A k \in DOMAIN Tail(q) : k \in Nat /\ k + 1 \in DOMAIN q /\ q[k + 1] = Tail(q)[k]
  OBVIOUS
<1>2. None(q, type) => None(Tail(q), type)
  BY <1>1 DEF None
<1>3. ASSUME AtMostOne(q, type) PROVE AtMostOne(Tail(q), type)
  BY <1>1, <1>3 DEF AtMostOne
<1>. QED
  BY <1>2, <1>3 DEF Keeps

(* ... nor does adding a packet of another type, ...                        *)
LEMMA KeepsAppend ==
  ASSUME NEW q \in Seq(Packets), NEW p \in Packets, NEW type, p.type # type
  PROVE  Keeps(q, Append(q, p), type)
<1>1. \A k \in DOMAIN Append(q, p) :
        \/ k \in DOMAIN q /\ Append(q, p)[k] = q[k]
        \/ k = Len(q) + 1 /\ Append(q, p)[k] = p
  BY AppendPlaces
<1>. QED
  BY <1>1 DEF Keeps, None, AtMostOne

(* ... nor leaving the queue alone, ...                                     *)
LEMMA KeepsSame == \A q, type : Keeps(q, q, type)
BY DEF Keeps

(* ... nor emptying it.                                                     *)
LEMMA KeepsEmpty == \A q, type : Keeps(q, <<>>, type)
BY DEF Keeps, None, AtMostOne

(* The only one is taken, or one is added where there was none.             *)
LEMMA OneTaken ==
  ASSUME NEW q \in Seq(Packets), q # <<>>, NEW type,
         AtMostOne(q, type), Head(q).type = type
  PROVE  None(Tail(q), type)
<1>1. \A k \in DOMAIN Tail(q) :
        k \in Nat /\ k + 1 # 1 /\ k + 1 \in DOMAIN q /\ q[k + 1] = Tail(q)[k]
  OBVIOUS
<1>2. Head(q) = q[1] /\ 1 \in DOMAIN q
  BY TailPlaces
<1>. QED
  BY <1>1, <1>2 DEF None, AtMostOne

(* ... and one added where there was none is the only one.                  *)
LEMMA OneAdded ==
  ASSUME NEW q \in Seq(Packets), NEW p \in Packets, NEW type, None(q, type)
  PROVE  AtMostOne(Append(q, p), type)
BY AppendPlaces DEF None, AtMostOne

(* A packet in front is in the queue.                                       *)
LEMMA NotNone ==
  ASSUME NEW q \in Seq(Packets), q # <<>>, NEW type, Head(q).type = type
  PROVE  ~None(q, type)
BY TailPlaces DEF None

-----------------------------------------------------------------------------
(* Types. *)

(* The client's state starts with its types.                                *)
LEMMA ClientInit == Init => ClientTypes
<1>1. Init => /\ wifi \in BOOLEAN /\ tcp \in BOOLEAN
              /\ slow \in BOOLEAN /\ latePong \in BOOLEAN
  BY Zenon DEF Init
<1>2. Init => sub \in Feeds /\ retry \in 1..Retries
  BY SessionAssumption DEF Init, Feeds
<1>. QED
  BY <1>1, <1>2 DEF Init, ClientTypes

(* The connection's state starts with its types.                            *)
LEMMA LinkInit == Init => LinkTypes
BY DEF Init, LinkTypes

(* No action leaves the types of the client's state.                        *)
LEMMA ClientStep == ClientTypes /\ [Next]_vars => ClientTypes'
<1>. SUFFICES ASSUME ClientTypes, [Next]_vars
              PROVE  ClientTypes'
  OBVIOUS
<1>. USE SessionAssumption DEF ClientTypes, Feeds, Return, Outcome, client, link
<1>1. CASE StatusNoNetwork \/ StatusFailed
  BY <1>1 DEF StatusNoNetwork, StatusFailed, vars
<1>2. CASE StatusConnected \/ NoServer
  BY <1>2 DEF StatusConnected, NoServer, AsksBroker
<1>3. CASE StartConnect
  BY <1>3 DEF StartConnect, AsksBroker
<1>4. CASE Connack
  BY <1>4 DEF Connack, Waits
<1>5. CASE ConnackTimeout
  BY <1>5 DEF ConnackTimeout, TimesOut
<1>6. CASE Suback
  BY <1>6 DEF Suback, Waits
<1>7. CASE SubackTimeout
  BY <1>7 DEF SubackTimeout, TimesOut
<1>8. CASE ConnectLost \/ DropPublish
  BY <1>8 DEF ConnectLost, DropPublish, Waits
<1>9. CASE Run \/ ReadPublish \/ ReadAck
  BY <1>9 DEF Run, ReadPublish, ReadAck, Waits
<1>10. CASE PacketsEnd
  BY <1>10 DEF PacketsEnd
<1>11. CASE ReadPingresp \/ Swallow \/ SwallowEnd
  BY <1>11 DEF ReadPingresp, Swallow, SwallowEnd, Waits
<1>12. CASE PongTimeout
  BY <1>12 DEF PongTimeout
<1>13. CASE Publish
  BY <1>13 DEF Publish
<1>14. CASE BrokerAccepts \/ BrokerRefuses \/ BrokerSubscribes \/ BrokerPongs
  BY <1>14 DEF BrokerAccepts, BrokerRefuses, BrokerSubscribes, BrokerPongs, BrokerReads
<1>15. CASE LinkDrop \/ TcpEnds
  <2>1. tcp' = FALSE /\ UNCHANGED <<pc, caller, status, sub, retry, wifi, slow, latePong>>
    BY <1>15 DEF LinkDrop, TcpEnds, NoConnection
  <2>. QED
    BY <2>1
<1>16. CASE LinkDies
  BY <1>16 DEF LinkDies
<1>17. CASE WifiUp
  BY <1>17 DEF WifiUp
<1>18. CASE UNCHANGED vars
  BY <1>18 DEF vars
<1>. QED
  BY <1>1, <1>2, <1>3, <1>4, <1>5, <1>6, <1>7, <1>8, <1>9, <1>10, <1>11, <1>12,
     <1>13, <1>14, <1>15, <1>16, <1>17, <1>18
  DEF Next, Status, Connecting, Running, World

(* No action leaves the types of what is under way, and nothing is under way *)
(* without a connection.                                                    *)
LEMMA LinkStep == ClientTypes /\ ClientTypes' /\ LinkTypes /\ InOrder /\ [Next]_vars => LinkTypes'
<1>. SUFFICES ASSUME ClientTypes, ClientTypes', LinkTypes, InOrder, [Next]_vars
              PROVE  LinkTypes'
  OBVIOUS
<1>p. \A t \in Kinds, n \in Nat : Packet(t, n) \in Packets
  BY PacketTypes
<1>u. ASSUME UNCHANGED link PROVE LinkTypes'
  BY <1>u DEF link, LinkTypes
<1>n. ASSUME NoConnection PROVE LinkTypes'
  BY <1>n DEF NoConnection, LinkTypes
<1>i. ASSUME inbox # <<>>, inbox' = Tail(inbox), UNCHANGED <<tcp, session, subs, outbox>>
      PROVE  LinkTypes'
  BY <1>i DEF LinkTypes
<1>s. ASSUME tcp, NEW t \in Kinds, NEW n \in Nat, t = "SUBSCRIBE" => n \in Feeds,
             Send(Packet(t, n))
      PROVE  /\ outbox' \in Seq(Packets)
             /\ \A k \in DOMAIN outbox' :
                  outbox'[k].type = "SUBSCRIBE" => outbox'[k].arg \in Feeds
  <2>1. Packet(t, n) \in Packets /\ Packet(t, n).type = t /\ Packet(t, n).arg = n
    BY <1>p DEF Packet
  <2>. HIDE DEF Packet
  <2>2. CASE outbox' = outbox
    BY <2>2 DEF LinkTypes
  <2>3. CASE outbox' = Append(outbox, Packet(t, n))
    BY <1>s, <2>1, <2>3 DEF LinkTypes
  <2>. QED
    BY <1>s, <2>2, <2>3 DEF Send
<1>t. tcp \/ inbox = <<>>
  BY DEF LinkTypes
<1>1. CASE StatusNoNetwork \/ StatusFailed \/ StatusConnected \/ NoServer
  BY <1>1, <1>u DEF StatusNoNetwork, StatusFailed, StatusConnected, NoServer, vars
<1>2. CASE StartConnect
  <2>1. Packet("CONNECT", 0) \in Packets /\ Packet("CONNECT", 0).type = "CONNECT"
    BY <1>p DEF Kinds, Packet
  <2>2. tcp' /\ session' = "none" /\ subs' = {} /\ inbox' = <<>>
        /\ outbox' = <<Packet("CONNECT", 0)>>
    BY <1>2 DEF StartConnect
  <2>. QED
    BY <2>1, <2>2 DEF LinkTypes
<1>3. CASE Connack
  <2>1. /\ inbox # <<>> /\ inbox' = Tail(inbox) /\ UNCHANGED <<tcp, session, subs>>
        /\ Send(Packet("SUBSCRIBE", 1)) \/ UNCHANGED outbox
    BY <1>3 DEF Connack, Waits
  <2>2. 1 \in Feeds /\ 1 \in Nat /\ "SUBSCRIBE" \in Kinds
    BY SessionAssumption DEF Feeds, Kinds
  <2>. QED
    BY <2>1, <2>2, <1>i, <1>s, <1>t DEF LinkTypes
<1>4. CASE Suback
  <2>1. /\ inbox # <<>> /\ inbox' = Tail(inbox) /\ UNCHANGED <<tcp, session, subs>>
        /\ Send(Packet("SUBSCRIBE", sub')) \/ UNCHANGED outbox
    BY <1>4 DEF Suback, Waits
  <2>2. sub' \in Feeds /\ sub' \in Nat /\ "SUBSCRIBE" \in Kinds
    BY SessionAssumption DEF Feeds, Kinds, ClientTypes
  <2>. QED
    BY <2>1, <2>2, <1>i, <1>s, <1>t DEF LinkTypes
<1>5. CASE SubackTimeout
  <2>1. /\ tcp /\ UNCHANGED <<tcp, session, subs, inbox>>
        /\ Send(Packet("SUBSCRIBE", sub)) \/ UNCHANGED outbox
    BY <1>5 DEF SubackTimeout, TimesOut
  <2>2. sub \in Feeds /\ sub \in Nat /\ "SUBSCRIBE" \in Kinds
    BY SessionAssumption DEF Feeds, Kinds, ClientTypes
  <2>. QED
    BY <2>1, <2>2, <1>s DEF LinkTypes
<1>6. CASE PacketsEnd
  <2>1. /\ UNCHANGED <<tcp, session, subs, inbox>>
        /\ (tcp /\ Send(Packet("PINGREQ", 0))) \/ UNCHANGED outbox
    BY <1>6 DEF PacketsEnd
  <2>2. 0 \in Nat /\ "PINGREQ" \in Kinds /\ "PINGREQ" # "SUBSCRIBE"
    BY DEF Kinds
  <2>. QED
    BY <2>1, <2>2, <1>s DEF LinkTypes
<1>7. CASE ConnackTimeout \/ ConnectLost \/ Run \/ SwallowEnd \/ PongTimeout
  BY <1>7, <1>u DEF ConnackTimeout, ConnectLost, Run, SwallowEnd, PongTimeout
<1>8. CASE DropPublish \/ ReadPublish \/ ReadAck \/ ReadPingresp \/ Swallow
  BY <1>8, <1>i DEF DropPublish, ReadPublish, ReadAck, ReadPingresp, Swallow, Waits
<1>9. CASE Publish
  <2>1. Len(sent') \in Nat
    BY <1>9 DEF Publish, InOrder
  <2>2. Packet("PUBLISH", Len(sent')) \in Packets
    BY <2>1, <1>p DEF Kinds
  <2>3. /\ UNCHANGED <<tcp, session, subs, outbox>>
        /\ \/ session = "live" /\ inbox' = Append(inbox, Packet("PUBLISH", Len(sent')))
           \/ UNCHANGED inbox
    BY <1>9 DEF Publish
  <2>. QED
    BY <2>2, <2>3 DEF LinkTypes
<1>10. CASE BrokerAccepts \/ BrokerRefuses \/ BrokerSubscribes \/ BrokerPongs
  <2>1. /\ tcp /\ UNCHANGED tcp /\ outbox # <<>> /\ outbox' \in {Tail(outbox), <<>>}
        /\ session' \in {session, "live", "refused"}
    BY <1>10 DEF BrokerAccepts, BrokerRefuses, BrokerSubscribes, BrokerPongs, BrokerReads
  <2>2. \E t \in {"CONNACK", "SUBACK", "PINGRESP"}, n \in Refusals \cup {0} :
          inbox' = Append(inbox, Packet(t, n))
    BY <1>10, Zenon DEF BrokerAccepts, BrokerRefuses, BrokerSubscribes, BrokerPongs
  <2>3. inbox' \in Seq(Packets)
    <3>1. \A t \in {"CONNACK", "SUBACK", "PINGRESP"}, n \in Refusals \cup {0} :
            Packet(t, n) \in Packets
      BY <1>p, SessionAssumption DEF Kinds
    <3>. QED
      BY <2>2, <3>1 DEF LinkTypes
  <2>4. subs' \subseteq Feeds
    <3>1. CASE BrokerSubscribes
      <4>1. subs' = subs \cup {Head(outbox).arg} /\ Head(outbox).type = "SUBSCRIBE"
        BY <3>1 DEF BrokerSubscribes, BrokerReads
      <4>2. Head(outbox).arg \in Feeds
        BY <2>1, <4>1 DEF LinkTypes
      <4>. QED
        BY <4>1, <4>2 DEF LinkTypes
    <3>. QED
      BY <1>10, <3>1 DEF BrokerAccepts, BrokerRefuses, BrokerPongs, LinkTypes
  <2>5. /\ outbox' \in Seq(Packets)
        /\ \A k \in DOMAIN outbox' :
             outbox'[k].type = "SUBSCRIBE" => outbox'[k].arg \in Feeds
    <3>1. CASE outbox' = <<>>
      BY <3>1
    <3>2. CASE outbox' = Tail(outbox)
      BY <2>1, <3>2 DEF LinkTypes
    <3>. QED
      BY <2>1, <3>1, <3>2
  <2>. QED
    BY <2>1, <2>3, <2>4, <2>5 DEF LinkTypes
<1>11. CASE LinkDrop \/ TcpEnds
  BY <1>11, <1>n DEF LinkDrop, TcpEnds
<1>12. CASE LinkDies \/ WifiUp
  <2>1. CASE LinkDies
    <3>1. /\ UNCHANGED <<tcp, inbox>> /\ subs' = {} /\ outbox' = <<>>
          /\ session' = IF tcp THEN "dead" ELSE session
      BY <2>1 DEF LinkDies
    <3>. QED
      BY <3>1 DEF LinkTypes
  <2>2. CASE WifiUp
    BY <2>2 DEF WifiUp, LinkTypes
  <2>. QED
    BY <1>12, <2>1, <2>2
<1>13. CASE UNCHANGED vars
  BY <1>13, <1>u DEF vars
<1>. QED
  BY <1>1, <1>2, <1>3, <1>4, <1>5, <1>6, <1>7, <1>8, <1>9, <1>10, <1>11, <1>12, <1>13
  DEF Next, Status, Connecting, Running, World

-----------------------------------------------------------------------------
(* Messages are handled in order. *)

(* The publish in front is the oldest; those behind it are newer.           *)
LEMMA PublishesTail ==
  ASSUME NEW q \in Seq(Packets), q # <<>>, NEW from \in Nat, NEW to \in Nat,
         PublishesIn(q, from, to)
  PROVE  /\ PublishesIn(Tail(q), from, to)
         /\ Head(q).type = "PUBLISH" =>
              Head(q).arg \in (from + 1)..to /\ PublishesIn(Tail(q), Head(q).arg, to)
<1>1. \A k \in DOMAIN Tail(q) : k \in Nat /\ k + 1 \in DOMAIN q /\ q[k + 1] = Tail(q)[k]
  BY TailPlaces
<1>2. \A j, k \in DOMAIN Tail(q) :
        j < k /\ Tail(q)[j].type = "PUBLISH" /\ Tail(q)[k].type = "PUBLISH" =>
          Tail(q)[j].arg < Tail(q)[k].arg
  BY <1>1 DEF PublishesIn
<1>3. PublishesIn(Tail(q), from, to)
  BY <1>1, <1>2 DEF PublishesIn
<1>4. ASSUME Head(q).type = "PUBLISH"
      PROVE  Head(q).arg \in (from + 1)..to /\ PublishesIn(Tail(q), Head(q).arg, to)
  <2>1. Head(q) = q[1] /\ 1 \in DOMAIN q
    BY TailPlaces
  <2>2. Head(q).arg \in (from + 1)..to
    BY <1>4, <2>1 DEF PublishesIn
  <2>3. ASSUME NEW k \in DOMAIN Tail(q), Tail(q)[k].type = "PUBLISH"
        PROVE  Tail(q)[k].arg \in (Head(q).arg + 1)..to
    <3>1. k + 1 \in DOMAIN q /\ q[k + 1] = Tail(q)[k] /\ 1 < k + 1
      BY <1>1, <2>3
    <3>2. q[1].arg < q[k + 1].arg /\ q[k + 1].arg \in (from + 1)..to
      BY <1>4, <2>1, <2>3, <3>1 DEF PublishesIn
    <3>. QED
      BY <2>1, <2>2, <3>1, <3>2
  <2>. QED
    BY <1>2, <2>2, <2>3 DEF PublishesIn
<1>. QED
  BY <1>3, <1>4

(* A packet that is no publish, and the newest publish, may be added.       *)
LEMMA PublishesAppend ==
  ASSUME NEW q \in Seq(Packets), NEW from \in Nat, NEW to \in Nat, from <= to,
         PublishesIn(q, from, to), NEW p \in Packets
  PROVE  /\ p.type # "PUBLISH" => PublishesIn(Append(q, p), from, to)
         /\ p = Packet("PUBLISH", to + 1) => PublishesIn(Append(q, p), from, to + 1)
<1>1. \A k \in DOMAIN Append(q, p) :
        \/ k \in DOMAIN q /\ Append(q, p)[k] = q[k]
        \/ k = Len(q) + 1 /\ Append(q, p)[k] = p
  BY AppendPlaces
<1>2. \A k \in DOMAIN q : k \in Nat /\ k < Len(q) + 1
  OBVIOUS
<1>3. CASE p.type # "PUBLISH"
  <2>1. p # Packet("PUBLISH", to + 1)
    BY <1>3 DEF Packet
  <2>. QED
    BY <1>1, <1>2, <1>3, <2>1 DEF PublishesIn
<1>4. CASE p = Packet("PUBLISH", to + 1)
  <2>1. p.type = "PUBLISH" /\ p.arg = to + 1
    BY <1>4 DEF Packet
  <2>2. \A k \in DOMAIN q : q[k].type = "PUBLISH" =>
          q[k].arg < p.arg /\ q[k].arg \in (from + 1)..(to + 1)
    BY <2>1 DEF PublishesIn
  <2>3. p.arg \in (from + 1)..(to + 1)
    BY <2>1
  <2>4. \A k \in DOMAIN Append(q, p) : Append(q, p)[k].type = "PUBLISH" =>
          Append(q, p)[k].arg \in (from + 1)..(to + 1)
    BY <1>1, <2>2, <2>3
  <2>5. \A j, k \in DOMAIN Append(q, p) :
          j < k /\ Append(q, p)[j].type = "PUBLISH" /\ Append(q, p)[k].type = "PUBLISH"
            => Append(q, p)[j].arg < Append(q, p)[k].arg
    BY <1>1, <1>2, <2>2 DEF PublishesIn
  <2>. QED
    BY <2>1, <2>4, <2>5 DEF PublishesIn
<1>. QED
  BY <1>3, <1>4

(* The message handled last is one that was sent.                           *)
LEMMA LastType == InOrder => Last \in 0..Len(sent) /\ body \in Nat /\ Len(sent) \in Nat
<1>. SUFFICES ASSUME InOrder
              PROVE  Last \in 0..Len(sent) /\ body \in Nat /\ Len(sent) \in Nat
  OBVIOUS
<1>1. Len(sent) \in Nat /\ body \in Nat
  BY DEF InOrder
<1>2. CASE handled = <<>>
  BY <1>1, <1>2 DEF Last
<1>3. CASE handled # <<>>
  <2>1. handled[Len(handled)] \in [feed : Feeds, n : 1..Len(sent)]
    BY <1>3, LastElement DEF InOrder
  <2>2. Last = handled[Len(handled)].n
    BY <1>3 DEF Last
  <2>. QED
    BY <1>1, <2>1, <2>2
<1>. QED
  BY <1>2, <1>3

(* Handling the message in front, or the one in the buffer, keeps the order *)
(* and is a step of FeedChannel.                                            *)
LEMMA HandleOrder ==
  ASSUME InOrder, NEW n \in 1..Len(sent), Last <= n, UNCHANGED sent,
         handled' = Append(handled, [feed |-> sent[n], n |-> n])
  PROVE  /\ handled' \in Seq([feed : Feeds, n : 1..Len(sent')])
         /\ Last' = n
         /\ Channel!Next
<1>1. sent[n] \in Feeds /\ handled \in Seq([feed : Feeds, n : 1..Len(sent)])
  BY DEF InOrder
<1>3. n \in Channel!Newest..Len(sent)
  BY <1>1 DEF Channel!Newest, Last
<1>. QED
  BY <1>1, <1>3 DEF Last, Channel!Next, Channel!Handle

(* Nothing is under way at first.                                           *)
LEMMA OrderInit == Init => InOrder
BY DEF Init, InOrder, PublishesIn, Last

(* Reading, dropping, swallowing, publishing and losing keep the order.     *)
LEMMA OrderStep == LinkTypes /\ LinkTypes' /\ InOrder /\ [Next]_vars => InOrder'
<1>. SUFFICES ASSUME LinkTypes, LinkTypes', InOrder, [Next]_vars
              PROVE  InOrder'
  OBVIOUS
<1>t. /\ Last \in Nat /\ body \in Nat /\ Len(sent) \in Nat /\ Last <= Len(sent)
      /\ body <= Len(sent) /\ inbox \in Seq(Packets)
  BY LastType DEF LinkTypes, InOrder
<1>u. ASSUME UNCHANGED <<sent, handled, body, inbox>> PROVE InOrder'
  BY <1>u DEF InOrder, Last, PublishesIn
<1>z. ASSUME UNCHANGED <<sent, handled>>, body' \in {body, 0}, inbox' = <<>>
      PROVE  InOrder'
  BY <1>z DEF InOrder, Last, PublishesIn
<1>c. ASSUME UNCHANGED <<sent, handled, inbox>>, body' = 0
      PROVE  InOrder'
  <2>1. Last' = Last
    BY <1>c DEF Last
  <2>2. PublishesIn(inbox, 0, Len(sent))
    BY <1>t DEF InOrder, PublishesIn
  <2>. QED
    BY <1>c, <2>1, <2>2 DEF InOrder
<1>i. ASSUME UNCHANGED <<sent, handled>>, body' \in {body, 0},
             inbox # <<>>, inbox' = Tail(inbox)
      PROVE  InOrder'
  <2>1. Last' = Last
    BY <1>i DEF Last
  <2>2. PublishesIn(Tail(inbox), Last, Len(sent)) /\ PublishesIn(Tail(inbox), body, Len(sent))
    BY <1>i, <1>t, PublishesTail DEF InOrder
  <2>3. PublishesIn(Tail(inbox), 0, Len(sent))
    BY <1>t, <2>2 DEF PublishesIn
  <2>. QED
    BY <1>i, <2>1, <2>2, <2>3, <1>t DEF InOrder
<1>a. ASSUME UNCHANGED <<sent, handled, body>>, NEW p \in Packets, p.type # "PUBLISH",
             inbox' = Append(inbox, p)
      PROVE  InOrder'
  <2>1. Last' = Last
    BY <1>a DEF Last
  <2>2. PublishesIn(inbox', Last, Len(sent)) /\ PublishesIn(inbox', body, Len(sent))
    BY <1>a, <1>t, PublishesAppend DEF InOrder
  <2>. QED
    BY <1>a, <2>1, <2>2 DEF InOrder
<1>1. CASE StatusNoNetwork \/ StatusFailed \/ StatusConnected \/ NoServer
  <2>1. UNCHANGED <<sent, handled, body, inbox>>
    BY <1>1 DEF StatusNoNetwork, StatusFailed, StatusConnected, NoServer, vars, link, client
  <2>. QED
    BY <2>1, <1>u
<1>2. CASE StartConnect
  BY <1>2, <1>z DEF StartConnect
<1>3. CASE Connack \/ Suback \/ ReadAck \/ ReadPingresp \/ Swallow
  BY <1>3, <1>i DEF Connack, Suback, ReadAck, ReadPingresp, Swallow, Waits
<1>4. CASE SubackTimeout
  BY <1>4, <1>u, <1>c DEF SubackTimeout
<1>5. CASE ConnackTimeout \/ ConnectLost \/ Run \/ PongTimeout \/ PacketsEnd
  BY <1>5, <1>u DEF ConnackTimeout, ConnectLost, Run, PongTimeout, PacketsEnd, link
<1>6. CASE DropPublish
  <2>1. /\ inbox # <<>> /\ inbox' = Tail(inbox) /\ Head(inbox).type = "PUBLISH"
        /\ body' = Head(inbox).arg /\ UNCHANGED <<sent, handled>>
    BY <1>6 DEF DropPublish, Waits
  <2>2. /\ Head(inbox).arg \in (Last + 1)..Len(sent)
        /\ PublishesIn(inbox', Last, Len(sent)) /\ PublishesIn(inbox', body', Len(sent))
    BY <1>t, <2>1, PublishesTail DEF InOrder
  <2>3. Last' = Last
    BY <2>1 DEF Last
  <2>. QED
    BY <1>t, <2>1, <2>2, <2>3 DEF InOrder
<1>7. CASE ReadPublish
  <2>1. /\ inbox # <<>> /\ inbox' = Tail(inbox) /\ Head(inbox).type = "PUBLISH"
        /\ body' = Head(inbox).arg /\ Handle(body') /\ UNCHANGED sent
    BY <1>7 DEF ReadPublish, Waits
  <2>2. /\ body' \in (Last + 1)..Len(sent)
        /\ PublishesIn(inbox', body', Len(sent))
    BY <1>t, <2>1, PublishesTail DEF InOrder
  <2>3. /\ handled' \in Seq([feed : Feeds, n : 1..Len(sent')])
        /\ Last' = body'
    <3>1. PICK n \in (Last + 1)..Len(sent) : body' = n
      BY <2>2
    <3>2. n \in 1..Len(sent) /\ Last <= n
      BY <1>t
    <3>3. handled' = Append(handled, [feed |-> sent[n], n |-> n])
      BY <2>1, <3>1 DEF Handle
    <3>. QED
      BY <2>1, <3>1, <3>2, <3>3, HandleOrder
  <2>. QED
    BY <1>t, <2>1, <2>2, <2>3 DEF InOrder
<1>8. CASE SwallowEnd
  <2>1. CASE Handle(body) /\ body # 0
    <3>1. inbox' = <<>> /\ UNCHANGED <<sent, body>>
      BY <1>8 DEF SwallowEnd, link
    <3>2. /\ handled' \in Seq([feed : Feeds, n : 1..Len(sent')])
          /\ Last' = body
      BY <1>t, <2>1, <3>1, HandleOrder DEF InOrder, Handle
    <3>. QED
      BY <1>t, <3>1, <3>2 DEF InOrder, PublishesIn
  <2>2. CASE UNCHANGED handled
    BY <1>8, <2>2, <1>u DEF SwallowEnd, link
  <2>. QED
    BY <1>8, <2>1, <2>2 DEF SwallowEnd
<1>9. CASE Publish
  <2>1. PICK f \in Feeds :
          /\ sent' = Append(sent, f)
          /\ inbox' = IF session = "live" /\ f \in subs
                        THEN Append(inbox, Packet("PUBLISH", Len(sent'))) ELSE inbox
    BY <1>9 DEF Publish
  <2>2. UNCHANGED <<body, handled>>
    BY <1>9 DEF Publish, client
  <2>3. sent' \in Seq(Feeds) /\ Len(sent') = Len(sent) + 1
    BY <2>1 DEF InOrder
  <2>4. Packet("PUBLISH", Len(sent) + 1) \in Packets
    BY <1>t, PacketTypes DEF Kinds
  <2>5. /\ PublishesIn(inbox', Last, Len(sent) + 1)
        /\ PublishesIn(inbox', body, Len(sent) + 1)
    <3>1. CASE inbox' = Append(inbox, Packet("PUBLISH", Len(sent) + 1))
      BY <1>t, <2>4, <3>1, PublishesAppend DEF InOrder
    <3>2. CASE inbox' = inbox
      BY <1>t, <3>2 DEF InOrder, PublishesIn
    <3>. QED
      BY <2>1, <2>3, <3>1, <3>2
  <2>6. handled' \in Seq([feed : Feeds, n : 1..Len(sent')])
    <3>. DEFINE S == [feed : Feeds, n : 1..Len(sent)]
                T == [feed : Feeds, n : 1..Len(sent')]
    <3>1. S \subseteq T
      BY <1>t, <2>3
    <3>2. handled \in Seq(S)
      BY DEF InOrder
    <3>. HIDE DEF S, T
    <3>3. handled \in Seq(T)
      BY <3>1, <3>2, SeqMonotone
    <3>. QED
      BY <2>2, <3>3 DEF T
  <2>7. Last' = Last
    BY <2>2 DEF Last
  <2>. QED
    BY <1>t, <2>2, <2>3, <2>5, <2>6, <2>7 DEF InOrder
<1>10. CASE BrokerAccepts \/ BrokerRefuses \/ BrokerSubscribes \/ BrokerPongs
  <2>1. UNCHANGED <<sent, handled, body>>
    BY <1>10 DEF BrokerAccepts, BrokerRefuses, BrokerSubscribes, BrokerPongs, BrokerReads,
                 client
  <2>2. PICK t \in {"CONNACK", "SUBACK", "PINGRESP"}, n \in Refusals \cup {0} :
          inbox' = Append(inbox, Packet(t, n))
    BY <1>10, Zenon DEF BrokerAccepts, BrokerRefuses, BrokerSubscribes, BrokerPongs
  <2>3. Packet(t, n) \in Packets /\ Packet(t, n).type # "PUBLISH"
    BY SessionAssumption DEF Kinds, Packet, Packets
  <2>. QED
    BY <1>a, <2>1, <2>2, <2>3
<1>11. CASE LinkDrop \/ TcpEnds
  BY <1>11, <1>z DEF LinkDrop, TcpEnds, NoConnection, client
<1>12. CASE LinkDies \/ WifiUp \/ UNCHANGED vars
  BY <1>12, <1>u DEF LinkDies, WifiUp, vars, client, link
<1>. QED
  BY <1>1, <1>2, <1>3, <1>4, <1>5, <1>6, <1>7, <1>8, <1>9, <1>10, <1>11, <1>12
  DEF Next, Status, Connecting, Running, World


-----------------------------------------------------------------------------
(* Answers to ping(). *)

(* No PINGRESP is under way at first.                                       *)
LEMMA PongsInit == Init => PongsAwaited
BY DEF Init, PongsAwaited, None, AtMostOne

(* Only a wait that timed out leaves a PINGRESP nobody waits for.           *)
LEMMA PongsStep ==
  ClientTypes /\ LinkTypes /\ PongsAwaited /\ [Next]_vars => PongsAwaited'
<1>. SUFFICES ASSUME ClientTypes, LinkTypes, PongsAwaited, [Next]_vars, ~latePong'
              PROVE  PongsAwaited'
  BY DEF PongsAwaited
<1>t. /\ inbox \in Seq(Packets) /\ outbox \in Seq(Packets)
      /\ ~tcp => outbox = <<>> /\ inbox = <<>>
      /\ sub \in Nat /\ sub + 1 \in Nat
  BY SessionAssumption DEF LinkTypes, ClientTypes, Feeds
<1>p. \A type \in Kinds, n \in Nat : Packet(type, n) \in Packets /\ Packet(type, n).type = type
  BY PacketTypes DEF Packet
<1>k. ASSUME ~latePong, pc' # "swallow", pc = "pong" <=> pc' = "pong",
             Keeps(outbox, outbox', "PINGREQ"), Keeps(inbox, inbox', "PINGRESP")
      PROVE  PongsAwaited'
  BY <1>k DEF PongsAwaited, Keeps
<1>s. ASSUME NEW n \in Nat, Send(Packet("SUBSCRIBE", n))
      PROVE  Keeps(outbox, outbox', "PINGREQ")
  <2>1. Keeps(outbox, Append(outbox, Packet("SUBSCRIBE", n)), "PINGREQ")
    BY <1>t, <1>p, KeepsAppend DEF Kinds
  <2>. QED
    BY <1>s, <2>1, KeepsSame DEF Send
<1>1. CASE StatusNoNetwork \/ StatusFailed \/ StatusConnected \/ NoServer \/ ConnackTimeout
           \/ ConnectLost \/ Run
  <2>1. UNCHANGED <<latePong, outbox, inbox>> /\ pc \notin {"pong", "swallow"}
        /\ pc' \notin {"pong", "swallow"}
    BY <1>1 DEF StatusNoNetwork, StatusFailed, StatusConnected, NoServer, ConnackTimeout,
                ConnectLost, Run, AsksBroker, Return, TimesOut, vars, link, client
  <2>. QED
    BY <1>k, <2>1, KeepsSame
<1>2. CASE StartConnect
  <2>1. /\ pc' = "connack" /\ outbox' = <<Packet("CONNECT", 0)>> /\ inbox' = <<>>
    BY <1>2 DEF StartConnect
  <2>. QED
    BY <2>1 DEF PongsAwaited, None, Packet
<1>3. CASE Connack \/ Suback \/ SubackTimeout
  <2>1. /\ UNCHANGED latePong /\ pc \notin {"pong", "swallow"} /\ pc' \notin {"pong", "swallow"}
        /\ inbox' = inbox \/ (inbox # <<>> /\ inbox' = Tail(inbox))
        /\ outbox' = outbox \/ \E n \in Nat : Send(Packet("SUBSCRIBE", n))
    <3>1. CASE Connack
      BY <3>1 DEF Connack, Return, Waits
    <3>2. CASE Suback
      BY <3>2, <1>t DEF Suback, Return, Waits
    <3>3. CASE SubackTimeout
      BY <3>3, <1>t DEF SubackTimeout, Return, TimesOut
    <3>. QED
      BY <1>3, <3>1, <3>2, <3>3
  <2>2. Keeps(outbox, outbox', "PINGREQ") /\ Keeps(inbox, inbox', "PINGRESP")
    BY <1>t, <1>s, <2>1, KeepsSame, KeepsTail
  <2>. QED
    BY <1>k, <2>1, <2>2
<1>4. CASE DropPublish \/ ReadPublish \/ ReadAck \/ Swallow
  <2>1. /\ UNCHANGED <<latePong, outbox>> /\ inbox # <<>> /\ inbox' = Tail(inbox)
        /\ pc' = "swallow" => pc = "swallow"
        /\ pc = "pong" <=> pc' = "pong"
    BY <1>4 DEF DropPublish, ReadPublish, ReadAck, Swallow, Waits, InPackets
  <2>2. Keeps(inbox, inbox', "PINGRESP")
    BY <1>t, <2>1, KeepsTail
  <2>3. ~latePong /\ pc' # "swallow"
    BY <2>1 DEF PongsAwaited
  <2>. QED
    BY <1>k, <2>1, <2>2, <2>3, KeepsSame
<1>5. CASE PacketsEnd
  <2>1. ~latePong /\ None(outbox, "PINGREQ") /\ None(inbox, "PINGRESP") /\ inbox' = inbox
    BY <1>5 DEF PacketsEnd, PongsAwaited
  <2>2. CASE outbox' = outbox /\ pc' = "loop"
    BY <2>1, <2>2 DEF PongsAwaited
  <2>3. CASE Send(Packet("PINGREQ", 0)) /\ pc' = "pong"
    <3>1. Packet("PINGREQ", 0) \in Packets
      BY <1>p DEF Kinds
    <3>2. AtMostOne(Append(outbox, Packet("PINGREQ", 0)), "PINGREQ")
      BY <1>t, <2>1, <3>1, OneAdded
    <3>3. AtMostOne(outbox', "PINGREQ")
      BY <2>1, <2>3, <3>2 DEF Send, None, AtMostOne
    <3>4. AtMostOne(inbox', "PINGRESP") /\ None(inbox', "PINGRESP")
      BY <2>1 DEF None, AtMostOne
    <3>. QED
      BY <2>3, <3>3, <3>4 DEF PongsAwaited
  <2>. QED
    BY <1>5, <2>2, <2>3 DEF PacketsEnd
<1>6. CASE ReadPingresp
  <2>1. /\ UNCHANGED <<latePong, outbox>> /\ inbox # <<>> /\ inbox' = Tail(inbox)
        /\ Head(inbox).type = "PINGRESP"
        /\ pc \in {"packets", "packets_more"} \/ (pc = "pong" /\ pc' = "swallow_pong")
    BY <1>6 DEF ReadPingresp, Waits
  <2>2. ~None(inbox, "PINGRESP")
    BY <1>t, <2>1, NotNone
  <2>3. /\ pc = "pong" /\ pc' = "swallow_pong" /\ None(outbox, "PINGREQ")
        /\ AtMostOne(inbox, "PINGRESP")
    BY <2>1, <2>2 DEF PongsAwaited
  <2>4. None(inbox', "PINGRESP")
    BY <1>t, <2>1, <2>3, OneTaken
  <2>. QED
    BY <2>1, <2>3, <2>4 DEF PongsAwaited
<1>7. CASE SwallowEnd
  <2>1. UNCHANGED <<latePong, outbox, inbox>> /\ pc = "swallow_pong" /\ pc' = "loop"
    BY <1>7 DEF SwallowEnd, PongsAwaited, link
  <2>. QED
    BY <1>k, <2>1, KeepsSame
<1>8. CASE PongTimeout
  <2>1. ~tcp /\ pc' = "loop" /\ UNCHANGED <<outbox, inbox>>
    BY <1>8 DEF PongTimeout, link
  <2>. QED
    BY <1>t, <2>1 DEF PongsAwaited, None
<1>9. CASE Publish
  <2>1. /\ UNCHANGED <<latePong, outbox, pc>>
        /\ inbox' = inbox \/ inbox' = Append(inbox, Packet("PUBLISH", Len(sent')))
    BY <1>9 DEF Publish, client
  <2>2. Keeps(inbox, inbox', "PINGRESP")
    <3>1. Len(sent') \in Nat
      BY <1>9 DEF Publish
    <3>2. PICK p \in Packets : p = Packet("PUBLISH", Len(sent')) /\ p.type = "PUBLISH"
      BY <1>p, <3>1 DEF Kinds
    <3>3. Keeps(inbox, Append(inbox, p), "PINGRESP")
      BY <1>t, <3>2, KeepsAppend
    <3>. QED
      BY <2>1, <3>2, <3>3, KeepsSame
  <2>3. ~latePong /\ pc' # "swallow"
    BY <2>1 DEF PongsAwaited
  <2>. QED
    BY <1>k, <2>1, <2>2, <2>3, KeepsSame
<1>10. CASE BrokerAccepts \/ BrokerRefuses \/ BrokerSubscribes
  <2>1. /\ UNCHANGED <<latePong, pc>>
        /\ outbox # <<>> /\ outbox' \in {Tail(outbox), <<>>}
        /\ \E type \in {"CONNACK", "SUBACK"}, n \in Refusals \cup {0} :
             inbox' = Append(inbox, Packet(type, n))
    BY <1>10, Zenon DEF BrokerAccepts, BrokerRefuses, BrokerSubscribes, BrokerReads, client
  <2>2. Keeps(outbox, outbox', "PINGREQ")
    BY <1>t, <2>1, KeepsTail, KeepsEmpty
  <2>3. Keeps(inbox, inbox', "PINGRESP")
    <3>1. PICK type \in {"CONNACK", "SUBACK"}, n \in Nat : inbox' = Append(inbox, Packet(type, n))
      BY <2>1, SessionAssumption
    <3>2. PICK p \in Packets : p = Packet(type, n) /\ p.type = type
      BY <1>p DEF Kinds
    <3>3. Keeps(inbox, Append(inbox, p), "PINGRESP")
      BY <1>t, <3>2, KeepsAppend
    <3>. QED
      BY <3>1, <3>2, <3>3
  <2>4. ~latePong /\ pc' # "swallow"
    BY <2>1 DEF PongsAwaited
  <2>. QED
    BY <1>k, <2>1, <2>2, <2>3, <2>4
<1>11. CASE BrokerPongs
  <2>1. /\ UNCHANGED <<latePong, pc>>
        /\ outbox # <<>> /\ Head(outbox).type = "PINGREQ" /\ outbox' = Tail(outbox)
        /\ inbox' = Append(inbox, Packet("PINGRESP", 0))
    BY <1>11 DEF BrokerPongs, BrokerReads, client
  <2>2. ~None(outbox, "PINGREQ")
    BY <1>t, <2>1, NotNone
  <2>3. pc = "pong" /\ None(inbox, "PINGRESP") /\ AtMostOne(outbox, "PINGREQ")
    BY <2>1, <2>2 DEF PongsAwaited
  <2>4. None(outbox', "PINGREQ")
    BY <1>t, <2>1, <2>3, OneTaken
  <2>5. AtMostOne(outbox', "PINGREQ")
    BY <1>t, <2>1, <2>3, KeepsTail DEF Keeps
  <2>6. AtMostOne(inbox', "PINGRESP")
    BY <1>t, <1>p, <2>1, <2>3, OneAdded DEF Kinds
  <2>. QED
    BY <2>1, <2>3, <2>4, <2>5, <2>6 DEF PongsAwaited
<1>12. CASE LinkDrop \/ LinkDies \/ TcpEnds \/ WifiUp \/ UNCHANGED vars
  <2>1. UNCHANGED <<latePong, pc>> /\ outbox' \in {outbox, <<>>} /\ inbox' \in {inbox, <<>>}
    BY <1>12 DEF LinkDrop, LinkDies, TcpEnds, WifiUp, NoConnection, vars, client, link
  <2>2. ~latePong /\ pc' # "swallow"
    BY <2>1 DEF PongsAwaited
  <2>. QED
    BY <1>k, <2>1, <2>2, KeepsSame, KeepsEmpty
<1>. QED
  BY <1>1, <1>2, <1>3, <1>4, <1>5, <1>6, <1>7, <1>8, <1>9, <1>10, <1>11, <1>12
  DEF Next, Status, Connecting, Running, World

-----------------------------------------------------------------------------
(* Messages handled once. *)

(* Nothing is handled at first.                                             *)
LEMMA HandledInit == Init => HandledInOrder
BY DEF Init, HandledInOrder

(* The publish in front is newer than the one handled last; the one in the  *)
(* buffer is handled only after a PINGRESP was late.                        *)
LEMMA HandledStep ==
  LinkTypes /\ InOrder /\ PongsAwaited /\ HandledInOrder /\ [Next]_vars => HandledInOrder'
<1>. SUFFICES ASSUME LinkTypes, InOrder, PongsAwaited, HandledInOrder, [Next]_vars, ~latePong'
              PROVE  HandledInOrder'
  BY DEF HandledInOrder
<1>u. ASSUME UNCHANGED handled, ~latePong PROVE HandledInOrder'
  BY <1>u DEF HandledInOrder
<1>1. CASE ReadPublish
  <2>1. /\ inbox # <<>> /\ Head(inbox).type = "PUBLISH" /\ UNCHANGED latePong
        /\ handled' = Append(handled, [feed |-> sent[Head(inbox).arg], n |-> Head(inbox).arg])
    BY <1>1 DEF ReadPublish, Waits, Handle
  <2>2. inbox \in Seq(Packets) /\ handled \in Seq([feed : Feeds, n : 1..Len(sent)])
        /\ Last \in Nat /\ Len(sent) \in Nat
    BY LastType DEF LinkTypes, InOrder
  <2>3. Head(inbox).arg \in (Last + 1)..Len(sent)
    BY <2>1, <2>2, PublishesTail DEF InOrder
  <2>e. /\ DOMAIN handled = 1..Len(handled) /\ Len(handled) \in Nat
        /\ \A j \in DOMAIN handled : handled[j] \in [feed : Feeds, n : 1..Len(sent)]
    <3>. DEFINE T == [feed : Feeds, n : 1..Len(sent)]
    <3>1. handled \in Seq(T)
      BY <2>2
    <3>. HIDE DEF T
    <3>2. DOMAIN handled = 1..Len(handled) /\ \A j \in DOMAIN handled : handled[j] \in T
      BY <3>1, Elements
    <3>. QED
      BY <3>1, <3>2 DEF T
  <2>7. \A j \in DOMAIN handled : handled[j].n \in Nat
    BY <2>2, <2>e
  <2>4. ASSUME NEW j \in DOMAIN handled PROVE handled[j].n <= Last
    <3>1. Last = handled[Len(handled)].n /\ Len(handled) \in DOMAIN handled
      BY <2>e DEF Last
    <3>2. j = Len(handled) \/ j < Len(handled)
      BY <2>e
    <3>3. j < Len(handled) => handled[j].n < handled[Len(handled)].n
      BY <2>1, <3>1 DEF HandledInOrder
    <3>. QED
      BY <2>2, <2>7, <3>1, <3>2, <3>3
  <2>5. PICK n \in Nat : n = Head(inbox).arg /\ Last < n
    BY <2>2, <2>3
  <2>6. /\ \A j \in DOMAIN handled' : j \in DOMAIN handled \/ j = Len(handled) + 1
        /\ \A j \in DOMAIN handled : handled'[j] = handled[j] /\ j < Len(handled) + 1
        /\ handled'[Len(handled) + 1].n = n
    BY <2>1, <2>2, <2>5
  <2>8. ASSUME ~latePong, NEW j \in DOMAIN handled', NEW k \in DOMAIN handled', j < k
        PROVE  handled'[j].n < handled'[k].n
    <3>1. CASE k \in DOMAIN handled
      <4>1. j \in DOMAIN handled
        BY <2>e, <2>6, <2>8, <3>1
      <4>. QED
        BY <2>6, <2>8, <3>1, <4>1 DEF HandledInOrder
    <3>2. CASE k = Len(handled) + 1
      <4>1. j \in DOMAIN handled
        BY <2>6, <2>8, <3>2
      <4>2. handled'[j].n \in Nat /\ handled'[j].n <= Last
        BY <2>4, <2>6, <2>7, <4>1
      <4>. QED
        BY <2>2, <2>5, <2>6, <3>2, <4>2
    <3>. QED
      BY <2>6, <2>8, <3>1, <3>2
  <2>. QED
    BY <2>1, <2>8 DEF HandledInOrder
<1>2. CASE SwallowEnd
  <2>1. ~latePong
    BY <1>2 DEF SwallowEnd
  <2>. QED
    BY <1>2, <1>u, <2>1 DEF SwallowEnd, PongsAwaited
<1>3. CASE PongTimeout
  BY <1>3, <1>u DEF PongTimeout
<1>4. CASE Status
  BY <1>4, <1>u DEF Status, StatusNoNetwork, StatusFailed, StatusConnected, NoServer,
                    StartConnect, vars
<1>5. CASE Connecting
  BY <1>5, <1>u DEF Connecting, Connack, ConnackTimeout, Suback, SubackTimeout, ConnectLost,
                    DropPublish
<1>6. CASE Run \/ ReadAck \/ PacketsEnd \/ ReadPingresp \/ Swallow
  BY <1>6, <1>u DEF Run, ReadAck, PacketsEnd, ReadPingresp, Swallow
<1>7. CASE World \/ UNCHANGED vars
  <2>1. UNCHANGED <<handled, latePong>>
    BY <1>7 DEF World, Publish, BrokerAccepts, BrokerRefuses, BrokerSubscribes,
                BrokerPongs, BrokerReads, LinkDrop, LinkDies, TcpEnds, WifiUp, vars
  <2>. QED
    BY <1>u, <2>1
<1>. QED
  BY <1>1, <1>2, <1>3, <1>4, <1>5, <1>6, <1>7 DEF Next, Running

-----------------------------------------------------------------------------
(* The subscriptions are set up. *)

(* At first there is no session.                                            *)
LEMMA SetUpInit == Init => SetUp
BY DEF Init, SetUp, None

(* connect() goes on to the next subscription when the one waited for is there. *)
LEMMA SetUpStep ==
  ClientTypes /\ LinkTypes /\ SetUp /\ [Next]_vars => SetUp'
<1>. SUFFICES ASSUME ClientTypes, LinkTypes, SetUp, [Next]_vars
              PROVE  SetUp'
  OBVIOUS
<1>t. /\ inbox \in Seq(Packets) /\ outbox \in Seq(Packets)
      /\ ~tcp => session = "none" /\ outbox = <<>> /\ inbox = <<>>
      /\ sub \in 1..NSubs /\ NSubs \in Nat /\ subs \subseteq Feeds
  BY SessionAssumption DEF LinkTypes, ClientTypes, Feeds
<1>p. \A type \in Kinds, n \in Nat : Packet(type, n) \in Packets /\ Packet(type, n).type = type
  BY PacketTypes DEF Packet
<1>u. ASSUME UNCHANGED <<pc, sub, slow, session, subs, outbox, inbox>> PROVE SetUp'
  BY <1>u DEF SetUp
<1>s. ASSUME slow' PROVE SetUp'
  BY <1>s DEF SetUp
<1>d. ASSUME session' # "live", outbox' = <<>> PROVE SetUp'
  BY <1>d DEF SetUp, None
(* Outside connect(). *)
<1>r. ASSUME UNCHANGED <<slow, session, subs>>, pc \notin {"connack", "suback"},
             pc' \notin {"connack", "suback"}, Keeps(outbox, outbox', "CONNECT")
      PROVE  SetUp'
  BY <1>r DEF SetUp, Keeps
<1>1. CASE StatusNoNetwork \/ StatusFailed \/ StatusConnected \/ NoServer \/ Run
  <2>1. /\ UNCHANGED <<slow, session, subs, outbox>>
        /\ pc \notin {"connack", "suback"} /\ pc' \notin {"connack", "suback"}
    BY <1>1 DEF StatusNoNetwork, StatusFailed, StatusConnected, NoServer, Run, AsksBroker,
                Return, vars, link, client
  <2>. QED
    BY <1>r, <2>1, KeepsSame
<1>2. CASE StartConnect
  BY <1>2 DEF StartConnect, SetUp
<1>3. CASE Connack
  <2>1. /\ pc = "connack" /\ inbox # <<>> /\ Head(inbox).type = "CONNACK"
        /\ inbox' = Tail(inbox) /\ UNCHANGED <<slow, session, subs>>
    BY <1>3 DEF Connack, Waits
  <2>. SUFFICES ASSUME ~slow PROVE SetUp'
    BY <1>s, <2>1
  <2>2. outbox = <<>>
    BY <2>1 DEF SetUp
  <2>3. session = "live" => None(inbox, "SUBACK") /\ Head(inbox).arg = 0
    BY <1>t, <2>1, TailPlaces DEF SetUp
  <2>4. CASE Head(inbox).arg = 0
    <3>1. /\ pc' = "suback" /\ sub' = 1
          /\ outbox' = IF session = "dead" THEN <<>> ELSE <<Packet("SUBSCRIBE", 1)>>
      BY <1>3, <2>2, <2>4 DEF Connack, Send
    <3>2. None(outbox', "CONNECT")
      BY <3>1 DEF None, Packet
    <3>3. session = "live" => None(inbox', "SUBACK")
      BY <1>t, <2>1, <2>3, KeepsTail DEF Keeps
    <3>. QED
      BY <2>1, <3>1, <3>2, <3>3 DEF SetUp
  <2>5. CASE Head(inbox).arg # 0
    BY <1>3, <1>d, <2>1, <2>2, <2>3, <2>5 DEF Connack
  <2>. QED
    BY <2>4, <2>5
<1>4. CASE ConnackTimeout \/ SubackTimeout
  BY <1>4, <1>s DEF ConnackTimeout, SubackTimeout
<1>5. CASE Suback
  <2>1. /\ pc = "suback" /\ inbox # <<>> /\ Head(inbox).type = "SUBACK"
        /\ inbox' = Tail(inbox) /\ UNCHANGED <<slow, session, subs>>
    BY <1>5 DEF Suback, Waits
  <2>. SUFFICES ASSUME ~slow PROVE SetUp'
    BY <1>s, <2>1
  <2>2. None(outbox, "CONNECT")
    BY <2>1 DEF SetUp
  <2>3. ~None(inbox, "SUBACK")
    BY <1>t, <2>1, NotNone
  <2>4. session = "live" =>
          /\ 1..(sub - 1) \subseteq subs /\ sub \in subs /\ outbox = <<>>
          /\ AtMostOne(inbox, "SUBACK")
    BY <2>1, <2>3 DEF SetUp
  <2>5. session = "live" => None(inbox', "SUBACK")
    BY <1>t, <2>1, <2>4, OneTaken
  <2>6. CASE sub < NSubs
    <3>1. /\ pc' = "suback" /\ sub' = sub + 1
          /\ outbox' = IF session = "dead" THEN outbox
                       ELSE Append(outbox, Packet("SUBSCRIBE", sub + 1))
      BY <1>5, <2>1, <2>6 DEF Suback, Send
    <3>2. None(outbox', "CONNECT")
      <4>1. PICK p \in Packets : p = Packet("SUBSCRIBE", sub + 1) /\ p.type = "SUBSCRIBE"
        BY <1>t, <1>p DEF Kinds
      <4>2. Keeps(outbox, Append(outbox, p), "CONNECT")
        BY <1>t, <4>1, KeepsAppend
      <4>. QED
        BY <2>2, <3>1, <4>1, <4>2 DEF Keeps
    <3>3. session = "live" =>
            1..(sub' - 1) \subseteq subs' /\ outbox' = <<Packet("SUBSCRIBE", sub')>>
      BY <1>t, <2>1, <2>4, <3>1
    <3>. QED
      BY <2>1, <2>5, <3>1, <3>2, <3>3 DEF SetUp
  <2>7. CASE ~(sub < NSubs)
    <3>1. pc' \in {"status", "loop", "packets"} /\ outbox' = outbox
      BY <1>5, <2>7 DEF Suback, Return
    <3>2. session = "live" => subs = Feeds
      <4>1. sub = NSubs /\ \A f \in 1..NSubs : f \in 1..(sub - 1) \/ f = sub
        BY <1>t, <2>7
      <4>. QED
        BY <1>t, <2>4, <4>1 DEF Feeds
    <3>. QED
      BY <2>1, <2>2, <3>1, <3>2 DEF SetUp
  <2>. QED
    BY <2>6, <2>7
<1>6. CASE ConnectLost
  BY <1>6, <1>d, <1>t DEF ConnectLost, link
<1>7. CASE DropPublish
  <2>1. /\ pc \in {"suback", "pong"} /\ inbox # <<>> /\ inbox' = Tail(inbox)
        /\ UNCHANGED <<pc, sub, slow, session, subs, outbox>>
    BY <1>7 DEF DropPublish, Waits
  <2>2. Keeps(inbox, inbox', "SUBACK")
    BY <1>t, <2>1, KeepsTail
  <2>. QED
    BY <2>1, <2>2 DEF SetUp, Keeps
<1>8. CASE ReadPublish \/ ReadAck \/ ReadPingresp \/ Swallow \/ SwallowEnd \/ PongTimeout
  <2>1. /\ UNCHANGED <<slow, session, subs, outbox>>
        /\ pc \notin {"connack", "suback"} /\ pc' \notin {"connack", "suback"}
    BY <1>8 DEF ReadPublish, ReadAck, ReadPingresp, Swallow, SwallowEnd, PongTimeout, Waits,
                InPackets, link
  <2>. QED
    BY <1>r, <2>1, KeepsSame
<1>9. CASE PacketsEnd
  <2>1. /\ UNCHANGED <<slow, session, subs>>
        /\ pc \notin {"connack", "suback"} /\ pc' \notin {"connack", "suback"}
        /\ outbox' = outbox \/ outbox' = Append(outbox, Packet("PINGREQ", 0))
    BY <1>9 DEF PacketsEnd, Send
  <2>2. PICK p \in Packets : p = Packet("PINGREQ", 0) /\ p.type = "PINGREQ"
    BY <1>p DEF Kinds
  <2>3. Keeps(outbox, outbox', "CONNECT")
    BY <1>t, <2>1, <2>2, KeepsSame, KeepsAppend
  <2>. QED
    BY <1>r, <2>1, <2>3
<1>10. CASE Publish
  <2>1. /\ UNCHANGED <<pc, sub, slow, session, subs, outbox>>
        /\ \/ inbox' = inbox
           \/ session = "live" /\ inbox' = Append(inbox, Packet("PUBLISH", Len(sent')))
    BY <1>10 DEF Publish, client
  <2>2. Len(sent') \in Nat
    BY <1>10 DEF Publish
  <2>3. PICK p \in Packets : p = Packet("PUBLISH", Len(sent')) /\ p.type = "PUBLISH"
    BY <1>p, <2>2 DEF Kinds
  <2>4. Keeps(inbox, Append(inbox, p), "SUBACK")
    BY <1>t, <2>3, KeepsAppend
  <2>5. \A k \in DOMAIN Append(inbox, p) : Append(inbox, p)[k].type = "CONNACK" =>
          \E j \in DOMAIN inbox : inbox[j] = Append(inbox, p)[k]
    BY <1>t, <2>3, AppendPlaces
  <2>6. CASE session = "live" /\ inbox' = Append(inbox, p)
    BY <2>1, <2>4, <2>5, <2>6 DEF SetUp, Keeps
  <2>. QED
    BY <1>u, <2>1, <2>3, <2>6
<1>11. CASE BrokerAccepts
  <2>1. /\ outbox # <<>> /\ Head(outbox).type = "CONNECT" /\ outbox' = Tail(outbox)
        /\ session' = "live" /\ inbox' = Append(inbox, Packet("CONNACK", 0))
        /\ UNCHANGED <<pc, slow>>
    BY <1>11 DEF BrokerAccepts, BrokerReads, client
  <2>. SUFFICES ASSUME ~slow PROVE SetUp'
    BY <1>s, <2>1
  <2>2. ~None(outbox, "CONNECT")
    BY <1>t, <2>1, NotNone
  <2>3. pc = "connack" /\ outbox = <<Packet("CONNECT", 0)>> /\ inbox = <<>>
    BY <2>1, <2>2 DEF SetUp
  <2>4. outbox' = <<>> /\ inbox' = <<Packet("CONNACK", 0)>>
    BY <2>1, <2>3
  <2>. QED
    BY <2>1, <2>3, <2>4 DEF SetUp, None, Packet
<1>12. CASE BrokerRefuses \/ LinkDrop \/ TcpEnds
  <2>1. session' # "live" /\ outbox' = <<>>
    BY <1>12 DEF BrokerRefuses, LinkDrop, TcpEnds, NoConnection
  <2>. QED
    BY <1>d, <2>1
<1>13. CASE LinkDies
  <2>1. session' # "live" /\ outbox' = <<>>
    BY <1>13, <1>t DEF LinkDies
  <2>. QED
    BY <1>d, <2>1
<1>14. CASE BrokerSubscribes
  <2>1. /\ outbox # <<>> /\ Head(outbox).type = "SUBSCRIBE" /\ outbox' = Tail(outbox)
        /\ subs' = subs \cup {Head(outbox).arg} /\ session = "live"
        /\ inbox' = Append(inbox, Packet("SUBACK", 0))
        /\ UNCHANGED <<pc, sub, slow, session>>
    BY <1>14 DEF BrokerSubscribes, BrokerReads, client
  <2>. SUFFICES ASSUME ~slow PROVE SetUp'
    BY <1>s, <2>1
  <2>2. Head(outbox).arg \in Feeds /\ subs' \subseteq Feeds
    BY <1>t, <2>1, TailPlaces DEF LinkTypes
  <2>3. pc # "connack"
    BY <2>1 DEF SetUp, Packet
  <2>4. None(outbox', "CONNECT")
    BY <1>t, <2>1, <2>3, KeepsTail DEF SetUp, Keeps
  <2>5. CASE pc = "suback"
    <3>1. outbox = <<Packet("SUBSCRIBE", sub)>> /\ None(inbox, "SUBACK")
          /\ 1..(sub - 1) \subseteq subs
      BY <2>1, <2>5 DEF SetUp
    <3>2. outbox' = <<>> /\ sub \in subs'
      BY <2>1, <3>1 DEF Packet
    <3>3. AtMostOne(inbox', "SUBACK")
      BY <1>t, <1>p, <2>1, <3>1, OneAdded DEF Kinds
    <3>. QED
      BY <2>1, <2>4, <2>5, <3>1, <3>2, <3>3 DEF SetUp
  <2>6. CASE pc # "suback"
    BY <2>1, <2>2, <2>3, <2>4, <2>6 DEF SetUp
  <2>. QED
    BY <2>5, <2>6
<1>15. CASE BrokerPongs
  <2>1. /\ outbox # <<>> /\ Head(outbox).type = "PINGREQ" /\ outbox' = Tail(outbox)
        /\ session = "live" /\ UNCHANGED <<pc, slow, session, subs>>
    BY <1>15 DEF BrokerPongs, BrokerReads, client
  <2>. SUFFICES ASSUME ~slow PROVE SetUp'
    BY <1>s, <2>1
  <2>2. pc \notin {"connack", "suback"}
    BY <2>1 DEF SetUp, Packet
  <2>. QED
    BY <1>r, <1>t, <2>1, <2>2, KeepsTail
<1>16. CASE WifiUp \/ UNCHANGED vars
  BY <1>16, <1>u DEF WifiUp, vars, client, link
<1>. QED
  BY <1>1, <1>2, <1>3, <1>4, <1>5, <1>6, <1>7, <1>8, <1>9, <1>10, <1>11, <1>12, <1>13,
     <1>14, <1>15, <1>16
  DEF Next, Status, Connecting, Running, World

-----------------------------------------------------------------------------
(* Theorems. *)

(* Init and every action of the client, the broker and the network keep Inv, *)
(* for any number of feeds, messages and pings.                              *)
THEOREM Invariance == Spec => []Inv
<1>1. Init => Inv
  BY ClientInit, LinkInit, OrderInit, SetUpInit, PongsInit, HandledInit DEF Inv
<1>2. Inv /\ [Next]_vars => Inv'
  BY ClientStep, LinkStep, OrderStep, SetUpStep, PongsStep, HandledStep DEF Inv
<1>. QED
  BY <1>1, <1>2, PTL DEF Spec

(* The session's state keeps its types: the handlers are only called with   *)
(* feeds and messages there are, and connect() stays within its loops.      *)
THEOREM TypeCorrect == Spec => []TypeOK
<1>1. Inv => TypeOK
  BY DEF Inv, ClientTypes, LinkTypes, InOrder, TypeOK
<1>. QED
  BY <1>1, Invariance, PTL

(* A connect() in which no wait timed out leaves a session with all feeds   *)
(* subscribed when processPackets() reads from it.                          *)
THEOREM PromptSubscribed == Spec => []PromptMeansSubscribed
<1>1. Inv => PromptMeansSubscribed
  BY DEF Inv, SetUp, PromptMeansSubscribed, InPackets
<1>. QED
  BY <1>1, Invariance, PTL

(* Without a late PINGRESP no message is handled twice.                     *)
THEOREM OnceHandled == Spec => []HandledOnce
<1>1. Inv => HandledOnce
  <2>. SUFFICES ASSUME Inv, ~latePong, NEW i \in DOMAIN handled, NEW j \in DOMAIN handled,
                       handled[i].n = handled[j].n
                PROVE  i = j
    BY DEF HandledOnce
  <2>. DEFINE T == [feed : Feeds, n : 1..Len(sent)]
  <2>1. handled \in Seq(T)
    BY DEF Inv, InOrder
  <2>. HIDE DEF T
  <2>2. i \in Nat /\ j \in Nat /\ handled[i] \in T /\ handled[j] \in T
    BY <2>1, Elements
  <2>3. handled[i].n \in Nat /\ handled[j].n \in Nat
    BY <2>2 DEF T
  <2>4. (i < j => handled[i].n < handled[j].n) /\ (j < i => handled[j].n < handled[i].n)
    BY DEF Inv, HandledInOrder
  <2>. QED
    BY <2>2, <2>3, <2>4
<1>. QED
  BY <1>1, Invariance, PTL

(* A step of the session is one of FeedChannel or leaves its variables alone. *)
LEMMA ChannelStep == Inv /\ [Next]_vars => [Channel!Next]_<<sent, handled>>
<1>. SUFFICES ASSUME Inv, [Next]_vars PROVE [Channel!Next]_<<sent, handled>>
  OBVIOUS
<1>t. /\ InOrder /\ inbox \in Seq(Packets) /\ Last \in 0..Len(sent) /\ Len(sent) \in Nat
      /\ body \in 0..Len(sent)
  BY LastType DEF Inv, LinkTypes, InOrder
<1>1. CASE ReadPublish
  <2>1. /\ inbox # <<>> /\ Head(inbox).type = "PUBLISH" /\ UNCHANGED sent
        /\ handled' = Append(handled, [feed |-> sent[Head(inbox).arg], n |-> Head(inbox).arg])
    BY <1>1 DEF ReadPublish, Waits, Handle
  <2>2. Head(inbox).arg \in (Last + 1)..Len(sent)
    BY <1>t, <2>1, PublishesTail DEF InOrder
  <2>3. PICK n \in 1..Len(sent) : n = Head(inbox).arg /\ Last <= n
    BY <1>t, <2>2
  <2>. QED
    BY <1>t, <2>1, <2>3, HandleOrder
<1>2. CASE SwallowEnd
  <2>1. CASE body # 0 /\ Handle(body)
    <3>1. UNCHANGED sent /\ handled' = Append(handled, [feed |-> sent[body], n |-> body])
      BY <1>2, <2>1 DEF SwallowEnd, Handle
    <3>2. PICK n \in 1..Len(sent) : n = body /\ Last <= n
      BY <1>t, <2>1 DEF InOrder
    <3>. QED
      BY <1>t, <3>1, <3>2, HandleOrder
  <2>2. CASE UNCHANGED handled
    BY <1>2, <2>2 DEF SwallowEnd
  <2>. QED
    BY <1>2, <2>1, <2>2 DEF SwallowEnd
<1>3. CASE Publish
  BY <1>3 DEF Publish, Channel!Next, Channel!Publish
<1>4. CASE Status
  BY <1>4 DEF Status, StatusNoNetwork, StatusFailed, StatusConnected, NoServer,
              StartConnect, vars
<1>5. CASE Connecting
  BY <1>5 DEF Connecting, Connack, ConnackTimeout, Suback, SubackTimeout, ConnectLost,
              DropPublish
<1>6. CASE Run \/ ReadAck \/ PacketsEnd \/ ReadPingresp \/ Swallow \/ PongTimeout
  BY <1>6 DEF Run, ReadAck, PacketsEnd, ReadPingresp, Swallow, PongTimeout
<1>7. CASE BrokerAccepts \/ BrokerRefuses \/ BrokerSubscribes \/ BrokerPongs \/ LinkDrop
           \/ LinkDies \/ TcpEnds \/ WifiUp \/ UNCHANGED vars
  BY <1>7 DEF BrokerAccepts, BrokerRefuses, BrokerSubscribes, BrokerPongs, BrokerReads,
              LinkDrop, LinkDies, TcpEnds, WifiUp, vars
<1>. QED
  BY <1>1, <1>2, <1>3, <1>4, <1>5, <1>6, <1>7 DEF Next, Running, World

(* The session implements FeedChannel: what the handlers see are published  *)
(* messages in the order they were published, through every fault.          *)
THEOREM Refinement == Spec => ChannelSpec
<1>1. Init => Channel!Init
  BY DEF Init, Channel!Init
<1>2. Inv /\ [Next]_vars => [Channel!Next]_Channel!vars
  BY ChannelStep DEF Channel!vars
<1>. QED
  BY <1>1, <1>2, Invariance, PTL DEF Spec, ChannelSpec, Channel!Spec
=============================================================================
