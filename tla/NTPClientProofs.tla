-------------------------- MODULE NTPClientProofs --------------------------
(***************************************************************************)
(* What NTPClient keeps for every timeout, update interval, second, wrap    *)
(* of millis() and number of late replies.                                  *)
(***************************************************************************)
EXTENDS NTPClient, WrapLemmas

(* Each request is answered once, and not any more once its reply is on the *)
(* way or taken off the network.                                            *)
AnsweredOnce ==
  /\ \A r \in net : r.req \notin pending
  /\ \A r, s \in net : r.req = s.req => r = s

(* The request sent last has had its reply, or lost it.                     *)
AllAnswered == sends \notin pending /\ \A r \in net : r.req # sends

(* What is in the socket came late, but for one reply to the request that   *)
(* is waited for.                                                           *)
Counted ==
  \/ Len(rx) <= late
  \/ pc = "poll" /\ Len(rx) = late + 1 /\ AllAnswered

Seconds(t) == t \div Sec

(* No stamp is from the future; with no late reply, the stamps for the      *)
(* request that is waited for are not from before it.                       *)
Stamped ==
  /\ \A r \in net : r.stamp <= Epoch + Seconds(now)
  /\ \A k \in DOMAIN rx : rx[k] <= Epoch + Seconds(now)
  /\ pc = "poll" =>
       /\ \A r \in net : r.req = sends => Epoch + Seconds(now - timeout) <= r.stamp
       /\ late = 0 => \A k \in DOMAIN rx : Epoch + Seconds(now - timeout) <= rx[k]

(* The last reply was taken off w ticks of waiting, one more than there     *)
(* were.                                                                    *)
TakenAfter(w) ==
  /\ lastUpdate = (syncedAt - w) % Wrap
  /\ currentEpoc <= Epoch + Seconds(syncedAt)
  /\ late = 0 => Epoch + Seconds(syncedAt - w + 1) <= currentEpoc

(* Since the first reply the clock runs from one taken that way.            *)
Synced ==
  syncedAt >= 0 => syncedAt <= now /\ \E w \in 1..(MaxPolls + 2) : TakenAfter(w)

Inv == TypeOK /\ AnsweredOnce /\ Counted /\ Stamped /\ Synced

-----------------------------------------------------------------------------
(* Types. *)

(* The initial values are of their types.                                   *)
LEMMA TypeInit == Init => TypeOK
<1>. SUFFICES ASSUME Init PROVE TypeOK
  OBVIOUS
<1>1. 0 \in 0..(Wrap - 1) /\ 0 \in 0..(MaxPolls + 1) /\ 0 \in 0..MaxLate
  BY TimeAssumption
<1>. QED
  BY <1>1 DEF Init, TypeOK

(* Whole seconds of a time are a number, ...                                *)
LEMMA SecondsType == \A t \in Nat : Seconds(t) \in Nat
BY TimeAssumption DEF Seconds

(* ... and grow with it.                                                    *)
LEMMA SecondsGrow == \A s, t \in Int : s <= t => Seconds(s) <= Seconds(t)
BY DivMonotone, TimeAssumption DEF Seconds

(* The server's clock, with the abbreviation.                               *)
LEMMA TrueTimeIs == TrueTime = Epoch + Seconds(now)
BY DEF TrueTime, Seconds

(* Every action leaves the variables within their types.                    *)
LEMMA TypeStep == TypeOK /\ [Next]_vars => TypeOK'
<1>. SUFFICES ASSUME TypeOK, [Next]_vars PROVE TypeOK'
  OBVIOUS
<1>. USE DEF TypeOK
<1>1. CASE Update
  <2>1. sends' = sends + 1 /\ sends' \in Nat /\ 1..sends \subseteq 1..sends'
    BY <1>1 DEF Update
  <2>2. pending' \subseteq 1..sends'
    BY <1>1, <2>1 DEF Update
  <2>3. net' \subseteq [req : 1..sends', stamp : Nat]
    BY <1>1, <2>1 DEF Update
  <2>4. timeout' \in 0..(MaxPolls + 1)
    BY <1>1, TimeAssumption DEF Update
  <2>. QED
    BY <1>1, <2>1, <2>2, <2>3, <2>4 DEF Update
<1>2. CASE PollEmpty
  BY <1>2, TimeAssumption DEF PollEmpty, Poll
<1>s. Settle => pending' \subseteq pending /\ net' \subseteq net
  BY DEF Settle
<1>3. CASE PollReply
  <2>1. /\ rx # <<>> /\ rx' = Tail(rx) /\ currentEpoc' = Head(rx)
        /\ pc' = "idle" /\ now' = now + 1 /\ syncedAt' = now' /\ timeout' = timeout + 1
        /\ timeout <= MaxPolls /\ UNCHANGED <<sends, late>>
    BY <1>3 DEF PollReply, Poll
  <2>2. rx' \in Seq(Nat) /\ currentEpoc' \in Nat
    BY <2>1
  <2>3. timeout' \in 0..(MaxPolls + 1) /\ now' \in Nat
    BY <2>1, TimeAssumption
  <2>4. millis' - (timeout' + 1) \in Int
    <3>1. now' % Wrap \in Int
      BY <2>3, ModDiv, TimeAssumption
    <3>. QED
      BY <2>3, <3>1 DEF millis
  <2>5. lastUpdate' \in 0..(Wrap - 1)
    <3>1. PICK x \in Int : x = millis' - (timeout' + 1)
      BY <2>4
    <3>2. lastUpdate' = x % Wrap
      BY <1>3, <3>1 DEF PollReply
    <3>. QED
      BY <3>2, ModDiv, TimeAssumption
  <2>6. pending' \subseteq 1..sends' /\ net' \subseteq [req : 1..sends', stamp : Nat]
    BY <1>3, <1>s, <2>1 DEF PollReply
  <2>. QED
    BY <2>1, <2>2, <2>3, <2>5, <2>6
<1>4. CASE PollTimeout
  <2>1. rx' \in Seq(Nat)
    BY <1>4 DEF PollTimeout
  <2>2. now' \in Nat
    BY <1>4 DEF PollTimeout, Poll
  <2>3. pending' \subseteq 1..sends' /\ net' \subseteq [req : 1..sends', stamp : Nat]
    BY <1>4, <1>s DEF PollTimeout, Poll
  <2>. QED
    BY <1>4, <2>1, <2>2, <2>3 DEF PollTimeout, Poll
<1>5. CASE ServerReply
  <2>1. PICK r \in pending : /\ net' = net \cup {[req |-> r, stamp |-> TrueTime]}
                             /\ pending' = pending \ {r}
    BY <1>5 DEF ServerReply
  <2>2. TrueTime \in Nat
    <3>1. Seconds(now) \in Nat
      BY SecondsType, Zenon
    <3>. QED
      BY <3>1, TrueTimeIs, TimeAssumption
  <2>3. [req |-> r, stamp |-> TrueTime] \in [req : 1..sends, stamp : Nat]
    BY <2>2
  <2>. QED
    BY <1>5, <2>1, <2>3 DEF ServerReply, client
<1>6. CASE Deliver
  <2>1. PICK r \in net : /\ late' = IF Timely(r) THEN late ELSE late + 1
                         /\ late' <= MaxLate
                         /\ rx' = Append(rx, r.stamp) /\ net' = net \ {r}
    BY <1>6 DEF Deliver
  <2>2. r.stamp \in Nat
    BY <2>1
  <2>3. rx' \in Seq(Nat)
    BY <2>1, <2>2
  <2>4. late' \in 0..MaxLate
    BY <2>1, TimeAssumption
  <2>. QED
    BY <1>6, <2>1, <2>3, <2>4 DEF Deliver, client
<1>7. CASE DeliverAgain
  <2>1. PICK r \in net : rx' = Append(rx, r.stamp)
    BY <1>7 DEF DeliverAgain
  <2>2. r.stamp \in Nat
    BY <2>1
  <2>3. rx' \in Seq(Nat)
    BY <2>1, <2>2
  <2>4. late' \in 0..MaxLate
    BY <1>7, TimeAssumption DEF DeliverAgain
  <2>. QED
    BY <1>7, <2>3, <2>4 DEF DeliverAgain, client
<1>8. CASE TimePasses
  BY <1>8 DEF TimePasses, client
<1>9. CASE EndOfTime \/ UNCHANGED vars
  BY <1>9 DEF EndOfTime, vars, client
<1>. QED
  BY <1>1, <1>2, <1>3, <1>4, <1>5, <1>6, <1>7, <1>8, <1>9 DEF Next, Client, Network

(* The parts of a reply and of the queue.                                   *)
LEMMA Parts ==
  ASSUME TypeOK
  PROVE  /\ \A r \in net : r.req \in 1..sends /\ r.stamp \in Nat
         /\ \A k \in DOMAIN rx : rx[k] \in Nat
         /\ Len(rx) \in Nat /\ late \in Nat /\ now \in Nat /\ sends \in Nat
         /\ timeout \in Nat
BY TimeAssumption DEF TypeOK

(* What leaves the network without changing what is under way otherwise.    *)
LEMMA Settled == Settle => pending' \subseteq pending /\ net' \subseteq net
BY DEF Settle

-----------------------------------------------------------------------------
(* Each request is answered once. *)

(* A request is answered from pending once, and sent with a new number.     *)
LEMMA AnsweredStep == TypeOK /\ AnsweredOnce /\ [Next]_vars => AnsweredOnce'
<1>. SUFFICES ASSUME TypeOK, AnsweredOnce, [Next]_vars PROVE AnsweredOnce'
  OBVIOUS
<1>s. ASSUME pending' \subseteq pending, net' \subseteq net PROVE AnsweredOnce'
  BY <1>s DEF AnsweredOnce
<1>1. CASE Update
  <2>1. sends' = sends + 1 /\ pending' = pending \cup {sends + 1} /\ UNCHANGED net
    BY <1>1 DEF Update
  <2>2. \A r \in net : r.req # sends + 1
    BY Parts
  <2>. QED
    BY <2>1, <2>2 DEF AnsweredOnce
<1>2. CASE ServerReply
  <2>1. PICK r \in pending : /\ net' = net \cup {[req |-> r, stamp |-> TrueTime]}
                             /\ pending' = pending \ {r}
    BY <1>2 DEF ServerReply
  <2>2. \A s \in net : s.req # r
    BY DEF AnsweredOnce
  <2>. QED
    BY <2>1, <2>2 DEF AnsweredOnce
<1>3. CASE PollEmpty \/ PollReply \/ PollTimeout \/ Deliver \/ DeliverAgain \/ TimePasses
           \/ EndOfTime \/ UNCHANGED vars
  <2>1. pending' \subseteq pending /\ net' \subseteq net
    BY <1>3, Settled DEF PollEmpty, PollReply, PollTimeout, Deliver, DeliverAgain, TimePasses,
                         EndOfTime, vars
  <2>. QED
    BY <1>s, <2>1
<1>. QED
  BY <1>1, <1>2, <1>3 DEF Next, Client, Network

-----------------------------------------------------------------------------
(* What is in the socket. *)

(* A packet is left in the socket only by a reply later than its exchange.  *)
LEMMA CountedStep == TypeOK /\ AnsweredOnce /\ Counted /\ [Next]_vars => Counted'
<1>. SUFFICES ASSUME TypeOK, AnsweredOnce, Counted, [Next]_vars PROVE Counted'
  OBVIOUS
<1>t. Len(rx) \in Nat /\ late \in Nat /\ rx \in Seq(Nat) /\ (rx # <<>> => Len(Tail(rx)) = Len(rx) - 1)
  BY Parts DEF TypeOK
<1>p. \A x \in Nat : Len(Append(rx, x)) = Len(rx) + 1
  BY <1>t
<1>1. CASE Update
  <2>1. Len(rx) <= late /\ UNCHANGED <<rx, late>>
    BY <1>1 DEF Update, Counted
  <2>. QED
    BY <2>1 DEF Counted
<1>2. CASE PollEmpty \/ TimePasses \/ EndOfTime \/ UNCHANGED vars
  <2>1. UNCHANGED <<rx, late, pc, sends, pending, net>>
    BY <1>2 DEF PollEmpty, Poll, TimePasses, EndOfTime, vars, client
  <2>. QED
    BY <2>1 DEF Counted, AllAnswered
<1>3. CASE PollReply
  <2>1. rx # <<>> /\ rx' = Tail(rx) /\ UNCHANGED late
    BY <1>3 DEF PollReply, Poll
  <2>2. Len(rx') <= late'
    BY <1>t, <2>1 DEF Counted
  <2>. QED
    BY <2>2 DEF Counted
<1>4. CASE PollTimeout
  <2>1. rx' = (IF rx = <<>> THEN rx ELSE Tail(rx)) /\ UNCHANGED late
    BY <1>4 DEF PollTimeout, Poll
  <2>2. Len(rx') <= late'
    BY <1>t, <2>1 DEF Counted
  <2>. QED
    BY <2>2 DEF Counted
<1>5. CASE ServerReply
  <2>1. PICK r \in pending : /\ net' = net \cup {[req |-> r, stamp |-> TrueTime]}
                             /\ pending' = pending \ {r}
    BY <1>5 DEF ServerReply
  <2>2. UNCHANGED <<rx, late, pc, sends>>
    BY <1>5 DEF ServerReply, client
  <2>3. AllAnswered => AllAnswered'
    BY <2>1, <2>2 DEF AllAnswered
  <2>. QED
    BY <2>2, <2>3 DEF Counted
<1>6. CASE Deliver
  <2>1. PICK r \in net : /\ late' = IF Timely(r) THEN late ELSE late + 1
                         /\ rx' = Append(rx, r.stamp) /\ net' = net \ {r}
    BY <1>6 DEF Deliver
  <2>2. UNCHANGED <<pc, sends, pending>>
    BY <1>6 DEF Deliver, client
  <2>3. Len(rx') = Len(rx) + 1
    BY <1>p, <2>1, Parts
  <2>4. CASE Timely(r)
    <3>1. pc = "poll" /\ r.req = sends
      BY <2>4 DEF Timely
    <3>2. Len(rx) <= late
      BY <3>1 DEF Counted, AllAnswered
    <3>3. AllAnswered'
      BY <2>1, <2>2, <3>1 DEF AnsweredOnce, AllAnswered
    <3>. QED
      BY <1>t, <2>1, <2>2, <2>3, <2>4, <3>1, <3>2, <3>3 DEF Counted
  <2>5. CASE ~Timely(r)
    <3>1. AllAnswered => AllAnswered'
      BY <2>1, <2>2 DEF AllAnswered
    <3>. QED
      BY <1>t, <2>1, <2>2, <2>3, <2>5, <3>1 DEF Counted
  <2>. QED
    BY <2>4, <2>5
<1>7. CASE DeliverAgain
  <2>1. PICK r \in net : rx' = Append(rx, r.stamp)
    BY <1>7 DEF DeliverAgain
  <2>2. late' = late + 1 /\ UNCHANGED <<pc, sends, pending, net>>
    BY <1>7 DEF DeliverAgain, client
  <2>3. Len(rx') = Len(rx) + 1
    BY <1>p, <2>1, Parts
  <2>. QED
    BY <1>t, <2>2, <2>3 DEF Counted, AllAnswered
<1>. QED
  BY <1>1, <1>2, <1>3, <1>4, <1>5, <1>6, <1>7 DEF Next, Client, Network

-----------------------------------------------------------------------------
(* Stamps. *)

(* Replies are stamped between their request and now.                       *)
LEMMA StampedStep == TypeOK /\ TypeOK' /\ Counted /\ Stamped /\ [Next]_vars => Stamped'
<1>. SUFFICES ASSUME TypeOK, TypeOK', Counted, Stamped, [Next]_vars PROVE Stamped'
  OBVIOUS
<1>t. /\ \A r \in net : r.req \in 1..sends /\ r.stamp \in Nat
      /\ \A k \in DOMAIN rx : rx[k] \in Nat
      /\ rx \in Seq(Nat) /\ now \in Nat /\ timeout \in Nat /\ Epoch \in Nat
      /\ sends \in Nat /\ late \in Nat /\ now' \in Nat /\ timeout' \in Nat
  BY Parts, TimeAssumption DEF TypeOK
<1>s. \A t \in Int : Seconds(t) \in Int
  BY ModDiv, TimeAssumption DEF Seconds
(* Time goes on; nothing is added. *)
<1>g. ASSUME net' \subseteq net, \A k \in DOMAIN rx' : \E j \in DOMAIN rx : rx'[k] = rx[j],
             now <= now'
      PROVE  /\ \A r \in net' : r.stamp <= Epoch + Seconds(now')
             /\ \A k \in DOMAIN rx' : rx'[k] <= Epoch + Seconds(now')
  <2>1. Seconds(now) <= Seconds(now') /\ Seconds(now) \in Int /\ Seconds(now') \in Int
    BY <1>t, <1>s, <1>g, SecondsGrow
  <2>2. ASSUME NEW r \in net PROVE r.stamp <= Epoch + Seconds(now')
    <3>1. r.stamp <= Epoch + Seconds(now) /\ r.stamp \in Nat
      BY <1>t DEF Stamped
    <3>. QED
      BY <1>t, <2>1, <3>1
  <2>3. ASSUME NEW j \in DOMAIN rx PROVE rx[j] <= Epoch + Seconds(now')
    <3>1. rx[j] <= Epoch + Seconds(now) /\ rx[j] \in Nat
      BY <1>t DEF Stamped
    <3>. QED
      BY <1>t, <2>1, <3>1
  <2>. QED
    BY <1>g, <2>2, <2>3
<1>h. rx # <<>> => \A k \in DOMAIN Tail(rx) : \E j \in DOMAIN rx : Tail(rx)[k] = rx[j]
  <2>. SUFFICES ASSUME rx # <<>>, NEW k \in DOMAIN Tail(rx)
                PROVE  k + 1 \in DOMAIN rx /\ Tail(rx)[k] = rx[k + 1]
    OBVIOUS
  <2>. QED
    BY <1>t
<1>a. \A x \in Nat : \A k \in DOMAIN Append(rx, x) :
        (k \in DOMAIN rx /\ Append(rx, x)[k] = rx[k]) \/ Append(rx, x)[k] = x
  BY <1>t
<1>1. CASE Update
  <2>1. /\ UNCHANGED <<net, rx, now, late>> /\ timeout' = 0 /\ sends' = sends + 1
        /\ pc = "idle"
    BY <1>1 DEF Update
  <2>2. \A r \in net' : r.req # sends'
    BY <1>t, <2>1
  <2>3. late = 0 => DOMAIN rx = {}
    <3>1. late = 0 => Len(rx) <= 0
      BY <2>1 DEF Counted
    <3>. QED
      BY <1>t, <3>1
  <2>. QED
    BY <1>t, <1>g, <2>1, <2>2, <2>3 DEF Stamped
<1>2. CASE PollEmpty
  <2>1. /\ UNCHANGED <<net, rx, sends, late, pc>> /\ pc = "poll"
        /\ now' = now + 1 /\ timeout' = timeout + 1
    BY <1>2 DEF PollEmpty, Poll
  <2>2. now' - timeout' = now - timeout /\ now <= now'
    BY <1>t, <2>1
  <2>3. /\ \A r \in net' : r.stamp <= Epoch + Seconds(now')
        /\ \A k \in DOMAIN rx' : rx'[k] <= Epoch + Seconds(now')
    BY <1>g, <2>1, <2>2
  <2>4. /\ \A r \in net' : r.req = sends' => Epoch + Seconds(now' - timeout') <= r.stamp
        /\ late' = 0 => \A k \in DOMAIN rx' : Epoch + Seconds(now' - timeout') <= rx'[k]
    BY <2>1, <2>2 DEF Stamped
  <2>. QED
    BY <2>3, <2>4 DEF Stamped
<1>3. CASE PollReply \/ PollTimeout \/ TimePasses
  <2>1. /\ pc' = "idle" /\ net' \subseteq net /\ now <= now'
        /\ rx' = rx \/ (rx # <<>> /\ rx' = Tail(rx))
    <3>1. CASE PollReply
      BY <3>1, <1>t, Settled DEF PollReply, Poll
    <3>2. CASE PollTimeout
      BY <3>2, <1>t, Settled DEF PollTimeout, Poll
    <3>3. CASE TimePasses
      BY <3>3, <1>t DEF TimePasses, client
    <3>. QED
      BY <1>3, <3>1, <3>2, <3>3
  <2>. QED
    BY <1>g, <1>h, <2>1 DEF Stamped
<1>4. CASE ServerReply
  <2>1. PICK r \in pending : net' = net \cup {[req |-> r, stamp |-> TrueTime]}
    BY <1>4 DEF ServerReply
  <2>2. UNCHANGED <<rx, now, timeout, late, pc, sends>>
    BY <1>4 DEF ServerReply, client
  <2>3. Seconds(now - timeout) <= Seconds(now) /\ Seconds(now) \in Int /\ Seconds(now - timeout) \in Int
    <3>1. now \in Int /\ now - timeout \in Int /\ now - timeout <= now
      BY <1>t
    <3>. QED
      BY <1>s, <3>1, SecondsGrow, Zenon
  <2>4. TrueTime <= Epoch + Seconds(now) /\ Epoch + Seconds(now - timeout) <= TrueTime
    BY <1>t, <2>3, TrueTimeIs
  <2>. QED
    BY <2>1, <2>2, <2>4 DEF Stamped
<1>5. CASE Deliver \/ DeliverAgain
  <2>1. PICK r \in net : /\ rx' = Append(rx, r.stamp) /\ net' \subseteq net
                         /\ late' = late + 1 \/ (Timely(r) /\ UNCHANGED late)
    BY <1>5 DEF Deliver, DeliverAgain
  <2>2. UNCHANGED <<now, timeout, pc, sends>>
    BY <1>5 DEF Deliver, DeliverAgain, client
  <2>3. \A k \in DOMAIN rx' : (k \in DOMAIN rx /\ rx'[k] = rx[k]) \/ rx'[k] = r.stamp
    BY <1>t, <1>a, <2>1
  <2>4. late' = 0 => late = 0 /\ Timely(r)
    BY <1>t, <2>1
  <2>. QED
    BY <2>1, <2>2, <2>3, <2>4 DEF Stamped, Timely
<1>6. CASE EndOfTime \/ UNCHANGED vars
  <2>1. UNCHANGED <<rx, net, now, timeout, late, pc, sends>>
    BY <1>6 DEF EndOfTime, vars, client
  <2>. QED
    BY <2>1 DEF Stamped
<1>. QED
  BY <1>1, <1>2, <1>3, <1>4, <1>5, <1>6 DEF Next, Client, Network

-----------------------------------------------------------------------------
(* The clock that is set. *)

(* A stamp taken is bounded by the times of request and reading.            *)
LEMMA SyncedStep == TypeOK /\ TypeOK' /\ Stamped /\ Synced /\ [Next]_vars => Synced'
<1>. SUFFICES ASSUME TypeOK, TypeOK', Stamped, Synced, [Next]_vars PROVE Synced'
  OBVIOUS
<1>t. /\ \A k \in DOMAIN rx : rx[k] \in Nat
      /\ rx \in Seq(Nat) /\ now \in Nat /\ timeout \in Nat /\ Epoch \in Nat
      /\ late \in Nat /\ late' \in Nat /\ now' \in Nat /\ MaxPolls \in Nat
  BY Parts, TimeAssumption DEF TypeOK
<1>k. ASSUME UNCHANGED <<syncedAt, lastUpdate, currentEpoc>>, now <= now',
             late' = 0 => late = 0
      PROVE  Synced'
  <2>. SUFFICES ASSUME syncedAt >= 0
                PROVE  syncedAt' <= now' /\ \E w \in 1..(MaxPolls + 2) : TakenAfter(w)'
    BY <1>k DEF Synced
  <2>1. syncedAt <= now' /\ syncedAt <= now
    BY <1>t, <1>k DEF Synced, TypeOK
  <2>2. PICK w \in 1..(MaxPolls + 2) : TakenAfter(w)
    BY DEF Synced
  <2>3. TakenAfter(w)'
    BY <1>k, <2>2 DEF TakenAfter
  <2>. QED
    BY <1>k, <2>1, <2>3
<1>1. CASE PollReply
  <2>1. /\ pc = "poll" /\ rx # <<>> /\ currentEpoc' = Head(rx) /\ now' = now + 1
        /\ syncedAt' = now' /\ timeout' = timeout + 1 /\ timeout <= MaxPolls /\ UNCHANGED late
        /\ lastUpdate' = (millis' - (timeout' + 1)) % Wrap
    BY <1>1 DEF PollReply, Poll
  <2>2. PICK w \in 1..(MaxPolls + 2) : w = timeout' + 1
    BY <1>t, <2>1
  <2>3. lastUpdate' = (syncedAt' - w) % Wrap
    <3>1. lastUpdate' = ((now' % Wrap) + (-w)) % Wrap
      <4>1. now' % Wrap \in Int
        BY <1>t, ModDiv, TimeAssumption
      <4>2. (now' % Wrap) - w = (now' % Wrap) + (-w)
        BY <4>1
      <4>. QED
        BY <2>1, <2>2, <4>2 DEF millis
    <3>2. ((now' % Wrap) + (-w)) % Wrap = (now' + (-w)) % Wrap
      <4>1. PICK v \in Int : v = -w
        OBVIOUS
      <4>2. now' \in Int /\ Wrap \in Nat \ {0}
        BY <1>t, TimeAssumption
      <4>. QED
        BY <4>1, <4>2, ModAdvance, Zenon
    <3>3. now' + (-w) = now' - w
      BY <1>t
    <3>. QED
      BY <2>1, <3>1, <3>2, <3>3
  <2>4. /\ Head(rx) <= Epoch + Seconds(now) /\ Head(rx) \in Nat
        /\ late = 0 => Epoch + Seconds(now - timeout) <= Head(rx)
    <3>1. 1 \in DOMAIN rx /\ Head(rx) = rx[1]
      BY <1>t, <2>1
    <3>. QED
      BY <1>t, <2>1, <3>1 DEF Stamped
  <2>5. Seconds(now) <= Seconds(now') /\ Seconds(now) \in Nat /\ Seconds(now') \in Nat
    <3>1. Seconds(now) \in Nat /\ Seconds(now') \in Nat
      BY <1>t, SecondsType, Zenon
    <3>2. now \in Int /\ now' \in Int /\ now <= now'
      BY <1>t, <2>1
    <3>. QED
      BY <3>1, <3>2, SecondsGrow, Zenon
  <2>6. syncedAt' - w + 1 = now - timeout
    BY <1>t, <2>1, <2>2
  <2>7. TakenAfter(w)'
    BY <1>t, <2>1, <2>3, <2>4, <2>5, <2>6 DEF TakenAfter
  <2>. QED
    BY <1>t, <2>1, <2>7 DEF Synced
<1>2. CASE Update \/ PollEmpty \/ PollTimeout \/ ServerReply \/ TimePasses \/ EndOfTime
           \/ UNCHANGED vars
  <2>1. /\ UNCHANGED <<syncedAt, lastUpdate, currentEpoc, late>> /\ now <= now'
    BY <1>2, <1>t DEF Update, PollEmpty, PollTimeout, Poll, ServerReply, TimePasses, EndOfTime,
                      vars, client
  <2>. QED
    BY <1>k, <2>1
<1>3. CASE Deliver \/ DeliverAgain
  <2>1. /\ UNCHANGED <<syncedAt, lastUpdate, currentEpoc, now>>
        /\ late' = late \/ late' = late + 1
    BY <1>3 DEF Deliver, DeliverAgain, client
  <2>. QED
    BY <1>t, <1>k, <2>1
<1>. QED
  BY <1>1, <1>2, <1>3 DEF Next, Client, Network

-----------------------------------------------------------------------------
(* Theorems. *)

(* The invariant holds at power-up.                                         *)
LEMMA InvInit == Init => Inv
<1>1. Init => AnsweredOnce /\ Counted /\ Synced
  BY DEF Init, AnsweredOnce, Counted, Synced
<1>2. Init => Stamped
  BY DEF Init, Stamped
<1>. QED
  BY <1>1, <1>2, TypeInit DEF Inv

(* Init and every action of the client and the network keep Inv, for every  *)
(* timeout, interval, wrap and number of late replies.                      *)
THEOREM Invariance == Spec => []Inv
<1>1. Inv /\ [Next]_vars => Inv'
  BY TypeStep, AnsweredStep, CountedStep, StampedStep, SyncedStep DEF Inv
<1>. QED
  BY <1>1, InvInit, PTL DEF Spec

(* forceUpdate() leaves _lastUpdate in its 32 bits although it takes the    *)
(* waiting time off, and its poll counter within the timeout.               *)
THEOREM TypeCorrect == Spec => []TypeOK
BY Invariance, PTL DEF Inv

(* As long as no reply is late, nothing is in the socket when update() has  *)
(* returned; each late reply leaves one packet at most.                     *)
THEOREM NothingLeft == Spec => []NothingLeftOver
<1>1. Inv => NothingLeftOver
  BY DEF Inv, Counted, NothingLeftOver
<1>. QED
  BY <1>1, Invariance, PTL

(* What getEpochTime() adds to the last stamp.                              *)
LEMMA SinceSync ==
  ASSUME Inv, syncedAt >= 0, NEW w \in 1..(MaxPolls + 2), TakenAfter(w)
  PROVE  /\ getEpochTime = currentEpoc + Seconds(Since(lastUpdate))
         /\ Since(lastUpdate) \in Nat
         /\ Since(lastUpdate) <= now - syncedAt + w
         /\ now - syncedAt + w < Wrap => Since(lastUpdate) = now - syncedAt + w
<1>t. now \in Nat /\ syncedAt \in Nat /\ syncedAt <= now /\ w \in Nat /\ Wrap \in Nat \ {0}
  BY TimeAssumption DEF Inv, TypeOK, Synced
<1>1. PICK a \in Int, b \in Int, x \in Nat : a = now /\ b = syncedAt - w /\ x = now - syncedAt + w
                                          /\ a - b = x
  BY <1>t
<1>2. Since(lastUpdate) = ((a % Wrap) - (b % Wrap)) % Wrap
  BY <1>1 DEF Since, millis, TakenAfter
<1>3. ((a % Wrap) - (b % Wrap)) % Wrap = (a - b) % Wrap
  BY <1>t, ModDifference, Zenon
<1>4. Since(lastUpdate) = x % Wrap
  BY <1>1, <1>2, <1>3
<1>5. x % Wrap \in Nat /\ x % Wrap <= x /\ (x < Wrap => x % Wrap = x)
  <2>1. x % Wrap <= x /\ (x < Wrap => x % Wrap = x)
    BY <1>t, ModSmall, Zenon
  <2>2. x % Wrap \in 0..(Wrap - 1)
    BY <1>t, ModDiv
  <2>. QED
    BY <1>t, <2>1, <2>2
<1>. QED
  BY <1>1, <1>4, <1>5 DEF getEpochTime, Seconds

(* Whole seconds of a sum, ...                                              *)
LEMMA SecondsSum ==
  \A a, b \in Int : /\ Seconds(a) + Seconds(b) <= Seconds(a + b)
                   /\ Seconds(a + b) <= Seconds(a) + Seconds(b) + 1
                   /\ Seconds(a + b) <= Seconds(a) + Seconds(b + Sec - 1)
BY DivSum, TimeAssumption DEF Seconds

(* ... of any time, also one before power-up.                               *)
LEMMA SecondsInt == \A t \in Int : Seconds(t) \in Int
BY ModDiv, TimeAssumption DEF Seconds

(* The clock is never more than Lead seconds ahead: the stamp is not from   *)
(* the future, and what is added to it is at most the time since it was     *)
(* taken and one whole exchange; reduction by the wrap only takes away.     *)
THEOREM Ahead == Spec => []NeverAhead
<1>1. Inv => NeverAhead
  <2>. SUFFICES ASSUME Inv, syncedAt >= 0
                PROVE  getEpochTime <= TrueTime + Lead
    BY DEF NeverAhead
  <2>1. PICK w \in 1..(MaxPolls + 2) : TakenAfter(w)
    BY DEF Inv, Synced
  <2>t. /\ now \in Nat /\ syncedAt \in Nat /\ syncedAt <= now /\ MaxPolls \in Nat
        /\ currentEpoc \in Nat /\ Epoch \in Nat /\ Sec \in Nat
    BY TimeAssumption DEF Inv, TypeOK, Synced
  <2>2. PICK s \in Nat, x \in Nat, n \in Nat, m \in Nat :
          /\ s = Since(lastUpdate) /\ x = now - syncedAt + w /\ n = now /\ m = MaxPolls + 2
          /\ s <= x /\ getEpochTime = currentEpoc + Seconds(s)
    BY <2>1, <2>t, SinceSync
  <2>3. PICK y \in Nat : y = syncedAt
    BY <2>t
  <2>4. Seconds(s) <= Seconds(x) /\ Seconds(y + x) <= Seconds(n + m)
    <3>1. s \in Int /\ x \in Int /\ y + x \in Int /\ n + m \in Int /\ y + x <= n + m
      BY <2>t, <2>2, <2>3
    <3>. QED
      BY <2>2, <3>1, SecondsGrow, Zenon
  <2>5. Seconds(y) + Seconds(x) <= Seconds(y + x)
        /\ Seconds(n + m) <= Seconds(n) + Seconds(m + Sec - 1)
    <3>1. n \in Int /\ m \in Int /\ x \in Int /\ y \in Int
      BY <2>2, <2>3
    <3>. QED
      BY <3>1, SecondsSum, Zenon
  <2>6. /\ Seconds(y) \in Int /\ Seconds(x) \in Int /\ Seconds(s) \in Int /\ Seconds(n) \in Int
        /\ Seconds(m + Sec - 1) \in Int /\ Seconds(y + x) \in Int /\ Seconds(n + m) \in Int
    <3>1. /\ y \in Int /\ x \in Int /\ s \in Int /\ n \in Int /\ m + Sec - 1 \in Int
          /\ y + x \in Int /\ n + m \in Int
      BY <2>t, <2>2, <2>3
    <3>. QED
      BY <3>1, SecondsInt, Zenon
  <2>7. currentEpoc <= Epoch + Seconds(y)
    BY <2>1, <2>3 DEF TakenAfter
  <2>8. TrueTime = Epoch + Seconds(n) /\ Lead = Seconds(m + Sec - 1)
    <3>1. Lead = Seconds(MaxPolls + 2 + Sec - 1)
      BY DEF Lead, Seconds
    <3>. QED
      BY <2>2, <3>1, TrueTimeIs
  <2>. QED
    BY <2>2, <2>4, <2>5, <2>6, <2>7, <2>8, <2>t
<1>. QED
  BY <1>1, Invariance, PTL

(* As long as no reply was late, the clock is at most a second behind until *)
(* millis() has gone round: the stamp is not from before the request, and   *)
(* the time since the request is what is added.                             *)
THEOREM Behind == Spec => []NeverBehind
<1>1. Inv => NeverBehind
  <2>. SUFFICES ASSUME Inv, late = 0, syncedAt >= 0, now - syncedAt < Wrap - MaxPolls - 2
                PROVE  getEpochTime >= TrueTime - 1
    BY DEF NeverBehind
  <2>1. PICK w \in 1..(MaxPolls + 2) : TakenAfter(w)
    BY DEF Inv, Synced
  <2>t. /\ now \in Nat /\ syncedAt \in Nat /\ syncedAt <= now /\ MaxPolls \in Nat
        /\ currentEpoc \in Nat /\ Epoch \in Nat /\ Wrap \in Nat
    BY TimeAssumption DEF Inv, TypeOK, Synced
  <2>2. PICK x \in Nat, n \in Nat, y \in Int :
          /\ x = now - syncedAt + w /\ n = now /\ y = syncedAt - w + 1
          /\ getEpochTime = currentEpoc + Seconds(x)
    <3>1. now - syncedAt + w < Wrap /\ now - syncedAt + w \in Nat /\ syncedAt - w + 1 \in Int
      BY <2>t
    <3>. QED
      BY <2>1, <2>t, <3>1, SinceSync
  <2>3. /\ Seconds(n) <= Seconds(y + x) /\ Seconds(y + x) <= Seconds(y) + Seconds(x) + 1
        /\ Seconds(n) \in Int /\ Seconds(y) \in Int /\ Seconds(x) \in Int /\ Seconds(y + x) \in Int
    <3>1. n \in Int /\ x \in Int /\ y \in Int /\ y + x \in Int /\ n <= y + x
      BY <2>t, <2>2
    <3>. QED
      BY <3>1, SecondsGrow, SecondsSum, SecondsInt, Zenon
  <2>4. Epoch + Seconds(y) <= currentEpoc
    BY <2>1, <2>2 DEF TakenAfter
  <2>. QED
    BY <2>2, <2>3, <2>4, <2>t, TrueTimeIs
<1>. QED
  BY <1>1, Invariance, PTL
=============================================================================
