------------------------------ MODULE NTPClient ------------------------------
(***************************************************************************)
(* src/arduino/libraries/NTPClient/NTPClient.cpp with the UDP network it    *)
(* polls.  Time goes in ticks of 10 ms, the delay() of one poll.            *)
(*                                                                          *)
(* The socket's receive queue is the system's, not the client's: what       *)
(* arrives after a timeout waits there for the next parsePacket().          *)
(***************************************************************************)
EXTENDS Integers, Sequences

CONSTANTS
  MaxPolls,    \* 100: "timeout after 1000 ms"
  Interval,    \* _updateInterval, 60000 ms
  Sec,         \* ticks in a second
  Wrap,        \* 2^32 ms, where millis() starts again
  Epoch,       \* the server's second at power-up
  Eager,       \* is update() called at once when an update is due?
  MaxTime, MaxSends, MaxQueue,  \* bounds of the model
  MaxLate      \* the replies that may come after their request timed out, or twice

ASSUME TimeAssumption ==
  /\ MaxPolls \in Nat /\ Interval \in Nat
  /\ Sec \in Nat \ {0} /\ Wrap \in Nat \ {0} /\ Epoch \in Nat
  /\ Eager \in BOOLEAN
  /\ MaxTime \in Nat /\ MaxSends \in Nat /\ MaxQueue \in Nat /\ MaxLate \in Nat

VARIABLES
  pc,           \* "idle", or "poll" inside forceUpdate's loop
  timeout,
  lastUpdate,   \* _lastUpdate
  currentEpoc,  \* _currentEpoc
  rx,           \* the socket's receive queue, of server seconds
  sends,        \* the requests sent so far
  pending,      \* requests on the way to the server
  net,          \* replies on the way back
  late,         \* the replies so far that came late or twice
  now,          \* ticks since power-up
  syncedAt      \* when the last reply was taken, -1 before the first

client == <<pc, timeout, lastUpdate, currentEpoc, syncedAt>>
vars == <<client, rx, sends, pending, net, late, now>>

millis == now % Wrap

(* uint32_t subtraction.                                                    *)
Since(t) == (millis - t) % Wrap

getEpochTime == currentEpoc + Since(lastUpdate) \div Sec

TrueTime == Epoch + now \div Sec

Init ==
  /\ pc = "idle"
  /\ timeout = 0
  /\ lastUpdate = 0
  /\ currentEpoc = 0
  /\ rx = <<>>
  /\ sends = 0
  /\ pending = {} /\ net = {} /\ late = 0
  /\ now = 0
  /\ syncedAt = -1

-----------------------------------------------------------------------------
(* update() and forceUpdate().                                              *)

UpdateDue == Since(lastUpdate) >= Interval \/ lastUpdate = 0

(* update() up to the first delay(): the request is sent.  While no update  *)
(* is due, update() does nothing.                                           *)
Update ==
  /\ pc = "idle"
  /\ UpdateDue
  /\ sends < MaxSends
  /\ sends' = sends + 1
  /\ pending' = pending \cup {sends'}
  /\ timeout' = 0
  /\ pc' = "poll"
  /\ UNCHANGED <<lastUpdate, currentEpoc, syncedAt, rx, net, late, now>>

(* One turn of the loop: delay(10), then parsePacket().                     *)
Poll ==
  /\ pc = "poll"
  /\ now < MaxTime
  /\ now' = now + 1
  /\ UNCHANGED <<sends, late>>

(* What is under way when an exchange ends can only come late: it is lost   *)
(* when the bound on late replies is used up.                               *)
Settle ==
  IF late < MaxLate THEN UNCHANGED <<pending, net>> ELSE pending' = {} /\ net' = {}

PollEmpty ==
  /\ Poll
  /\ rx = <<>> /\ timeout <= MaxPolls
  /\ timeout' = timeout + 1
  /\ UNCHANGED <<pc, lastUpdate, currentEpoc, syncedAt, rx, pending, net>>

(* Mutants: _lastUpdate left negative; the waiting time counted in seconds;  *)
(* the waiting time not taken off.                                          *)
PollReply_NoWrap ==
  /\ Poll
  /\ rx # <<>> /\ timeout <= MaxPolls
  /\ timeout' = timeout + 1
  /\ lastUpdate' = millis' - (timeout' + 1)
  /\ currentEpoc' = Head(rx)
  /\ rx' = Tail(rx)
  /\ pc' = "idle"
  /\ syncedAt' = now'
  /\ Settle

PollReply_WrongUnit ==
  /\ Poll
  /\ rx # <<>> /\ timeout <= MaxPolls
  /\ timeout' = timeout + 1
  /\ lastUpdate' = (millis' - Sec * (timeout' + 1)) % Wrap
  /\ currentEpoc' = Head(rx)
  /\ rx' = Tail(rx)
  /\ pc' = "idle"
  /\ syncedAt' = now'
  /\ Settle

PollReply_AtReply ==
  /\ Poll
  /\ rx # <<>> /\ timeout <= MaxPolls
  /\ timeout' = timeout + 1
  /\ lastUpdate' = millis'
  /\ currentEpoc' = Head(rx)
  /\ rx' = Tail(rx)
  /\ pc' = "idle"
  /\ syncedAt' = now'
  /\ Settle

(* The time between request and reply is taken off the moment of the update. *)
PollReply ==
  /\ Poll
  /\ rx # <<>> /\ timeout <= MaxPolls
  /\ timeout' = timeout + 1
  /\ lastUpdate' = (millis' - (timeout' + 1)) % Wrap
  /\ currentEpoc' = Head(rx)
  /\ rx' = Tail(rx)
  /\ pc' = "idle"
  /\ syncedAt' = now'
  /\ Settle

(* Mutant: the timeout is tested before parsePacket().                      *)
PollTimeout_BeforeParse ==
  /\ Poll
  /\ timeout > MaxPolls
  /\ pc' = "idle"
  /\ Settle
  /\ UNCHANGED <<timeout, lastUpdate, currentEpoc, syncedAt, rx>>

(* The timeout is tested after parsePacket(): a packet it took is gone.     *)
PollTimeout ==
  /\ Poll
  /\ timeout > MaxPolls
  /\ rx' = IF rx = <<>> THEN rx ELSE Tail(rx)
  /\ pc' = "idle"
  /\ Settle
  /\ UNCHANGED <<timeout, lastUpdate, currentEpoc, syncedAt>>

(* The rest of the sketch runs, for seconds when a transition blocks.       *)
TimePasses ==
  /\ pc = "idle"
  /\ Eager => ~UpdateDue \/ sends = MaxSends
  /\ now < MaxTime
  /\ now' = now + 1
  /\ UNCHANGED <<client, rx, sends, pending, net, late>>

-----------------------------------------------------------------------------
(* The server and the network.  A lost request or reply is one that stays   *)
(* where it is for ever.                                                    *)

ServerReply ==
  /\ \E r \in pending :
       /\ net' = net \cup {[req |-> r, stamp |-> TrueTime]}
       /\ pending' = pending \ {r}
  /\ UNCHANGED <<client, rx, sends, late, now>>

Timely(reply) == pc = "poll" /\ reply.req = sends

Deliver ==
  /\ \E reply \in net :
       /\ late' = IF Timely(reply) THEN late ELSE late + 1
       /\ late' <= MaxLate
       /\ rx' = Append(rx, reply.stamp)
       /\ net' = net \ {reply}
  /\ UNCHANGED <<client, sends, pending, now>>

(* UDP may deliver a datagram more than once. *)
DeliverAgain ==
  /\ late < MaxLate
  /\ late' = late + 1
  /\ Len(rx) < MaxQueue
  /\ \E reply \in net : rx' = Append(rx, reply.stamp)
  /\ UNCHANGED <<client, sends, pending, net, now>>

-----------------------------------------------------------------------------
Client == Update \/ PollEmpty \/ PollReply \/ PollTimeout
Network == ServerReply \/ Deliver \/ DeliverAgain

(* The end of the bounded run. *)
EndOfTime == now = MaxTime /\ UNCHANGED vars

Next == Client \/ Network \/ TimePasses \/ EndOfTime

Spec == Init /\ [][Next]_vars

-----------------------------------------------------------------------------
(* Properties *)

TypeOK ==
  /\ pc \in {"idle", "poll"}
  /\ timeout \in 0..(MaxPolls + 1)
  /\ lastUpdate \in 0..(Wrap - 1)
  /\ currentEpoc \in Nat
  /\ rx \in Seq(Nat)
  /\ sends \in Nat
  /\ pending \subseteq 1..sends
  /\ net \subseteq [req : 1..sends, stamp : Nat]
  /\ late \in 0..MaxLate
  /\ now \in Nat
  /\ syncedAt \in Nat \cup {-1}

(* Seconds by which a reading may lead: the whole exchange, which the       *)
(* reading counts again if the server's stamp is from the end of it.        *)
Lead == (MaxPolls + 2 + Sec - 1) \div Sec

(* Once set, the clock is never more than Lead seconds ahead, through late, *)
(* lost and doubled replies, timeouts and the wrap of millis().             *)
NeverAhead == syncedAt >= 0 => getEpochTime <= TrueTime + Lead

(* As long as no reply came late, getEpochTime() is, once set, the time     *)
(* since 1970 to the second, as its comment says, until millis() has gone   *)
(* round without an update.                                                 *)
NeverBehind ==
  late = 0 /\ syncedAt >= 0 /\ now - syncedAt < Wrap - MaxPolls - 2 =>
    getEpochTime >= TrueTime - 1

(* As long as no reply came late, nothing is left in the socket when the    *)
(* client is idle, so the next request cannot be answered by an old reply;  *)
(* and each late reply leaves at most one.                                  *)
NothingLeftOver == pc = "idle" => Len(rx) <= late

(* The same with room for anything but a clock that is a whole update       *)
(* interval slow.  A late reply breaks it for good: it answers the next     *)
(* request, whose own reply then waits for the update after that, and so on. *)
NotAnIntervalBehind ==
  syncedAt >= 0 /\ now - syncedAt < Wrap - MaxPolls - 2 =>
    getEpochTime > TrueTime - Interval \div Sec

=============================================================================
