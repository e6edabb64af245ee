------------------------------ MODULE LoopTimers ------------------------------
(***************************************************************************)
(* The timers of one pass of clock() and of AdafruitIO::run(), on a millis() *)
(* that starts again at 0 every Wrap units (2^32 ms, about 50 days).  A step *)
(* that blocks takes some of the real time, and the timers are compared in   *)
(* uint32_t arithmetic as the code writes them.                              *)
(***************************************************************************)
EXTENDS Integers

CONSTANTS
  UPDATE_INTERVAL_MS, UPDATE_IO_MS, AIO_PING_INTERVAL,
  Wrap,
  UpdateMax,   \* how long timeClient.update() may block
  IoMin, IoMax,  \* how long run() reads packets
  PingMax,     \* how long a ping may wait for its answer
  DrawMax,     \* how long the rest of clock() may take, transition included
  MaxTime      \* bound of the model

ASSUME TimerAssumption ==
  /\ UPDATE_INTERVAL_MS \in Nat /\ UPDATE_IO_MS \in Nat
  /\ AIO_PING_INTERVAL \in Nat
  /\ Wrap \in Nat \ {0}
  /\ UpdateMax \in Nat /\ PingMax \in Nat /\ IoMin \in Nat /\ IoMax \in Nat
  /\ DrawMax \in Nat
  /\ MaxTime \in Nat

VARIABLES
  pc,            \* "update", "io" or "draw": the part of clock() to run next
  now,           \* real time since power-up
  last_update_ms, last_io_update_ms,
  last_ping,     \* AdafruitIO::_last_ping
  updatedAt, ioAt, pingAt   \* the same events in real time

timers == <<last_update_ms, last_io_update_ms, last_ping>>
vars == <<pc, now, timers, updatedAt, ioAt, pingAt>>

millis(t) == t % Wrap

(* Mutants: a difference that goes negative when millis() wraps; a deadline  *)
(* compared like the ping's.                                                *)
Since_Signed(last) == millis(now) - last
Since_Deadline(last) ==
  IF millis(now) > (last + UPDATE_INTERVAL_MS) % Wrap
    THEN UPDATE_INTERVAL_MS + 1 ELSE 0

(* millis() - last, both uint32_t or converted to it.                       *)
Since(last) == (millis(now) - last) % Wrap

Init ==
  /\ pc = "update"
  /\ now = 0
  /\ last_update_ms = 0 /\ last_io_update_ms = 0 /\ last_ping = 0
  /\ updatedAt = 0 /\ ioAt = 0 /\ pingAt = 0

Takes(d) == now < MaxTime /\ now' = now + d

Update ==
  /\ pc = "update"
  /\ Since(last_update_ms) > UPDATE_INTERVAL_MS
  /\ \E d \in 0..UpdateMax : Takes(d)
  /\ last_update_ms' = millis(now')
  /\ updatedAt' = now'
  /\ pc' = "io"
  /\ UNCHANGED <<last_io_update_ms, last_ping, ioAt, pingAt>>

NoUpdate ==
  /\ pc = "update"
  /\ ~(Since(last_update_ms) > UPDATE_INTERVAL_MS)
  /\ pc' = "io"
  /\ UNCHANGED <<now, timers, updatedAt, ioAt, pingAt>>

(* Mutant: a deadline that is not reduced to 32 bits.                       *)
PingDue_Unreduced(t) == millis(t) > last_ping + AIO_PING_INTERVAL

(* millis() > _last_ping + AIO_PING_INTERVAL: the deadline wraps.           *)
PingDue(t) == millis(t) > (last_ping + AIO_PING_INTERVAL) % Wrap

(* Mutant: _last_ping is taken from a clock that does not wrap.             *)
RunIo_NoWrap ==
  /\ pc = "io"
  /\ Since(last_io_update_ms) > UPDATE_IO_MS
  /\ \E d \in IoMin..IoMax :
       /\ Takes(d)
       /\ IF PingDue(now') THEN last_ping' = now' /\ pingAt' = now'
                           ELSE UNCHANGED <<last_ping, pingAt>>
  /\ ioAt' = now
  /\ pc' = "draw"
  /\ UNCHANGED <<last_update_ms, last_io_update_ms, updatedAt>>

(* io.run(): the packets, then the ping.  `last_io_update_ms - millis();'    *)
(* computes a difference and drops it.                                      *)
RunIo ==
  /\ pc = "io"
  /\ Since(last_io_update_ms) > UPDATE_IO_MS
  /\ \E d \in IoMin..IoMax :
       \/ /\ PingDue(now + d)
          /\ \E e \in 0..PingMax : Takes(d + e)
          /\ last_ping' = millis(now')
          /\ pingAt' = now'
       \/ /\ ~PingDue(now + d)
          /\ Takes(d)
          /\ UNCHANGED <<last_ping, pingAt>>
  /\ ioAt' = now
  /\ pc' = "draw"
  /\ UNCHANGED <<last_update_ms, last_io_update_ms, updatedAt>>

SkipIo ==
  /\ pc = "io"
  /\ ~(Since(last_io_update_ms) > UPDATE_IO_MS)
  /\ pc' = "draw"
  /\ UNCHANGED <<now, timers, updatedAt, ioAt, pingAt>>

Draw ==
  /\ pc = "draw"
  /\ \E d \in 1..DrawMax : Takes(d)
  /\ pc' = "update"
  /\ UNCHANGED <<timers, updatedAt, ioAt, pingAt>>

(* The end of the bounded run. *)
EndOfTime == now >= MaxTime /\ UNCHANGED vars

Next == Update \/ NoUpdate \/ RunIo \/ SkipIo \/ Draw \/ EndOfTime

Spec == Init /\ [][Next]_vars

-----------------------------------------------------------------------------
(* Properties *)

TypeOK ==
  /\ pc \in {"update", "io", "draw"}
  /\ now \in Nat
  /\ {last_update_ms, last_io_update_ms, last_ping} \subseteq 0..(Wrap - 1)
  /\ {updatedAt, ioAt, pingAt} \subseteq 0..now

(* The longest pass of clock(). *)
PassMax == UpdateMax + IoMax + PingMax + DrawMax

(* Two time updates are more than UPDATE_INTERVAL_MS apart, and no update   *)
(* is late by more than one pass, across every wrap of millis().            *)
UpdatesSpaced == [][updatedAt' # updatedAt => now - updatedAt > UPDATE_INTERVAL_MS]_vars
UpdatesNotLate == now - updatedAt <= UPDATE_INTERVAL_MS + PassMax

(* "ping to keep connection alive if needed": the broker hears of the clock *)
(* within a pass of the deadline, or of the UPDATE_IO_MS for which no run() *)
(* is called after a wrap of millis() - unless the deadline itself is less  *)
(* than a pass below the wrap: then the comparison can miss it, and no ping *)
(* is sent until millis() has come round again.                             *)
PingsInTime ==
  ((pingAt + AIO_PING_INTERVAL) % Wrap) + PassMax < Wrap =>
    now - pingAt <= AIO_PING_INTERVAL + UPDATE_IO_MS + PassMax
=============================================================================
