-------------------------- MODULE LoopTimersProofs --------------------------
(***************************************************************************)
(* What the timers of LoopTimers keep for every interval, duration and      *)
(* wrap.  TLC's runs meet the hazards, two and more wraps of a small         *)
(* millis(); the theorems say that the size of it does not matter, as long  *)
(* as it is longer than what is measured with it.                           *)
(***************************************************************************)
EXTENDS LoopTimers, WrapLemmas

(* Each timer is the reading of millis() at its event; last_io_update_ms is *)
(* never set.                                                               *)
Readings ==
  /\ last_update_ms = updatedAt % Wrap
  /\ last_ping = pingAt % Wrap
  /\ last_io_update_ms = 0

(* What happened happened at a time that has passed.                        *)
Types ==
  /\ pc \in {"update", "io", "draw"}
  /\ now \in Nat
  /\ updatedAt \in 0..now /\ ioAt \in 0..now /\ pingAt \in 0..now

Inv == Types /\ Readings

(* The code's intervals and the calls' bounds are times; a round is positive. *)
LEMMA Durations ==
  /\ UPDATE_INTERVAL_MS \in Nat /\ UPDATE_IO_MS \in Nat /\ AIO_PING_INTERVAL \in Nat
  /\ UpdateMax \in Nat /\ IoMin \in Nat /\ IoMax \in Nat /\ PingMax \in Nat /\ DrawMax \in Nat
  /\ Wrap \in Nat \ {0}
BY TimerAssumption

(* Readings of millis(): their range, a later one, and one plus a time.     *)
LEMMA MillisRange == \A x \in Int : millis(x) \in 0..(Wrap - 1)
BY ModDiv, Durations DEF millis

(* A time before the wrap later, the reading is that much greater, ...      *)
LEMMA MillisLater ==
  \A x \in Int, e \in Nat : millis(x) + e < Wrap => millis(x + e) = millis(x) + e
BY ModLater, Durations DEF millis

(* ... and in any case the sum reduced.                                     *)
LEMMA MillisAdvance ==
  \A x, e \in Int : (millis(x) + e) % Wrap = millis(x + e)
BY ModAdvance, Durations DEF millis

(* At power-up every event is at time 0.                                    *)
LEMMA InvInit == Init => Inv
BY ModSmall, Durations DEF Init, Inv, Types, Readings

(* Each timer is set to the reading of the moment of its event.             *)
LEMMA InvStep == Inv /\ [Next]_vars => Inv'
<1>. SUFFICES ASSUME Inv, [Next]_vars PROVE Inv'
  OBVIOUS
<1>. USE DEF Inv, Types, Readings
<1>1. CASE Update
  <2>1. PICK d \in 0..UpdateMax : Takes(d)
    BY <1>1 DEF Update
  <2>2. now' \in Nat /\ now <= now'
    BY <2>1, Durations DEF Takes
  <2>. QED
    BY <1>1, <2>2, Durations DEF Update, millis
<1>2. CASE NoUpdate \/ SkipIo
  BY <1>2 DEF NoUpdate, SkipIo, timers
<1>3. CASE RunIo
  <2>1. now' \in Nat /\ now <= now'
    BY <1>3, Durations DEF RunIo, Takes
  <2>2. (last_ping' = millis(now') /\ pingAt' = now') \/ UNCHANGED <<last_ping, pingAt>>
    BY <1>3 DEF RunIo
  <2>. QED
    BY <1>3, <2>1, <2>2, Durations DEF RunIo, millis
<1>4. CASE Draw
  <2>1. now' \in Nat /\ now <= now'
    BY <1>4, Durations DEF Draw, Takes
  <2>. QED
    BY <1>4, <2>1 DEF Draw, timers
<1>5. CASE EndOfTime \/ UNCHANGED vars
  BY <1>5 DEF EndOfTime, vars, timers
<1>. QED
  BY <1>1, <1>2, <1>3, <1>4, <1>5 DEF Next

(* Init and every part of clock() keep Inv, whatever the durations are. *)
THEOREM Invariance == Spec => []Inv
BY InvInit, InvStep, PTL DEF Spec

(* The timers are readings of millis() and no event lies in the future. *)
THEOREM TypeCorrect == Spec => []TypeOK
<1>1. Inv => TypeOK
  <2>. SUFFICES ASSUME Inv PROVE TypeOK
    OBVIOUS
  <2>1. updatedAt % Wrap \in 0..(Wrap - 1) /\ pingAt % Wrap \in 0..(Wrap - 1)
        /\ 0 \in 0..(Wrap - 1)
    BY ModDiv, Durations DEF Inv, Types
  <2>. QED
    BY <2>1 DEF Inv, Types, Readings, TypeOK
<1>. QED
  BY <1>1, Invariance, PTL

(* What Since measures: never more than the time that has passed, and that  *)
(* time itself as long as it is less than a round of millis().              *)
LEMMA SinceUpdate ==
  ASSUME Inv
  PROVE  /\ Since(last_update_ms) <= now - updatedAt
         /\ now - updatedAt < Wrap => Since(last_update_ms) = now - updatedAt
         /\ Since(last_update_ms) \in Nat
<1>1. now \in Int /\ updatedAt \in Int /\ now - updatedAt \in Nat
  BY DEF Inv, Types
<1>2. Since(last_update_ms) = ((now % Wrap) - (updatedAt % Wrap)) % Wrap
  BY DEF Inv, Readings, Since, millis
<1>3. Since(last_update_ms) = (now - updatedAt) % Wrap
  BY <1>1, <1>2, ModDifference, Durations
<1>4. PICK x \in Nat : x = now - updatedAt
  BY <1>1
<1>5. x % Wrap \in 0..(Wrap - 1) /\ x % Wrap <= x /\ (x < Wrap => x % Wrap = x)
  BY ModSmall, ModDiv, Durations
<1>. QED
  BY <1>3, <1>4, <1>5, Durations

(* Two time updates are more than UPDATE_INTERVAL_MS apart: the difference   *)
(* millis() - last_update_ms may be too small after a long gap, never too    *)
(* large.  No assumption on the wrap is needed.                             *)
THEOREM Spaced == Spec => UpdatesSpaced
<1>1. Inv /\ [Next]_vars =>
        [updatedAt' # updatedAt => now - updatedAt > UPDATE_INTERVAL_MS]_vars
  <2>. SUFFICES ASSUME Inv, [Next]_vars, updatedAt' # updatedAt
                PROVE  now - updatedAt > UPDATE_INTERVAL_MS
    OBVIOUS
  <2>1. Update
    BY DEF Next, NoUpdate, RunIo, SkipIo, Draw, EndOfTime, vars
  <2>2. now - updatedAt \in Int
    BY DEF Inv, Types
  <2>. QED
    BY <2>1, <2>2, SinceUpdate, Durations DEF Update
<1>. QED
  BY <1>1, Invariance, PTL DEF Spec, UpdatesSpaced

-----------------------------------------------------------------------------
(* The update is not late. *)

(* Where the thread is bounds the time since the last update.               *)
UpdateBound ==
  now - updatedAt <= UPDATE_INTERVAL_MS +
    (CASE pc = "update" -> PassMax
       [] pc = "io" -> 0
       [] pc = "draw" -> IoMax + PingMax)

(* No part of a pass takes the bound on the update past what is left of it. *)
LEMMA UpdateBoundStep ==
  ASSUME UPDATE_INTERVAL_MS + PassMax < Wrap, Inv, UpdateBound, [Next]_vars
  PROVE  UpdateBound'
<1>. USE Durations DEF UpdateBound, PassMax
<1>t. pc \in {"update", "io", "draw"} /\ now \in Nat /\ updatedAt \in Nat
  BY DEF Inv, Types
<1>1. CASE Update
  BY <1>1, <1>t DEF Update, Takes
<1>2. CASE NoUpdate
  <2>1. now - updatedAt <= UPDATE_INTERVAL_MS + PassMax
    BY <1>2 DEF NoUpdate
  <2>2. Since(last_update_ms) = now - updatedAt
    BY <1>t, <2>1, SinceUpdate
  <2>. QED
    BY <1>2, <1>t, <2>2 DEF NoUpdate, timers
<1>3. CASE RunIo
  <2>1. now' \in Nat /\ now' <= now + IoMax + PingMax
    BY <1>3, <1>t DEF RunIo, Takes
  <2>. QED
    BY <1>3, <1>t, <2>1 DEF RunIo
<1>4. CASE SkipIo
  BY <1>4, <1>t DEF SkipIo
<1>5. CASE Draw
  <2>1. now' \in Nat /\ now' <= now + DrawMax
    BY <1>5, <1>t DEF Draw, Takes
  <2>. QED
    BY <1>5, <1>t, <2>1 DEF Draw
<1>6. CASE EndOfTime \/ UNCHANGED vars
  BY <1>6 DEF EndOfTime, vars
<1>. QED
  BY <1>1, <1>2, <1>3, <1>4, <1>5, <1>6 DEF Next

(* timeClient.update() is called within one pass of being due, across every *)
(* wrap, if an interval and a pass fit into a round of millis(): only then  *)
(* does millis() - last_update_ms measure the time since the last one.      *)
THEOREM NotLate ==
  ASSUME UPDATE_INTERVAL_MS + PassMax < Wrap
  PROVE  Spec => []UpdatesNotLate
<1>1. Init => UpdateBound
  BY Durations DEF Init, UpdateBound, PassMax
<1>2. Inv /\ UpdateBound /\ [Next]_vars => UpdateBound'
  BY UpdateBoundStep
<1>3. Inv /\ UpdateBound => UpdatesNotLate
  BY Durations DEF Inv, Types, UpdateBound, UpdatesNotLate, PassMax
<1>. QED
  BY <1>1, <1>2, <1>3, Invariance, PTL DEF Spec

-----------------------------------------------------------------------------
(* The ping is sent in time. *)

(* What millis() must be past for the ping that follows one sent at p.      *)
Deadline(p) == millis(p + AIO_PING_INTERVAL)

(* How far past the deadline the last look at it may have been without a    *)
(* ping: no run() is called until millis() is past UPDATE_IO_MS.            *)
Grace(p) ==
  IF Deadline(p) < UPDATE_IO_MS THEN UPDATE_IO_MS - Deadline(p) ELSE 0

(* The deadline and the grace are times; with it the deadline is UPDATE_IO_MS. *)
LEMMA GraceType ==
  \A p \in Nat :
    /\ Deadline(p) \in Nat
    /\ Grace(p) \in 0..UPDATE_IO_MS
    /\ Grace(p) = 0 \/ Deadline(p) + Grace(p) = UPDATE_IO_MS
    /\ Deadline(p) <= UPDATE_IO_MS => Deadline(p) + Grace(p) = UPDATE_IO_MS
BY MillisRange, Durations DEF Deadline, Grace

(* The time since the last ping in each part of a pass, unless the deadline *)
(* is so close to the wrap that a pass may jump over what is left above it. *)
PingBound ==
  Deadline(pingAt) + PassMax < Wrap =>
    now - pingAt <= AIO_PING_INTERVAL + Grace(pingAt) +
      (CASE pc = "draw" -> 0
         [] pc = "update" -> DrawMax
         [] pc = "io" -> DrawMax + UpdateMax)

(* Until millis() wraps or the deadline is missed by a pass, the comparison *)
(* tells the time.                                                          *)
LEMMA DeadlineSeen ==
  ASSUME Inv, NEW t \in Nat, pingAt + AIO_PING_INTERVAL < t,
         Deadline(pingAt) + (t - (pingAt + AIO_PING_INTERVAL)) < Wrap
  PROVE  /\ millis(t) = Deadline(pingAt) + (t - (pingAt + AIO_PING_INTERVAL))
         /\ PingDue(t)
<1>1. pingAt \in Nat /\ AIO_PING_INTERVAL \in Nat /\ Wrap \in Nat
  BY Durations DEF Inv, Types
<1>2. PICK x \in Nat, e \in Nat : /\ x = pingAt + AIO_PING_INTERVAL /\ t = x + e /\ 0 < e
                                /\ t - (pingAt + AIO_PING_INTERVAL) = e
  BY <1>1
<1>3. Deadline(pingAt) = millis(x) /\ millis(x) \in Nat
  BY <1>1, <1>2, MillisRange DEF Deadline
<1>4. millis(t) = millis(x) + e
  BY <1>2, <1>3, MillisLater
<1>5. last_ping = millis(pingAt)
  BY DEF Inv, Readings, millis
<1>6. (last_ping + AIO_PING_INTERVAL) % Wrap = Deadline(pingAt)
  BY <1>1, <1>5, MillisAdvance DEF Deadline
<1>. QED
  BY <1>2, <1>3, <1>4, <1>6 DEF PingDue

(* No part of a pass takes the bound on the ping past what is left of it.   *)
LEMMA PingBoundStep ==
  ASSUME UPDATE_IO_MS + PassMax < Wrap, Inv, PingBound, [Next]_vars
  PROVE  PingBound'
<1>t. /\ pc \in {"update", "io", "draw"} /\ now \in Nat /\ pingAt \in Nat
      /\ Deadline(pingAt) \in Nat /\ Grace(pingAt) \in Nat
      /\ Grace(pingAt) = 0 \/ Deadline(pingAt) + Grace(pingAt) = UPDATE_IO_MS
      /\ Deadline(pingAt) <= UPDATE_IO_MS => Deadline(pingAt) + Grace(pingAt) = UPDATE_IO_MS
  <2>1. pc \in {"update", "io", "draw"} /\ now \in Nat /\ pingAt \in Nat
    BY DEF Inv, Types
  <2>. QED
    BY <2>1, GraceType, Durations
<1>. SUFFICES ASSUME Deadline(pingAt') + PassMax < Wrap
              PROVE  now' - pingAt' <= AIO_PING_INTERVAL + Grace(pingAt') +
                       (CASE pc' = "draw" -> 0
                          [] pc' = "update" -> DrawMax
                          [] pc' = "io" -> DrawMax + UpdateMax)
  BY DEF PingBound
<1>. USE Durations DEF PassMax
<1>1. CASE Update \/ NoUpdate
  <2>1. /\ UNCHANGED pingAt /\ pc = "update" /\ pc' = "io"
        /\ now' \in Nat /\ now' <= now + UpdateMax
    BY <1>1, <1>t DEF Update, NoUpdate, Takes
  <2>. QED
    BY <1>t, <2>1 DEF PingBound
<1>2. CASE RunIo
  <2>1. pc = "io" /\ pc' = "draw"
    BY <1>2 DEF RunIo
  <2>2. CASE pingAt' = now'
    <3>1. now' \in Nat /\ Grace(pingAt') \in Nat
      <4>1. now' \in Nat
        BY <1>2, <1>t DEF RunIo, Takes
      <4>. QED
        BY <2>2, <4>1, GraceType
    <3>. QED
      BY <2>1, <2>2, <3>1
  <2>3. CASE UNCHANGED pingAt /\ ~PingDue(now') /\ now' \in Nat /\ now' <= now + IoMax
    <3>1. Deadline(pingAt) + PassMax < Wrap
      BY <2>3
    <3>2. now' <= pingAt + AIO_PING_INTERVAL + Grace(pingAt) + DrawMax + UpdateMax + IoMax
      BY <1>t, <2>1, <2>3, <3>1 DEF PingBound
    <3>3. ~(pingAt + AIO_PING_INTERVAL < now')
      <4>. SUFFICES ASSUME pingAt + AIO_PING_INTERVAL < now' PROVE FALSE
        OBVIOUS
      <4>1. Deadline(pingAt) + (now' - (pingAt + AIO_PING_INTERVAL)) < Wrap
        BY <1>t, <2>3, <3>1, <3>2
      <4>2. PICK t \in Nat : t = now'
        BY <2>3
      <4>. QED
        BY <2>3, <4>1, <4>2, DeadlineSeen
    <3>. QED
      BY <1>t, <2>1, <2>3, <3>3
  <2>. QED
    BY <1>2, <1>t, <2>2, <2>3 DEF RunIo, Takes
<1>3. CASE SkipIo
  <2>1. pc = "io" /\ pc' = "draw" /\ UNCHANGED <<pingAt, now>>
    BY <1>3 DEF SkipIo
  <2>2. Deadline(pingAt) + PassMax < Wrap
    BY <2>1
  <2>3. now <= pingAt + AIO_PING_INTERVAL + Grace(pingAt) + DrawMax + UpdateMax
    BY <1>t, <2>1, <2>2 DEF PingBound
  <2>4. millis(now) <= UPDATE_IO_MS
    <3>1. millis(now) \in 0..(Wrap - 1)
      BY <1>t, MillisRange
    <3>2. (millis(now) - 0) % Wrap = millis(now)
      BY <3>1, ModSmall
    <3>3. Since(last_io_update_ms) = millis(now)
      BY <3>2 DEF Since, Inv, Readings
    <3>. QED
      BY <1>3, <3>1, <3>3 DEF SkipIo
  <2>5. now <= pingAt + AIO_PING_INTERVAL + Grace(pingAt)
    <3>1. CASE pingAt + AIO_PING_INTERVAL < now
      <4>1. Deadline(pingAt) + (now - (pingAt + AIO_PING_INTERVAL)) < Wrap
        BY <1>t, <2>2, <2>3
      <4>2. millis(now) = Deadline(pingAt) + (now - (pingAt + AIO_PING_INTERVAL))
        BY <1>t, <3>1, <4>1, DeadlineSeen
      <4>. QED
        BY <1>t, <2>4, <3>1, <4>2 DEF Grace
    <3>2. CASE ~(pingAt + AIO_PING_INTERVAL < now)
      BY <1>t, <3>2
    <3>. QED
      BY <3>1, <3>2
  <2>. QED
    BY <1>t, <2>1, <2>5
<1>4. CASE Draw
  <2>1. /\ UNCHANGED pingAt /\ pc = "draw" /\ pc' = "update"
        /\ now' \in Nat /\ now' <= now + DrawMax
    BY <1>4, <1>t DEF Draw, Takes
  <2>. QED
    BY <1>t, <2>1 DEF PingBound
<1>5. CASE EndOfTime \/ UNCHANGED vars
  <2>1. UNCHANGED <<pingAt, now, pc>>
    BY <1>5 DEF EndOfTime, vars
  <2>. QED
    BY <2>1 DEF PingBound
<1>. QED
  BY <1>1, <1>2, <1>3, <1>4, <1>5 DEF Next

(* The ping is sent within a pass of its deadline, or of the UPDATE_IO_MS   *)
(* after a wrap, whenever the deadline is a pass or more below the wrap, if *)
(* that time and a pass fit into a round of millis().                       *)
THEOREM PingNotLate ==
  ASSUME UPDATE_IO_MS + PassMax < Wrap
  PROVE  Spec => []PingsInTime
<1>1. Init => PingBound
  <2>. SUFFICES ASSUME Init PROVE PingBound
    OBVIOUS
  <2>1. now - pingAt = 0 /\ Grace(pingAt) \in Nat /\ pc = "update"
    BY GraceType, Durations DEF Init
  <2>. QED
    BY <2>1, Durations DEF PingBound
<1>2. Inv /\ PingBound /\ [Next]_vars => PingBound'
  BY PingBoundStep
<1>3. Inv /\ PingBound => PingsInTime
  <2>. SUFFICES ASSUME Inv, PingBound, Deadline(pingAt) + PassMax < Wrap
                PROVE  now - pingAt <= AIO_PING_INTERVAL + UPDATE_IO_MS + PassMax
    BY DEF PingsInTime, Deadline, millis
  <2>1. now \in Nat /\ pingAt \in Nat /\ pc \in {"update", "io", "draw"}
    BY DEF Inv, Types
  <2>3. Grace(pingAt) \in Nat /\ Grace(pingAt) <= UPDATE_IO_MS
    BY <2>1, GraceType, Durations
  <2>. QED
    BY <2>1, <2>3, Durations DEF PingBound, PassMax
<1>. QED
  BY <1>1, <1>2, <1>3, Invariance, PTL DEF Spec
=============================================================================
