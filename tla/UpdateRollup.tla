---------------------------- MODULE UpdateRollup ----------------------------
(***************************************************************************)
(* The rollup of membership updates into one log entry per burst           *)
(* (lib/membership-update-rollup.js).  Every update renews a timer that    *)
(* flushes the buffer once no update has come for the flush interval.      *)
(*                                                                         *)
(* Time is relative: only how long ago the last update was matters, and    *)
(* that no longer than the interval.  A timer that is due may be late,     *)
(* when JavaScript is busy: time goes on while it waits.                   *)
(* The buffered updates are told apart by their burst.  A burst ends when  *)
(* an interval passes without an update; bursts alternate between 0 and 1. *)
(***************************************************************************)
EXTENDS Integers

CONSTANTS
  FlushInterval,    \* rollup.flushInterval, in ticks
  Unset             \* no timer is pending

ASSUME IntervalAssumption == FlushInterval \in Nat \ {0}
ASSUME UnsetAssumption == Unset \notin Nat

VARIABLES
  buffer,           \* the bursts of the updates in rollup.buffer
  timer,            \* flushTimer: the ticks that are left, or Unset
  updated,          \* lastUpdateTime is not null
  destroyed,        \* ringpop.destroy has called destroy()
  \* Of the environment:
  since,            \* ticks since the last update, up to FlushInterval
  burst             \* the burst of the last update

vars == <<buffer, timer, updated, destroyed, since, burst>>

Init ==
  /\ buffer = {}
  /\ timer = Unset
  /\ updated = FALSE
  /\ destroyed = FALSE
  /\ since = FlushInterval
  /\ burst = 0

----------------------------------------------------------------------------
\* Date.now() - lastUpdateTime >= flushInterval; null counts as time 0.
IntervalPassed == ~updated \/ since >= FlushInterval

\* The burst an update that comes now belongs to.
BurstNow == IF since >= FlushInterval THEN 1 - burst ELSE burst

\* Fault: the timer of the first update is not renewed.
TrackUpdatesUnrenewed ==
  /\ buffer' = (IF IntervalPassed THEN {} ELSE buffer) \cup {BurstNow}
  /\ timer' = IF timer = Unset THEN FlushInterval ELSE timer
  /\ updated' = TRUE
  /\ since' = 0
  /\ burst' = BurstNow
  /\ UNCHANGED destroyed

\* trackUpdates, called by the listener of every update: a buffer whose timer
\* is late is flushed first, then the timer is renewed.
TrackUpdates ==
  /\ buffer' = (IF IntervalPassed THEN {} ELSE buffer) \cup {BurstNow}
  /\ timer' = FlushInterval
  /\ updated' = TRUE
  /\ since' = 0
  /\ burst' = BurstNow
  /\ UNCHANGED destroyed

\* Fault: the flush forgets nothing.
FlushTimerKeeps ==
  /\ timer = 0
  /\ timer' = Unset
  /\ UNCHANGED <<buffer, updated, destroyed, since, burst>>

\* The timer calls flushBuffer, which does nothing for an empty buffer.
FlushTimer ==
  /\ timer = 0
  /\ timer' = Unset
  /\ buffer' = {}
  /\ updated' = IF buffer = {} THEN updated ELSE FALSE
  /\ UNCHANGED <<destroyed, since, burst>>

\* destroy() clears the timer; the listener stays, so that an update that
\* arrives later starts it again.
Destroy ==
  /\ destroyed' = TRUE
  /\ timer' = Unset
  /\ UNCHANGED <<buffer, updated, since, burst>>

Tick ==
  /\ since' = IF since < FlushInterval THEN since + 1 ELSE since
  /\ timer' = IF timer \in Nat \ {0} THEN timer - 1 ELSE timer
  /\ UNCHANGED <<buffer, updated, destroyed, burst>>

Next == TrackUpdates \/ FlushTimer \/ Destroy \/ Tick

Spec == Init /\ [][Next]_vars

\* A timer that is due fires at last.
FairSpec == Spec /\ WF_vars(FlushTimer) /\ WF_vars(Tick)

----------------------------------------------------------------------------
(* Properties *)

\* One log entry is about one burst of updates, and about all of it, however
\* late the timer is: what is buffered belongs to the burst of the last update
\* (the flush in trackUpdates), and nothing is flushed before its burst is
\* over (the renewal).
OneEntryPerBurst ==
  [][/\ buffer' \subseteq {burst'}
     /\ buffer # {} /\ buffer' = {} => since >= FlushInterval]_vars

\* If the updates pause for an interval again and again, what is buffered is
\* flushed again and again, unless the rollup is destroyed.  A stream of
\* updates without such a pause is flushed never: the timer is always renewed.
PausesFlush ==
  \A b \in {0, 1} :
    []<>(since >= FlushInterval) => []<>(b \notin buffer) \/ <>destroyed
=============================================================================
