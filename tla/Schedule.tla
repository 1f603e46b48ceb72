------------------------------ MODULE Schedule ------------------------------
(***************************************************************************)
(* The decision engine of internal/schedule: spans and the auto-suspend    *)
(* precedence.  Instants and durations are naturals in one unit; the       *)
(* working-hours window reaches the decision as a truth value (within).    *)
(***************************************************************************)
EXTENDS Integers

CONSTANTS IdleTimeout,      \* schedule.idle_timeout_minutes; 0 disables it
          MaxActivitySkew   \* how far ahead a last-active time is trusted

ASSUME ScheduleAssumption ==
  /\ IdleTimeout \in Nat
  /\ MaxActivitySkew \in Nat

\* The zero time.Time: an activity or start time that is not known.
NoTime == -1

\* A nil *Span.
NoSpan == [start |-> 0, end |-> 0, state |-> "none"]

\* "unknown" stands for any state string of the wire form other than the two
\* the program writes.
SpanStates == {"awake", "asleep", "unknown"}

Span == [start : Nat, end : Nat, state : SpanStates]

OptionalSpan == Span \cup {NoSpan}

Active(sp, t) == sp # NoSpan /\ sp.start <= t /\ t < sp.end

Expired(sp, t) == sp = NoSpan \/ t >= sp.end

ScheduledSleep(start, length) ==
  [start |-> start, end |-> start + length, state |-> "asleep"]

KeepAwakeHold(now, d) == [start |-> now, end |-> now + d, state |-> "awake"]

FutureActivity(lastActive, now) == lastActive > now + MaxActivitySkew

Reasons == {"scheduled-sleep", "keep-awake", "working-hours", "idle-disabled",
            "active", "boot-grace", "no-activity", "idle"}

SuspendReasons == {"scheduled-sleep", "no-activity", "idle"}

Trusted(lastActive, now) ==
  IF FutureActivity(lastActive, now) THEN NoTime ELSE lastActive

Recent(instant, now) == instant # NoTime /\ now - instant < IdleTimeout

\* The reason of the verdict; the verdict is to suspend exactly for a reason in
\* SuspendReasons.
AutoSuspend(now, sleep, hold, within, lastActive, lastStart) ==
  IF Active(sleep, now) /\ sleep.state = "asleep"   THEN "scheduled-sleep"
  ELSE IF Active(hold, now) /\ hold.state = "awake" THEN "keep-awake"
  ELSE IF within                                    THEN "working-hours"
  ELSE IF IdleTimeout = 0                           THEN "idle-disabled"
  ELSE IF Recent(Trusted(lastActive, now), now)     THEN "active"
  ELSE IF Recent(lastStart, now)                    THEN "boot-grace"
  ELSE IF Trusted(lastActive, now) = NoTime         THEN "no-activity"
  ELSE "idle"
=============================================================================
