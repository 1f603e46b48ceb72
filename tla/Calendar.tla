------------------------------ MODULE Calendar ------------------------------
(***************************************************************************)
(* The calendar half of internal/schedule: the working-hours window and    *)
(* the one-off sleep at a wall-clock time, in a zone that changes its      *)
(* offset once, and the window as the reconciler's workflow decides it.    *)
(* The unit is half an hour; an instant counts from the epoch in UTC.      *)
(***************************************************************************)
EXTENDS Schedule, FiniteSetsExt

CONSTANTS Schedules,   \* the schedules a configuration may give
          SleepTimes,  \* the wall-clock times sleep is asked for
          First, Last  \* bounds on the instants looked at

Hour == 2

Day == 24 * Hour

WallTimes == 0..(Day - 1)

\* An IANA zone around one transition: its offset before and after the instant at.
Zones == [before : Int, after : Int, at : Nat]

\* No days means every day; New refuses a window that is not within one day.
ScheduleType ==
  {sc \in [enabled : BOOLEAN, start : WallTimes, end : WallTimes,
           days : SUBSET (0..6), loc : Zones] : sc.start < sc.end}

ASSUME CalendarAssumption ==
  /\ \A sc \in Schedules :
       /\ sc.enabled \in BOOLEAN
       /\ {sc.start, sc.end} \subseteq WallTimes /\ sc.start < sc.end
       /\ sc.days \subseteq 0..6
       /\ {sc.loc.before, sc.loc.after} \subseteq Int /\ sc.loc.at \in Nat
  /\ SleepTimes \subseteq WallTimes
  /\ First \in Nat /\ Last \in Nat /\ First < Last

VARIABLES sc,    \* the configuration, the same for the shell and the workflow
          now,
          sleep  \* the scheduled sleep asked for last

vars == <<sc, now, sleep>>

-----------------------------------------------------------------------------
(* Package time.                                                           *)

Offset(z, t) == IF t < z.at THEN z.before ELSE z.after

Local(z, t) == t + Offset(z, t)

DateOf(z, t) == Local(z, t) \div Day

Clock(z, t) == Local(z, t) % Day

Weekday(date) == (date + 4) % 7

SamePeriod(z, t, u) == (t < z.at) <=> (u < z.at)

\* time.Date: the offset is looked up as if the wall time were UTC, and again when
\* the instant this gives lies on the other side of the transition.
TimeDate(z, date, dt) ==
  LET wall == date * Day + dt
      utc  == wall - Offset(z, wall) IN
  IF utc = wall \/ SamePeriod(z, utc, wall) THEN utc ELSE wall - Offset(z, utc)

AddDate(z, t, n) == TimeDate(z, DateOf(z, t) + n, Clock(z, t))

-----------------------------------------------------------------------------
(* Package schedule.                                                       *)

On(t, dt) == TimeDate(sc.loc, DateOf(sc.loc, t), dt)

ActiveDay(t) == sc.days = {} \/ Weekday(DateOf(sc.loc, t)) \in sc.days

WithinWorkingHours(t) ==
  sc.enabled /\ ActiveDay(t) /\ On(t, sc.start) <= t /\ t < On(t, sc.end)

\* Mutant: the day a week from today is not looked at.
ShortWeek == 0..6

DaysAhead == 0..7

\* Mutant: every day is active.
AnyStartOn(t, i) ==
  LET cand == On(AddDate(sc.loc, t, i), sc.start) IN
  IF cand > t THEN cand ELSE NoTime

\* The start of the window i local days ahead, if it is after t and active.
StartOn(t, i) ==
  LET cand == On(AddDate(sc.loc, t, i), sc.start) IN
  IF cand > t /\ ActiveDay(cand) THEN cand ELSE NoTime

NextWorkingHoursStart(t) ==
  LET ahead == {i \in DaysAhead : StartOn(t, i) # NoTime} IN
  IF sc.enabled /\ ahead # {} THEN StartOn(t, Min(ahead)) ELSE NoTime

\* Mutant: an occurrence right now counts as past.
LaterOccurrence(t, dt) ==
  IF On(t, dt) <= t THEN On(AddDate(sc.loc, t, 1), dt) ELSE On(t, dt)

NextOccurrence(t, dt) ==
  IF On(t, dt) < t THEN On(AddDate(sc.loc, t, 1), dt) ELSE On(t, dt)

MaxScheduledSleep == 8 * Hour

\* Mutant: working hours do not end a sleep.
EightHourSleep(t, dt) == ScheduledSleep(NextOccurrence(t, dt), MaxScheduledSleep)

ScheduledSleepAt(t, dt) ==
  LET start == NextOccurrence(t, dt)
      end   == NextWorkingHoursStart(start) IN
  ScheduledSleep(start, IF end = NoTime THEN MaxScheduledSleep ELSE end - start)

-----------------------------------------------------------------------------
\* Mutant: the window is closed at its end.
WithinClosed(t) ==
  LET nowMin == Clock(sc.loc, t) IN
  /\ sc.enabled
  /\ sc.days = {} \/ Weekday(DateOf(sc.loc, t)) \in sc.days
  /\ sc.start <= nowMin /\ nowMin <= sc.end

\* The workflow's window, on local minutes since midnight.
Within(t) ==
  LET nowMin == Clock(sc.loc, t) IN
  /\ sc.enabled
  /\ sc.days = {} \/ Weekday(DateOf(sc.loc, t)) \in sc.days
  /\ sc.start <= nowMin /\ nowMin < sc.end

-----------------------------------------------------------------------------
Init ==
  /\ sc \in Schedules
  /\ now = First
  /\ sleep = NoSpan

Advance ==
  /\ now < Last
  /\ now' = now + 1
  /\ UNCHANGED <<sc, sleep>>

\* workbox sleep HH:MM; a sleep asked for replaces the one on record.
SleepAt(dt) ==
  /\ sleep' = ScheduledSleepAt(now, dt)
  /\ UNCHANGED <<sc, now>>

Next == Advance \/ \E dt \in SleepTimes : SleepAt(dt)

Spec == Init /\ [][Next]_vars

-----------------------------------------------------------------------------
\* The instants at which a clock in the zone shows dt on the date.
Shows(date, dt) ==
  LET wall == date * Day + dt IN
  {t \in {wall - sc.loc.before, wall - sc.loc.after} : Local(sc.loc, t) = wall}

\* The window the shell reports as protecting the VM is the one the reconciler
\* protects it in: "the same decision runs in the Go CLI (status) and, step for
\* step, in the GCP Workflow reconciler".
WindowsAgree == WithinWorkingHours(now) <=> Within(now)

\* The two windows differ at most on the day of a transition, when the clock shows
\* the window's start or end not at all or twice.
WindowsAgreeButForTheShift ==
  LET date == DateOf(sc.loc, now) IN
  ~WindowsAgree => \E dt \in {sc.start, sc.end} : Cardinality(Shows(date, dt)) # 1

\* The dates any of the definitions above may reach from t.
DatesAround(t) == (DateOf(sc.loc, t) - 2)..(DateOf(sc.loc, t) + 9)

\* The earliest of a set of instants.
Earliest(S) == IF S = {} THEN NoTime ELSE Min(S)

\* NextWorkingHoursStart, which steps over local dates, finds the earliest start
\* of a window on an active date after now, also over days of 23 and 25 hours.
NextStartIsNext ==
  sc.enabled =>
    NextWorkingHoursStart(now) =
      Earliest({t \in {TimeDate(sc.loc, date, sc.start) :
                         date \in {d \in DatesAround(now) :
                                     sc.days = {} \/ Weekday(d) \in sc.days}} :
                  t > now})

\* The sleep's start is the earliest instant, now or later, that stands for the
\* wall time asked for on some date (nextOccurrence).
OccurrenceIsNext ==
  \A dt \in SleepTimes :
    NextOccurrence(now, dt) =
      Earliest({t \in {TimeDate(sc.loc, date, dt) : date \in DatesAround(now)} :
                  t >= now})

\* A scheduled sleep is in effect during working hours only in the window it began
\* in: it gives way to every window that starts after it.
SleepGivesWay ==
  Active(sleep, now) /\ WithinWorkingHours(now) => On(now, sc.start) <= sleep.start

\* Where there are working hours a scheduled sleep ends as a window starts, so no
\* stretch is left in which idle shutdown alone decides.
SleepEndsInAWindow ==
  sc.enabled /\ sleep # NoSpan /\ now = sleep.end => WithinWorkingHours(now)

\* A scheduled sleep that was just asked for has not begun before it was asked for
\* ("the next instant of dt at or after now").
SleepNotInThePast == [][sleep' # sleep => sleep'.start >= now]_vars

=============================================================================
