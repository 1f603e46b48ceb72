----------------------------- MODULE MCCalendar -----------------------------
(* Instances of Calendar for TLC.  Date 10 is a Sunday, as are the days on *)
(* which these zones change their clocks.                                  *)
EXTENDS Calendar

Zone(before, after, utc) ==
  [before |-> before * Hour, after |-> after * Hour, at |-> 10 * Day + utc * Hour]

\* Europe/Stockholm and America/New_York, in spring and in autumn, and
\* America/Santiago in autumn, when the last hour of the day comes twice.
NightZones == {Zone(1, 2, 1), Zone(2, 1, 1), Zone(-5, -4, 7), Zone(-4, -5, 6),
               Zone(-3, -4, 3)}

\* America/Santiago in spring, when midnight is skipped.
MidnightZones == {Zone(-4, -3, 4)}

Windows(zones, bounds, days) ==
  {[enabled |-> TRUE, start |-> b[1], end |-> b[2], days |-> d, loc |-> z] :
     b \in bounds, d \in days, z \in zones}

NoWindow(zones) ==
  {[enabled |-> FALSE, start |-> 0, end |-> 1, days |-> {}, loc |-> z] : z \in zones}

\* A working day, and windows that begin or end in the hours the clocks change.
Bounds == {<<16, 36>>, <<3, 20>>, <<5, 20>>, <<0, 3>>, <<1, 5>>}

\* Every day, weekdays, Sundays.
WorkDays == {{}, 1..5, {0}}

NightSchedules == Windows(NightZones, Bounds, WorkDays) \cup NoWindow(NightZones)

MidnightSchedules == Windows(MidnightZones, {<<16, 36>>}, {{}, {0}})
=============================================================================
