--------------------------- MODULE CalendarProofs ---------------------------
(***************************************************************************)
(* The calendar of internal/schedule, for every schedule, every zone whose *)
(* clock changes neither skip nor repeat a midnight, and any stretch of    *)
(* time; what the two windows have in common, for every zone.              *)
(***************************************************************************)
EXTENDS Calendar, TLAPS, FiniteSetTheorems

\* The change of a zone's clock stays within a day: the hour that is skipped together
\* with the ones beside it, and the hour that is repeated.
Quiet(z) ==
  /\ z.after > z.before =>
       (z.at + 2 * z.before - z.after) \div Day = (z.at + 2 * z.after - z.before - 1) \div Day
  /\ z.after < z.before =>
       (z.at + z.after) \div Day = (z.at + z.before - 1) \div Day

\* The nights on which a clock changes are quiet.
QuietNights == \A s \in Schedules : Quiet(s.loc)

\* No window is as short as the stretch of time that a clock change skips.
LongWindows ==
  \A s \in Schedules : s.enabled => s.end - s.start > s.loc.after - s.loc.before

-----------------------------------------------------------------------------
(* Days and instants.                                                      *)

\* The day of an instant.
LEMMA DayOf ==
  ASSUME NEW x \in Int, NEW d \in Int
  PROVE  x \div Day = d <=> d * Day <= x /\ x < d * Day + Day
BY DEF Day, Hour

\* The date and the clock of an instant give its local time.
LEMMA DateAndClock ==
  ASSUME NEW x \in Int
  PROVE  /\ x \div Day \in Int /\ x % Day \in WallTimes
         /\ x = (x \div Day) * Day + (x % Day)
BY DEF Day, Hour, WallTimes

\* time.Date gives an instant that shows the wall time, unless the clock skips it.
LEMMA TimeDateShows ==
  ASSUME NEW z, z.before \in Int, z.after \in Int, z.at \in Int,
         NEW date \in Int, NEW dt \in WallTimes
  PROVE  LET wall == date * Day + dt
             r    == TimeDate(z, date, dt) IN
         /\ r \in {wall - z.before, wall - z.after}
         /\ \/ Local(z, r) = wall
            \/ /\ z.before < z.after
               /\ z.at + z.before <= wall /\ wall < z.at + z.after
               /\ Local(z, r) \in {wall + z.after - z.before, wall + z.before - z.after}
<1> DEFINE wall == date * Day + dt
           r    == TimeDate(z, date, dt)
           utc  == wall - Offset(z, wall)
<1>1. wall \in Int
  BY DEF Day, Hour, WallTimes
<1>2. r = IF utc = wall \/ SamePeriod(z, utc, wall) THEN utc ELSE wall - Offset(z, utc)
  BY DEF TimeDate
<1> HIDE DEF wall, r
<1>3. r \in {wall - z.before, wall - z.after}
  BY <1>2 DEF Offset
<1>4. \/ Local(z, r) = wall
      \/ /\ z.before < z.after
         /\ z.at + z.before <= wall /\ wall < z.at + z.after
         /\ Local(z, r) \in {wall + z.after - z.before, wall + z.before - z.after}
  <2>1. CASE wall < z.at
    <3>1. utc = wall - z.before
      BY <2>1 DEF Offset
    <3>2. CASE utc < z.at
      BY <1>1, <1>2, <2>1, <3>1, <3>2 DEF SamePeriod, Offset, Local
    <3>3. CASE ~(utc < z.at)
      BY <1>1, <1>2, <2>1, <3>1, <3>3 DEF SamePeriod, Offset, Local
    <3> QED
      BY <3>2, <3>3
  <2>2. CASE ~(wall < z.at)
    <3>1. utc = wall - z.after
      BY <2>2 DEF Offset
    <3>2. CASE utc < z.at
      BY <1>1, <1>2, <2>2, <3>1, <3>2 DEF SamePeriod, Offset, Local
    <3>3. CASE ~(utc < z.at)
      BY <1>1, <1>2, <2>2, <3>1, <3>3 DEF SamePeriod, Offset, Local
    <3> QED
      BY <3>2, <3>3
  <2> QED
    BY <2>1, <2>2
<1> QED
  BY <1>3, <1>4 DEF wall, r

\* On a quiet night a wall time of a date is on that date.
LEMMA TimeDateKeepsDate ==
  ASSUME NEW z, z.before \in Int, z.after \in Int, z.at \in Int, Quiet(z),
         NEW date \in Int, NEW dt \in WallTimes
  PROVE  TimeDate(z, date, dt) \in Int /\ DateOf(z, TimeDate(z, date, dt)) = date
<1> DEFINE wall == date * Day + dt
           r    == TimeDate(z, date, dt)
<1>1. wall \in Int /\ date * Day \in Int /\ date * Day <= wall /\ wall < date * Day + Day
  BY DEF Day, Hour, WallTimes
<1>2. r \in Int /\ Local(z, r) \in Int
  BY <1>1, TimeDateShows DEF Local, Offset
<1>3. date * Day <= Local(z, r) /\ Local(z, r) < date * Day + Day
  <2>1. CASE Local(z, r) = wall
    BY <1>1, <2>1
  <2>2. CASE Local(z, r) # wall
    <3>1. /\ z.before < z.after
          /\ z.at + z.before <= wall /\ wall < z.at + z.after
          /\ Local(z, r) \in {wall + z.after - z.before, wall + z.before - z.after}
      BY <2>2, TimeDateShows
    <3> DEFINE first == z.at + 2 * z.before - z.after
               last  == z.at + 2 * z.after - z.before - 1
               m     == first \div Day
    <3>2. first \in Int /\ last \in Int /\ m \in Int /\ m = last \div Day
      BY <3>1 DEF Quiet, Day, Hour
    <3>3. m * Day <= first /\ last < m * Day + Day
      BY <3>2, DayOf
    <3>4. wall \in first..last /\ Local(z, r) \in first..last
      BY <1>1, <1>2, <3>1
    <3> HIDE DEF wall, r, first, last, m
    <3>5. m * Day <= wall /\ wall < m * Day + Day
          /\ m * Day <= Local(z, r) /\ Local(z, r) < m * Day + Day
      BY <1>2, <3>2, <3>3, <3>4 DEF Day, Hour
    <3>6. m = date
      BY <1>1, <3>2, <3>5 DEF Day, Hour
    <3> QED
      BY <3>5, <3>6
  <2> QED
    BY <2>1, <2>2
<1> QED
  BY <1>2, <1>3, DayOf DEF DateOf

\* On quiet nights the date does not go back.
LEMMA DatesGrow ==
  ASSUME NEW z, z.before \in Int, z.after \in Int, z.at \in Int, Quiet(z),
         NEW t \in Int, NEW u \in Int, t <= u
  PROVE  DateOf(z, t) <= DateOf(z, u)
<1>1. \A x, y \in Int : x <= y => x \div Day <= y \div Day
  BY DEF Day, Hour
<1>2. CASE Local(z, t) <= Local(z, u)
  BY <1>1, <1>2 DEF DateOf, Local, Offset
<1>3. CASE ~(Local(z, t) <= Local(z, u))
  <2>1. t < z.at /\ ~(u < z.at) /\ z.after < z.before
    BY <1>3 DEF Local, Offset
  <2>2. Local(z, t) <= z.at + z.before - 1 /\ z.at + z.after <= Local(z, u)
    BY <2>1 DEF Local, Offset
  <2>3. Local(z, t) \div Day <= (z.at + z.before - 1) \div Day
    BY <1>1, <2>2 DEF Local, Offset
  <2>4. (z.at + z.after) \div Day <= Local(z, u) \div Day
    BY <1>1, <2>2 DEF Local, Offset
  <2>5. (z.at + z.after) \div Day = (z.at + z.before - 1) \div Day
    BY <2>1 DEF Quiet
  <2>6. \A x \in Int : x \div Day \in Int
    BY DEF Day, Hour
  <2> QED
    BY <2>3, <2>4, <2>5, <2>6 DEF DateOf, Local, Offset
<1> QED
  BY <1>2, <1>3

\* What a schedule is made of.
LEMMA ScheduleParts ==
  ASSUME NEW s \in Schedules
  PROVE  /\ s.enabled \in BOOLEAN
         /\ s.start \in WallTimes /\ s.end \in WallTimes /\ s.start < s.end
         /\ s.days \subseteq 0..6
         /\ s.loc.before \in Int /\ s.loc.after \in Int /\ s.loc.at \in Int
BY CalendarAssumption

-----------------------------------------------------------------------------
(* From one day to the next, on quiet nights.                              *)

\* The date of an instant, and the instant of a wall time on it.
Today(t) == DateOf(sc.loc, t)

At(date, dt) == TimeDate(sc.loc, date, dt)

ActiveDate(date) == sc.days = {} \/ Weekday(date) \in sc.days

\* AddDate and time.Date, date by date: a wall time is later on a later date, and
\* an instant of another date is on the right side of t.
LEMMA DayByDay ==
  ASSUME sc \in Schedules, QuietNights, NEW t \in Int, NEW dt \in WallTimes
  PROVE  /\ Today(t) \in Int
         /\ \A d \in Int : At(d, dt) \in Int /\ Today(At(d, dt)) = d
         /\ \A d, e \in Int : d < e => At(d, dt) < At(e, dt)
         /\ \A d \in Int : d < Today(t) => At(d, dt) < t
         /\ \A d \in Int : d > Today(t) => At(d, dt) > t
         /\ On(t, dt) = At(Today(t), dt)
         /\ \A i \in Int : On(AddDate(sc.loc, t, i), dt) = At(Today(t) + i, dt)
<1>1. Quiet(sc.loc) /\ sc.loc.before \in Int /\ sc.loc.after \in Int /\ sc.loc.at \in Int
  BY ScheduleParts DEF QuietNights
<1>2. \A u \in Int : Today(u) \in Int /\ Clock(sc.loc, u) \in WallTimes
  <2>1. \A u \in Int : Local(sc.loc, u) \in Int
    BY <1>1 DEF Local, Offset
  <2> QED
    BY <2>1, DateAndClock DEF Today, DateOf, Clock
<1>3. \A d \in Int, w \in WallTimes : At(d, w) \in Int /\ Today(At(d, w)) = d
  BY <1>1, TimeDateKeepsDate DEF At, Today
<1>4. \A u, v \in Int : u <= v => Today(u) <= Today(v)
  BY <1>1, DatesGrow DEF Today
<1>5. \A d, e \in Int : d < e => At(d, dt) < At(e, dt)
  BY <1>3, <1>4
<1>6. \A d \in Int : d < Today(t) => At(d, dt) < t
  BY <1>2, <1>3, <1>4
<1>7. \A d \in Int : d > Today(t) => At(d, dt) > t
  BY <1>2, <1>3, <1>4
<1>8. On(t, dt) = At(Today(t), dt)
  BY DEF On, At, Today
<1>9. \A i \in Int : On(AddDate(sc.loc, t, i), dt) = At(Today(t) + i, dt)
  <2> SUFFICES ASSUME NEW i \in Int
               PROVE  On(AddDate(sc.loc, t, i), dt) = At(Today(t) + i, dt)
    OBVIOUS
  <2>1. AddDate(sc.loc, t, i) = At(Today(t) + i, Clock(sc.loc, t))
    BY DEF AddDate, At, Today
  <2>2. Today(AddDate(sc.loc, t, i)) = Today(t) + i
    BY <1>2, <1>3, <2>1
  <2> QED
    BY <2>2 DEF On, At, Today
<1> QED
  BY <1>2, <1>3, <1>5, <1>6, <1>7, <1>8, <1>9

-----------------------------------------------------------------------------
(* The next start of a window.                                             *)

\* The first day of the week that is active comes within a week.
LEMMA ActiveWithinAWeek ==
  ASSUME sc \in Schedules, NEW d \in Int
  PROVE  \E i \in 1..7 : ActiveDate(d + i)
<1>1. CASE sc.days = {}
  BY <1>1 DEF ActiveDate
<1>2. CASE sc.days # {}
  <2>1. PICK w \in sc.days : w \in 0..6
    BY <1>2, ScheduleParts
  <2> DEFINE x == (d + 4) % 7
             i == IF w > x THEN w - x ELSE w - x + 7
  <2>2. x \in 0..6 /\ d + 4 = 7 * ((d + 4) \div 7) + x
    OBVIOUS
  <2>3. i \in 1..7
    BY <2>1, <2>2
  <2>4. (d + i + 4) % 7 = w
    <3>1. \A n, q \in Int, r \in 0..6 : n = 7 * q + r => n % 7 = r
      OBVIOUS
    <3> DEFINE q == (d + 4) \div 7
    <3>2. q \in Int
      OBVIOUS
    <3> HIDE DEF q
    <3>3. CASE w > x
      <4>1. d + i + 4 = 7 * q + w
        BY <2>1, <2>2, <3>2, <3>3 DEF q
      <4> QED
        BY <2>1, <3>1, <3>2, <4>1, <2>3
    <3>4. CASE ~(w > x)
      <4>1. d + i + 4 = 7 * (q + 1) + w
        BY <2>1, <2>2, <3>2, <3>4 DEF q
      <4> QED
        BY <2>1, <3>1, <3>2, <4>1, <2>3
    <3> QED
      BY <3>3, <3>4
  <2> HIDE DEF i
  <2>5. ActiveDate(d + i)
    BY <2>1, <2>4 DEF ActiveDate, Weekday
  <2> QED
    BY <2>3, <2>5
<1> QED
  BY <1>1, <1>2

\* The least element of a set of integers is its minimum.
LEMMA LeastIsMin ==
  ASSUME NEW S, \A y \in S : y \in Int, NEW x \in S, \A y \in S : x <= y
  PROVE  Min(S) = x
<1>1. Min(S) \in S /\ \A y \in S : Min(S) <= y
  BY DEF Min
<1> QED
  BY <1>1

\* A set of integers that is not empty and bounded has a least element.
LEMMA BoundedHasMin ==
  ASSUME NEW S \in SUBSET DaysAhead, S # {}
  PROVE  Min(S) \in S /\ \A y \in S : Min(S) <= y
<1>1. \E x \in S : \A y \in S : x <= y
  <2>1. \A i \in S : i \in Int /\ 0 <= i /\ i <= 7
    BY DEF DaysAhead
  <2>2. SUFFICES ASSUME \A x \in S : \E y \in S : y < x PROVE FALSE
    BY <2>1
  <2>3. 0 \notin S
    BY <2>1, <2>2
  <2>4. 1 \notin S
    BY <2>1, <2>2, <2>3
  <2>5. 2 \notin S
    BY <2>1, <2>2, <2>3, <2>4
  <2>6. 3 \notin S
    BY <2>1, <2>2, <2>3, <2>4, <2>5
  <2>7. 4 \notin S
    BY <2>1, <2>2, <2>3, <2>4, <2>5, <2>6
  <2>8. 5 \notin S
    BY <2>1, <2>2, <2>3, <2>4, <2>5, <2>6, <2>7
  <2>9. 6 \notin S
    BY <2>1, <2>2, <2>3, <2>4, <2>5, <2>6, <2>7, <2>8
  <2>10. 7 \notin S
    BY <2>1, <2>2, <2>3, <2>4, <2>5, <2>6, <2>7, <2>8, <2>9
  <2> QED
    BY <2>1, <2>3, <2>4, <2>5, <2>6, <2>7, <2>8, <2>9, <2>10
<1> QED
  BY <1>1 DEF Min

\* StartOn looks at the start of the window on one date.
LEMMA StartOfADay ==
  ASSUME sc \in Schedules, QuietNights, NEW t \in Nat, NEW i \in DaysAhead
  PROVE  LET d == Today(t) + i IN
         /\ StartOn(t, i) = IF At(d, sc.start) > t /\ ActiveDate(d) THEN At(d, sc.start)
                            ELSE NoTime
         /\ StartOn(t, i) # NoTime <=> At(d, sc.start) > t /\ ActiveDate(d)
<1>1. sc.start \in WallTimes /\ i \in Int
  BY ScheduleParts DEF DaysAhead
<1> DEFINE d    == Today(t) + i
           cand == On(AddDate(sc.loc, t, i), sc.start)
<1>2. d \in Int /\ cand = At(d, sc.start) /\ cand \in Int /\ Today(cand) = d
  <2>1. t \in Int
    OBVIOUS
  <2>2. /\ Today(t) \in Int
        /\ \A e \in Int : At(e, sc.start) \in Int /\ Today(At(e, sc.start)) = e
        /\ \A j \in Int : On(AddDate(sc.loc, t, j), sc.start) = At(Today(t) + j, sc.start)
    BY <1>1, <2>1, DayByDay
  <2> QED
    BY <1>1, <2>2
<1>3. ActiveDay(cand) <=> ActiveDate(d)
  BY <1>2 DEF ActiveDay, ActiveDate, Today
<1>4. StartOn(t, i) = IF cand > t /\ ActiveDay(cand) THEN cand ELSE NoTime
  BY DEF StartOn
<1> HIDE DEF cand, d
<1> QED
  BY <1>2, <1>3, <1>4 DEF NoTime, d

\* The next start is the start of an active date, after t, and there is no other
\* between t and it.
IsNextStart(n, t) ==
  /\ \E d \in Today(t)..(Today(t) + 7) : ActiveDate(d) /\ n = At(d, sc.start)
  /\ n > t
  /\ \A e \in Int : ActiveDate(e) /\ At(e, sc.start) > t => n <= At(e, sc.start)

\* On quiet nights nextWorkingHoursStart returns the next start of a window.
LEMMA NextStart ==
  ASSUME sc \in Schedules, QuietNights, sc.enabled, NEW t \in Nat
  PROVE  IsNextStart(NextWorkingHoursStart(t), t)
<1> DEFINE ahead == {i \in DaysAhead : StartOn(t, i) # NoTime}
           D     == Today(t)
           S(d)  == At(d, sc.start)
<1>1. sc.start \in WallTimes /\ t \in Int /\ D \in Int
  <2>1. sc.start \in WallTimes /\ t \in Int
    BY ScheduleParts
  <2>2. Today(t) \in Int
    BY <2>1, DayByDay
  <2> QED
    BY <2>1, <2>2
<1>2. /\ \A d \in Int : S(d) \in Int
      /\ \A d, e \in Int : d < e => S(d) < S(e)
      /\ \A d \in Int : d < D => S(d) < t
      /\ \A d \in Int : d > D => S(d) > t
  <2>1. /\ \A d \in Int : At(d, sc.start) \in Int
        /\ \A d, e \in Int : d < e => At(d, sc.start) < At(e, sc.start)
        /\ \A d \in Int : d < Today(t) => At(d, sc.start) < t
        /\ \A d \in Int : d > Today(t) => At(d, sc.start) > t
    BY <1>1, DayByDay
  <2> QED
    BY <2>1
<1>3. \A i \in DaysAhead :
        /\ StartOn(t, i) = IF S(D + i) > t /\ ActiveDate(D + i) THEN S(D + i) ELSE NoTime
        /\ i \in ahead <=> S(D + i) > t /\ ActiveDate(D + i)
  BY StartOfADay
<1>4. ahead # {}
  <2>1. PICK i \in 1..7 : ActiveDate(D + i)
    BY <1>1, ActiveWithinAWeek
  <2>2. i \in DaysAhead /\ D + i \in Int /\ D + i > D
    BY <1>1 DEF DaysAhead
  <2> QED
    BY <1>2, <1>3, <2>1, <2>2
<1> DEFINE first == Min(ahead)
<1>5. first \in ahead /\ \A i \in ahead : first <= i
  BY <1>4, BoundedHasMin
<1>6. NextWorkingHoursStart(t) = StartOn(t, first)
  BY <1>4 DEF NextWorkingHoursStart
<1>7. first \in 0..7
  BY <1>5 DEF DaysAhead
<1> HIDE DEF first
<1>8. /\ NextWorkingHoursStart(t) = S(D + first) /\ S(D + first) > t
      /\ ActiveDate(D + first)
  BY <1>3, <1>5, <1>6
<1>9. ASSUME NEW e \in Int, ActiveDate(e), S(e) > t
      PROVE  S(D + first) <= S(e)
  <2>1. e >= D
    BY <1>1, <1>2, <1>9
  <2>2. D + first <= e
    <3>1. CASE e <= D + 7
      <4>1. e - D \in DaysAhead /\ D + (e - D) = e
        BY <1>1, <2>1, <3>1 DEF DaysAhead
      <4>2. e - D \in ahead
        BY <1>3, <1>9, <4>1
      <4> QED
        BY <1>1, <1>5, <1>7, <4>1, <4>2
    <3>2. CASE ~(e <= D + 7)
      BY <1>1, <1>7, <3>2
    <3> QED
      BY <3>1, <3>2
  <2>3. D + first \in Int
    BY <1>1, <1>7
  <2> HIDE DEF S
  <2> QED
    BY <1>2, <2>2, <2>3
<1>10. D + first \in D..(D + 7)
  BY <1>1, <1>7
<1> QED
  BY <1>8, <1>9, <1>10 DEF IsNextStart

-----------------------------------------------------------------------------
(* The next occurrence of a wall time.                                     *)

\* An occurrence of the wall time at or after t, and none between.
IsNextOccurrence(n, t, dt) ==
  /\ \E d \in Today(t)..(Today(t) + 1) : n = At(d, dt)
  /\ n \in Int /\ n >= t
  /\ \A e \in Int : At(e, dt) >= t => n <= At(e, dt)

\* On quiet nights NextOccurrence returns the next instant of a wall time.
LEMMA NextTime ==
  ASSUME sc \in Schedules, QuietNights, NEW t \in Nat, NEW dt \in WallTimes
  PROVE  IsNextOccurrence(NextOccurrence(t, dt), t, dt)
<1> DEFINE D    == Today(t)
           S(d) == At(d, dt)
<1>1. /\ t \in Int /\ D \in Int
      /\ \A d \in Int : S(d) \in Int
      /\ \A d, e \in Int : d < e => S(d) < S(e)
      /\ \A d \in Int : d < D => S(d) < t
      /\ \A d \in Int : d > D => S(d) > t
  <2>1. t \in Int
    OBVIOUS
  <2> QED
    BY <2>1, DayByDay
<1>2. On(t, dt) = S(D) /\ On(AddDate(sc.loc, t, 1), dt) = S(D + 1)
  BY <1>1, DayByDay
<1>3. NextOccurrence(t, dt) = IF S(D) < t THEN S(D + 1) ELSE S(D)
  BY <1>2 DEF NextOccurrence
<1>4. \A e \in Int : S(e) >= t => e >= D
  BY <1>1
<1> SUFFICES /\ \E d \in D..(D + 1) : NextOccurrence(t, dt) = S(d)
             /\ NextOccurrence(t, dt) \in Int /\ NextOccurrence(t, dt) >= t
             /\ \A e \in Int : S(e) >= t => NextOccurrence(t, dt) <= S(e)
  BY DEF IsNextOccurrence
<1> HIDE DEF S, D
<1>5. CASE S(D) < t
  <2>1. NextOccurrence(t, dt) = S(D + 1) /\ D + 1 \in D..(D + 1) /\ D + 1 \in Int
    BY <1>1, <1>3, <1>5
  <2>2. S(D + 1) > t /\ S(D + 1) \in Int
    BY <1>1, <2>1
  <2>3. ASSUME NEW e \in Int, S(e) >= t PROVE S(D + 1) <= S(e)
    <3>1. e >= D /\ e # D
      BY <1>1, <1>4, <1>5, <2>3
    <3>2. e = D + 1 \/ D + 1 < e
      BY <1>1, <3>1
    <3> QED
      BY <1>1, <2>1, <3>2
  <2> QED
    BY <1>1, <2>1, <2>2, <2>3
<1>6. CASE ~(S(D) < t)
  <2>1. NextOccurrence(t, dt) = S(D) /\ D \in D..(D + 1)
    BY <1>1, <1>3, <1>6
  <2>2. ASSUME NEW e \in Int, S(e) >= t PROVE S(D) <= S(e)
    BY <1>1, <1>4, <2>2
  <2> QED
    BY <1>1, <1>6, <2>1, <2>2
<1> QED
  BY <1>5, <1>6

-----------------------------------------------------------------------------
(* The invariant: a sleep on record ends as the code says it does.         *)

SleepFits ==
  sleep # NoSpan =>
    /\ sleep.start \in Nat
    /\ sleep.end = IF sc.enabled THEN NextWorkingHoursStart(sleep.start)
                   ELSE sleep.start + MaxScheduledSleep

CalendarInv == sc \in Schedules /\ now \in Nat /\ SleepFits

\* Where there are working hours the end of a scheduled sleep is their next start.
LEMMA SleepAsked ==
  ASSUME sc \in Schedules, QuietNights, NEW t \in Nat, NEW dt \in WallTimes
  PROVE  LET sp == ScheduledSleepAt(t, dt) IN
         /\ sp.start = NextOccurrence(t, dt) /\ sp.start \in Nat /\ sp.start >= t
         /\ sp.end = IF sc.enabled THEN NextWorkingHoursStart(sp.start)
                     ELSE sp.start + MaxScheduledSleep
<1> DEFINE start == NextOccurrence(t, dt)
           end   == NextWorkingHoursStart(start)
<1>1. start \in Nat /\ start >= t
  BY NextTime DEF IsNextOccurrence
<1>2. ScheduledSleepAt(t, dt) =
        ScheduledSleep(start, IF end = NoTime THEN MaxScheduledSleep ELSE end - start)
  BY DEF ScheduledSleepAt
<1>3. sc.enabled => end \in Int /\ end > start
  <2>1. CASE sc.enabled
    <3>1. IsNextStart(end, start)
      BY <1>1, <2>1, NextStart
    <3>2. \A d \in Int : At(d, sc.start) \in Int
      BY <1>1, ScheduleParts, DayByDay
    <3>3. Today(start) \in Int
      <4>1. start \in Int /\ sc.start \in WallTimes
        BY <1>1, ScheduleParts
      <4> HIDE DEF start
      <4> QED
        BY <4>1, DayByDay
    <3> HIDE DEF start, end
    <3> QED
      BY <3>1, <3>2, <3>3 DEF IsNextStart
  <2> QED
    BY <2>1
<1>4. ~sc.enabled => end = NoTime
  BY DEF NextWorkingHoursStart
<1> HIDE DEF start, end
<1>5. sc.enabled \in BOOLEAN
  BY ScheduleParts
<1>6. CASE sc.enabled
  <2>1. end # NoTime /\ start + (end - start) = end
    BY <1>1, <1>3, <1>6 DEF NoTime
  <2> QED
    BY <1>1, <1>2, <1>6, <2>1 DEF ScheduledSleep, start, end
<1>7. CASE ~sc.enabled
  BY <1>1, <1>2, <1>4, <1>7 DEF ScheduledSleep, start, end
<1> QED
  BY <1>6, <1>7

\* No sleep is on record at first.
LEMMA InitCalendar == Init => CalendarInv
  BY CalendarAssumption DEF Init, CalendarInv, SleepFits

\* Every sleep that is asked for ends where the schedule says.
LEMMA NextCalendar ==
  ASSUME QuietNights, CalendarInv, [Next]_vars
  PROVE  CalendarInv'
<1>1. sc' = sc
  BY DEF Next, Advance, SleepAt, vars
<1>2. \A t : NextWorkingHoursStart(t)' = NextWorkingHoursStart(t)
  BY <1>1 DEF NextWorkingHoursStart, StartOn, On, ActiveDay
<1>3. CASE UNCHANGED sleep
  BY <1>1, <1>2, <1>3 DEF Next, Advance, SleepAt, vars, CalendarInv, SleepFits
<1>4. CASE \E dt \in SleepTimes : SleepAt(dt)
  <2>1. PICK dt \in SleepTimes : SleepAt(dt)
    BY <1>4
  <2>2. dt \in WallTimes
    BY CalendarAssumption
  <2>3. /\ sleep'.start \in Nat
        /\ sleep'.end = IF sc.enabled THEN NextWorkingHoursStart(sleep'.start)
                        ELSE sleep'.start + MaxScheduledSleep
    BY <2>1, <2>2, SleepAsked DEF SleepAt, CalendarInv
  <2> QED
    BY <1>1, <1>2, <2>1, <2>3 DEF SleepAt, CalendarInv, SleepFits
<1> QED
  BY <1>3, <1>4 DEF Next, Advance, vars

-----------------------------------------------------------------------------
(* What the calendar promises on quiet nights.                             *)

\* On quiet nights every sleep on record ends where the schedule says.
THEOREM SleepsFit == QuietNights /\ Spec => []CalendarInv
<1> SUFFICES ASSUME QuietNights PROVE Spec => []CalendarInv
  OBVIOUS
<1>1. CalendarInv /\ [Next]_vars => CalendarInv'
  BY NextCalendar
<1> QED
  BY <1>1, InitCalendar, PTL DEF Spec

\* The next start is the earliest of the starts on active dates around.
THEOREM TheNextStartIsNext == QuietNights /\ Spec => []NextStartIsNext
<1> SUFFICES ASSUME QuietNights PROVE Spec => []NextStartIsNext
  OBVIOUS
<1>1. CalendarInv => NextStartIsNext
  <2> SUFFICES ASSUME CalendarInv, sc.enabled
               PROVE  NextWorkingHoursStart(now) =
                        Earliest({t \in {TimeDate(sc.loc, date, sc.start) :
                                           date \in {d \in DatesAround(now) : ActiveDate(d)}} :
                                    t > now})
    BY DEF NextStartIsNext, ActiveDate
  <2> DEFINE n == NextWorkingHoursStart(now)
             T == {t \in {TimeDate(sc.loc, date, sc.start) :
                            date \in {d \in DatesAround(now) : ActiveDate(d)}} : t > now}
  <2>1. sc \in Schedules /\ now \in Nat /\ now \in Int /\ sc.start \in WallTimes
    BY ScheduleParts DEF CalendarInv
  <2>2. IsNextStart(n, now)
    BY <2>1, NextStart
  <2>3. Today(now) \in Int /\ \A d \in Int : At(d, sc.start) \in Int
    BY <2>1, DayByDay
  <2>4. \A x : x \in T <=> /\ x > now
                           /\ \E d \in (Today(now) - 2)..(Today(now) + 9) :
                                ActiveDate(d) /\ x = At(d, sc.start)
    BY DEF DatesAround, At, Today
  <2> HIDE DEF n, T
  <2>5. n \in T
    BY <2>2, <2>3, <2>4 DEF IsNextStart
  <2>6. \A y \in T : y \in Int /\ n <= y
    BY <2>2, <2>3, <2>4 DEF IsNextStart
  <2>7. Earliest(T) = n
    BY <2>5, <2>6, LeastIsMin DEF Earliest
  <2> QED
    BY <2>7 DEF n, T
<1> QED
  BY <1>1, SleepsFit, PTL

\* The next occurrence of a wall time is the earliest instant, now or later, that
\* stands for it.
THEOREM TheOccurrenceIsNext == QuietNights /\ Spec => []OccurrenceIsNext
<1> SUFFICES ASSUME QuietNights PROVE Spec => []OccurrenceIsNext
  OBVIOUS
<1>1. CalendarInv => OccurrenceIsNext
  <2> SUFFICES ASSUME CalendarInv, NEW dt \in SleepTimes
               PROVE  NextOccurrence(now, dt) =
                        Earliest({t \in {TimeDate(sc.loc, date, dt) :
                                           date \in DatesAround(now)} : t >= now})
    BY DEF OccurrenceIsNext
  <2> DEFINE n == NextOccurrence(now, dt)
             T == {t \in {TimeDate(sc.loc, date, dt) : date \in DatesAround(now)} : t >= now}
  <2>1. sc \in Schedules /\ now \in Nat /\ now \in Int /\ dt \in WallTimes
    BY CalendarAssumption DEF CalendarInv
  <2>2. IsNextOccurrence(n, now, dt)
    BY <2>1, NextTime
  <2>3. Today(now) \in Int /\ \A d \in Int : At(d, dt) \in Int
    BY <2>1, DayByDay
  <2>4. \A x : x \in T <=> /\ x >= now
                           /\ \E d \in (Today(now) - 2)..(Today(now) + 9) : x = At(d, dt)
    BY DEF DatesAround, At, Today
  <2> HIDE DEF n, T
  <2>5. n \in T
    BY <2>2, <2>3, <2>4 DEF IsNextOccurrence
  <2>6. \A y \in T : y \in Int /\ n <= y
    BY <2>2, <2>3, <2>4 DEF IsNextOccurrence
  <2>7. Earliest(T) = n
    BY <2>5, <2>6, LeastIsMin DEF Earliest
  <2> QED
    BY <2>7 DEF n, T
<1> QED
  BY <1>1, SleepsFit, PTL

\* A sleep that was just asked for has not begun before it was: what MidnightSleep
\* refutes has its only cause in the nights that are not quiet.
THEOREM SleepIsAhead == QuietNights /\ Spec => SleepNotInThePast
<1> SUFFICES ASSUME QuietNights PROVE Spec => SleepNotInThePast
  OBVIOUS
<1>1. CalendarInv /\ [Next]_vars => [sleep' # sleep => sleep'.start >= now]_vars
  <2> SUFFICES ASSUME CalendarInv, [Next]_vars, sleep' # sleep
               PROVE  sleep'.start >= now
    OBVIOUS
  <2>1. PICK dt \in SleepTimes : SleepAt(dt)
    BY DEF Next, Advance, vars
  <2>2. dt \in WallTimes
    BY CalendarAssumption
  <2> QED
    BY <2>1, <2>2, SleepAsked DEF SleepAt, CalendarInv
<1> QED
  BY <1>1, SleepsFit, PTL DEF Spec, SleepNotInThePast

\* A sleep gives way to every window that starts after it.
THEOREM TheSleepGivesWay == QuietNights /\ Spec => []SleepGivesWay
<1> SUFFICES ASSUME QuietNights PROVE Spec => []SleepGivesWay
  OBVIOUS
<1>1. CalendarInv => SleepGivesWay
  <2> SUFFICES ASSUME CalendarInv, Active(sleep, now), WithinWorkingHours(now)
               PROVE  On(now, sc.start) <= sleep.start
    BY DEF SleepGivesWay
  <2>1. /\ sc \in Schedules /\ now \in Int /\ sc.start \in WallTimes
        /\ sleep.start \in Nat /\ sleep.start \in Int /\ now < sleep.end
    BY ScheduleParts DEF CalendarInv, SleepFits, Active
  <2>2. sc.enabled /\ ActiveDate(Today(now)) /\ On(now, sc.start) <= now
    BY DEF WithinWorkingHours, ActiveDay, ActiveDate, Today
  <2>3. IsNextStart(sleep.end, sleep.start)
    BY <2>1, <2>2, NextStart DEF CalendarInv, SleepFits, Active
  <2>4. /\ Today(now) \in Int /\ \A d \in Int : At(d, sc.start) \in Int
        /\ On(now, sc.start) = At(Today(now), sc.start)
    BY <2>1, DayByDay
  <2>5. Today(sleep.start) \in Int
    BY <2>1, DayByDay
  <2>6. sleep.end \in Int
    BY <2>3, <2>4, <2>5 DEF IsNextStart
  <2> QED
    BY <2>1, <2>2, <2>3, <2>4, <2>6 DEF IsNextStart
<1> QED
  BY <1>1, SleepsFit, PTL

-----------------------------------------------------------------------------
(* Windows longer than a clock change.                                     *)

\* A window that is longer than what the clock skips opens every day.
LEMMA WindowOpens ==
  ASSUME NEW z, z.before \in Int, z.after \in Int, z.at \in Int,
         NEW date \in Int, NEW s \in WallTimes, NEW e \in WallTimes,
         s < e, e - s > z.after - z.before
  PROVE  TimeDate(z, date, s) < TimeDate(z, date, e)
<1> DEFINE ws == date * Day + s
           we == date * Day + e
<1>1. ws \in Int /\ we \in Int /\ ws < we /\ we - ws > z.after - z.before
  BY DEF Day, Hour, WallTimes
<1>2. /\ TimeDate(z, date, s) =
           LET utc == ws - Offset(z, ws) IN
           IF utc = ws \/ SamePeriod(z, utc, ws) THEN utc ELSE ws - Offset(z, utc)
      /\ TimeDate(z, date, e) =
           LET utc == we - Offset(z, we) IN
           IF utc = we \/ SamePeriod(z, utc, we) THEN utc ELSE we - Offset(z, utc)
  BY DEF TimeDate
<1> HIDE DEF ws, we
<1>3. CASE ws < z.at /\ we < z.at
  BY <1>1, <1>2, <1>3 DEF SamePeriod, Offset
<1>4. CASE ws < z.at /\ ~(we < z.at)
  BY <1>1, <1>2, <1>4 DEF SamePeriod, Offset
<1>5. CASE ~(ws < z.at)
  BY <1>1, <1>2, <1>5 DEF SamePeriod, Offset
<1> QED
  BY <1>3, <1>4, <1>5

\* A scheduled sleep ends in a window.
THEOREM TheSleepEndsInAWindow ==
  QuietNights /\ LongWindows /\ Spec => []SleepEndsInAWindow
<1> SUFFICES ASSUME QuietNights, LongWindows PROVE Spec => []SleepEndsInAWindow
  OBVIOUS
<1>1. CalendarInv => SleepEndsInAWindow
  <2> SUFFICES ASSUME CalendarInv,
                      sc.enabled, sleep # NoSpan, now = sleep.end
               PROVE  WithinWorkingHours(now)
    BY DEF SleepEndsInAWindow
  <2>1. /\ sc \in Schedules /\ now \in Int /\ sc.start \in WallTimes /\ sc.end \in WallTimes
        /\ sc.start < sc.end /\ sc.end - sc.start > sc.loc.after - sc.loc.before
        /\ sc.loc.before \in Int /\ sc.loc.after \in Int /\ sc.loc.at \in Int
        /\ sleep.start \in Nat /\ sleep.start \in Int
    BY ScheduleParts DEF CalendarInv, SleepFits, LongWindows
  <2>2. IsNextStart(now, sleep.start)
    BY <2>1, NextStart DEF CalendarInv, SleepFits
  <2>3. Today(sleep.start) \in Int
    BY <2>1, DayByDay
  <2>4. PICK d \in Int : ActiveDate(d) /\ now = At(d, sc.start)
    BY <2>2, <2>3 DEF IsNextStart
  <2>5. Today(now) = d
    BY <2>1, <2>4, DayByDay
  <2>6. On(now, sc.start) = now /\ On(now, sc.end) = At(d, sc.end)
    BY <2>4, <2>5 DEF On, At, Today
  <2>7. now < On(now, sc.end)
    BY <2>1, <2>4, <2>6, WindowOpens DEF At
  <2>8. ActiveDay(now)
    BY <2>4, <2>5 DEF ActiveDay, ActiveDate, Today
  <2> QED
    BY <2>1, <2>6, <2>7, <2>8 DEF WithinWorkingHours
<1> QED
  BY <1>1, SleepsFit, PTL

-----------------------------------------------------------------------------
(* The two windows, in every zone.                                         *)

\* A wall time the clock shows once on a date has passed exactly when the clock is
\* past it.
LEMMA ShownOnce ==
  ASSUME sc \in Schedules, NEW t \in Int, NEW dt \in WallTimes,
         Cardinality(Shows(Today(t), dt)) = 1
  PROVE  On(t, dt) \in Int /\ (On(t, dt) <= t <=> dt <= Clock(sc.loc, t))
<1> DEFINE z    == sc.loc
           date == Today(t)
           wall == date * Day + dt
           r    == On(t, dt)
           b    == z.before
           a    == z.after
<1>1. a \in Int /\ b \in Int /\ z.at \in Int
  BY ScheduleParts
<1>2. Local(z, t) \in Int
  BY <1>1 DEF Local, Offset
<1>3. date \in Int /\ Clock(z, t) \in WallTimes /\ Local(z, t) = date * Day + Clock(z, t)
  BY <1>2, DateAndClock DEF Today, DateOf, Clock
<1>4. wall \in Int /\ (dt <= Clock(z, t) <=> wall <= Local(z, t))
  BY <1>3 DEF Day, Hour, WallTimes
<1>5. \E u : Shows(date, dt) = {u}
  <2>1. Shows(date, dt) \subseteq {wall - b, wall - a}
    BY DEF Shows
  <2>2. IsFiniteSet({wall - b, wall - a})
    <3>1. IsFiniteSet({wall - b})
      BY FS_Singleton
    <3>2. IsFiniteSet({wall - b} \cup {wall - a})
      BY <3>1, FS_AddElement
    <3>3. {wall - b} \cup {wall - a} = {wall - b, wall - a}
      OBVIOUS
    <3> QED
      BY <3>2, <3>3
  <2>3. IsFiniteSet(Shows(date, dt))
    BY <2>1, <2>2, FS_Subset
  <2> QED
    BY <2>3, FS_Singleton
<1>6. \A u : u \in Shows(date, dt) <=> u \in {wall - b, wall - a} /\ Local(z, u) = wall
  BY DEF Shows
<1>7. /\ r \in {wall - b, wall - a}
      /\ \/ Local(z, r) = wall
         \/ b < a /\ z.at + b <= wall /\ wall < z.at + a
  BY <1>1, <1>3, TimeDateShows DEF On, Today
<1> HIDE DEF r, wall, date, z, b, a
<1>8. \/ wall - b < z.at /\ wall - a < z.at /\ r = wall - b
      \/ ~(wall - b < z.at) /\ ~(wall - a < z.at) /\ r = wall - a
      \/ a = b /\ r = wall - a
  BY <1>1, <1>4, <1>5, <1>6, <1>7 DEF Local, Offset, a, b
<1>9. r <= t <=> wall <= Local(z, t)
  BY <1>1, <1>4, <1>8 DEF Local, Offset, a, b
<1>10. r \in Int
  BY <1>1, <1>4, <1>7
<1> QED
  BY <1>4, <1>9, <1>10 DEF r, z

\* The window the shell reports is the one the reconciler protects, in whatever zone,
\* unless a bound of the window is shown not at all or twice on that date.
THEOREM TheWindowsAgree == Spec => []WindowsAgreeButForTheShift
<1> DEFINE Known == sc \in Schedules /\ now \in Nat
<1>1. Init => Known
  BY CalendarAssumption DEF Init
<1>2. Known /\ [Next]_vars => Known'
  BY DEF Next, Advance, SleepAt, vars
<1>3. Known => WindowsAgreeButForTheShift
  <2> SUFFICES ASSUME Known,
                      \A dt \in {sc.start, sc.end} :
                        Cardinality(Shows(DateOf(sc.loc, now), dt)) = 1
               PROVE  WindowsAgree
    BY DEF WindowsAgreeButForTheShift
  <2>1. now \in Int /\ sc.start \in WallTimes /\ sc.end \in WallTimes
    BY ScheduleParts
  <2>2. /\ On(now, sc.start) <= now <=> sc.start <= Clock(sc.loc, now)
        /\ On(now, sc.end) <= now <=> sc.end <= Clock(sc.loc, now)
        /\ On(now, sc.end) \in Int
    BY <2>1, ShownOnce DEF Today
  <2>3. Clock(sc.loc, now) \in Int /\ sc.end \in Int
    <3>1. Local(sc.loc, now) \in Int
      BY <2>1, ScheduleParts DEF Local, Offset
    <3> QED
      BY <2>1, <3>1, DateAndClock DEF Clock, WallTimes
  <2>4. now < On(now, sc.end) <=> Clock(sc.loc, now) < sc.end
    BY <2>1, <2>2, <2>3
  <2> QED
    BY <2>2, <2>4 DEF WindowsAgree, WithinWorkingHours, Within, ActiveDay
<1> QED
  BY <1>1, <1>2, <1>3, PTL DEF Spec
=============================================================================
