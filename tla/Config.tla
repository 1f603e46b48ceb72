------------------------------- MODULE Config -------------------------------
(***************************************************************************)
(* The configuration file as its two readers take it: the command line     *)
(* (internal/config, with the times of internal/schedule) and Terraform    *)
(* (infra/locals.tf and the preconditions of infra/workflow.tf), which     *)
(* bakes it into the reconciler.  Neither sees what the other made of it.  *)
(*                                                                         *)
(* An optional key is a sequence of at most one value, empty when the key  *)
(* is absent or null; a time is the sequence of its fields, a field that   *)
(* is not one or two digits is -1; days are names, trimmed and in lower    *)
(* case; numbers of minutes are counted in halves, since YAML has          *)
(* fractions.                                                              *)
(***************************************************************************)
EXTENDS Integers, Sequences

CONSTANTS DefaultConnect,  \* defaultSSHConnectTimeoutSeconds
          DefaultWait      \* defaultSSHWaitTimeoutSeconds

ASSUME ConfigAssumption == DefaultConnect \in Nat \ {0} /\ DefaultWait \in Nat \ {0}

\* A file in which only the required keys are set.  The legacy keys schedule.wake
\* and schedule.sleep are absent, null or set; blank are the required keys without a
\* value.
Minimal ==
  [name |-> "workbox", hostname |-> "host", blank |-> {}, timezone |-> "known",
   bootGB |-> 10, dataGB |-> 10, swap |-> <<>>, legacy |-> "absent",
   hours |-> <<>>, idle |-> <<>>, connect |-> <<>>, wait |-> <<>>,
   database |-> <<>>, collection |-> <<>>, document |-> <<>>, sshTarget |-> <<>>]

\* What the decoders make of any file.
Key(key, values) == key \in Seq(values) /\ Len(key) <= 1

Decoded(raw) ==
  /\ Key(raw.idle, Int) /\ Key(raw.connect, Int) /\ Key(raw.wait, Int)
  /\ raw.legacy \in {"absent", "null", "set"}
  /\ Len(raw.hours) \in {0, 1}
  /\ raw.hours # <<>> =>
       LET hours == raw.hours[1] IN
       /\ Key(hours.enabled, BOOLEAN) /\ {hours.start, hours.end} \subseteq Seq(Int)
       /\ hours.days \in Seq(STRING)

Given(key, default) == IF key = <<>> THEN default ELSE key[1]

-----------------------------------------------------------------------------
(* internal/config.                                                        *)

\* ParseDayTime, in minutes of the day; -1 is its error.
ParseDayTime(t) ==
  IF Len(t) = 2 /\ t[1] \in 0..23 /\ t[2] \in 0..59 THEN 60 * t[1] + t[2] ELSE -1

WeekdayNames ==
  [sun |-> 0, sunday |-> 0, mon |-> 1, monday |-> 1, tue |-> 2, tues |-> 2,
   tuesday |-> 2, wed |-> 3, weds |-> 3, wednesday |-> 3, thu |-> 4, thur |-> 4,
   thurs |-> 4, thursday |-> 4, fri |-> 5, friday |-> 5, sat |-> 6, saturday |-> 6]

KnownDays(days) == \A i \in DOMAIN days : days[i] \in DOMAIN WeekdayNames

\* Weekdays: no days at all stand for every day.
Weekdays(days) == {WeekdayNames[days[i]] : i \in DOMAIN days}

Active(hours) == hours # <<>> /\ Given(hours[1].enabled, TRUE)

LoadLocation(timezone) == timezone = "known"

\* schedule.New and schedule.Disabled; a refused window has no start.
Build(raw) ==
  LET hours == raw.hours[1]
      start == ParseDayTime(hours.start)
      end   == ParseDayTime(hours.end) IN
  IF ~Active(raw.hours)
    THEN [ok |-> LoadLocation(raw.timezone), enabled |-> FALSE, start |-> -1,
          end |-> -1, days |-> {}]
    ELSE [ok |-> start >= 0 /\ end >= 0 /\ start < end /\ LoadLocation(raw.timezone),
          enabled |-> TRUE, start |-> start, end |-> end, days |-> Weekdays(hours.days)]

\* The YAML decoder drops the fraction of a number it stores in an int.
DecodeInt(halves) == IF halves < 0 THEN -((-halves) \div 2) ELSE halves \div 2

\* Mutant: the shortest timeout that is refused is taken for the shortest accepted.
MinIdleTooLow(minutes) == minutes = 0 \/ minutes >= 4

IdleInRange(minutes) == minutes = 0 \/ minutes >= 5

\* IdleTimeout, in minutes.
IdleTimeoutOf(raw) == IF raw.idle = <<>> THEN 30 ELSE DecodeInt(raw.idle[1])

\* Defaults: an empty string is no value.
Empty == ""

OrDefault(key, default) == IF Given(key, Empty) = Empty THEN default ELSE key[1]

Validate(raw) ==
  /\ raw.blank = {}
  /\ raw.bootGB > 0 /\ raw.dataGB > 0
  /\ IdleInRange(IdleTimeoutOf(raw))
  /\ Given(raw.swap, 0) >= 0
  /\ Given(raw.connect, 1) > 0 /\ Given(raw.wait, 1) > 0
  /\ raw.hours # <<>> => KnownDays(raw.hours[1].days)
  /\ Build(raw).ok

\* Parse: the retired keys are refused even when they are null, then as unknown.
Accepts(raw) == raw.legacy = "absent" /\ Validate(raw)

\* What the command line works with.
Parsed(raw) ==
  [idle |-> IdleTimeoutOf(raw), window |-> Build(raw),
   database |-> OrDefault(raw.database, "(default)"),
   collection |-> OrDefault(raw.collection, "workbox"),
   document |-> OrDefault(raw.document, raw.name),
   sshTarget |-> OrDefault(raw.sshTarget, raw.hostname),
   connect |-> Given(raw.connect, DefaultConnect),
   wait |-> Given(raw.wait, DefaultWait)]

-----------------------------------------------------------------------------
(* infra/locals.tf and infra/workflow.tf.                                  *)

Try(key, default) == IF key = <<>> THEN default ELSE key[1]

\* Mutant: a bare try() lets an empty string through.
BareTry(key, default) == Try(key, default)

\* coalesce(try(key, ""), default): neither null nor "" is a value.
Coalesced(key, default) == IF Try(key, Empty) = Empty THEN default ELSE Try(key, Empty)

TfEnabled(raw) == raw.hours # <<>> /\ Try(raw.hours[1].enabled, TRUE)

\* The regular expression hhmm_re, and the minutes of a time it matches.
Hhmm(t) == Len(t) = 2 /\ t[1] \in 0..23 /\ t[2] \in 0..59

TimesOk(raw) == Hhmm(raw.hours[1].start) /\ Hhmm(raw.hours[1].end)

TfMinutes(raw, t) ==
  IF TfEnabled(raw) /\ TimesOk(raw) THEN t[1] * 60 + t[2] ELSE -1

TfStart(raw) == IF raw.hours = <<>> THEN -1 ELSE TfMinutes(raw, raw.hours[1].start)

TfEnd(raw) == IF raw.hours = <<>> THEN -1 ELSE TfMinutes(raw, raw.hours[1].end)

\* work_days: names that are not known are skipped, and refused below.
TfDays(raw) ==
  IF ~TfEnabled(raw) THEN {}
  ELSE IF raw.hours[1].days = <<>> THEN 0..6
  ELSE {WeekdayNames[d] : d \in {raw.hours[1].days[i] : i \in DOMAIN raw.hours[1].days}
                                \cap DOMAIN WeekdayNames}

TfIdle(raw) == Try(raw.idle, 60)

WholeAndLong(halves) == halves % 2 = 0 /\ (halves = 0 \/ halves >= 10)

\* The preconditions of the workflow.
TfAccepts(raw) ==
  /\ TfEnabled(raw) => TimesOk(raw) /\ TfStart(raw) < TfEnd(raw)
  /\ WholeAndLong(TfIdle(raw))
  /\ raw.hours # <<>> => KnownDays(raw.hours[1].days)
  /\ raw.legacy # "set"

-----------------------------------------------------------------------------
\* What both sides accept, both read alike: the reconciler never protects other
\* hours, waits another time or looks into another document than the commands, and
\* the printed ssh target is the one they use ("the CLI and the reconciler must
\* target the same document").
SidesAgree(raw) ==
  Accepts(raw) /\ TfAccepts(raw) =>
    LET c == Parsed(raw)
        w == c.window IN
    /\ TfIdle(raw) = 2 * c.idle
    /\ TfStart(raw) = w.start /\ TfEnd(raw) = w.end
    /\ TfDays(raw) = IF w.enabled /\ w.days = {} THEN 0..6 ELSE w.days
    /\ c.database = Coalesced(raw.database, "(default)")
    /\ c.collection = Coalesced(raw.collection, "workbox")
    /\ c.document = Coalesced(raw.document, raw.name)
    /\ c.sshTarget = Coalesced(raw.sshTarget, raw.hostname)

\* A schedule that one side refuses, the other refuses too: nothing the commands
\* reject is applied to the reconciler, or the other way round; but for what only one
\* of them looks at (time zones, null legacy keys, fractions of minutes).
RefusedAlike(raw) ==
  /\ LoadLocation(raw.timezone) /\ raw.legacy # "null" /\ TfIdle(raw) % 2 = 0
  /\ raw.blank = {} /\ raw.bootGB > 0 /\ raw.dataGB > 0
  /\ Given(raw.swap, 0) >= 0 /\ Given(raw.connect, 1) > 0 /\ Given(raw.wait, 1) > 0
  => (Accepts(raw) <=> TfAccepts(raw))
=============================================================================
