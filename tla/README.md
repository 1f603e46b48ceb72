# A verification project for workbox

workbox gives one person one Google Compute Engine VM that "feels like a second
computer": a command line wakes it and puts it to sleep, and a Workflow that runs
once a minute suspends it when nothing speaks for keeping it up.  The two never
talk to each other.  They meet in one Firestore document, which holds at most two
spans (a *scheduled sleep* and a *keep-awake hold*), and in the state of the
instance.  Everything that is hard about the program is in that meeting, and that
is what the modules here are about.

Paths are relative to the repository; `src/` in `PROJECT.json` is its root.

## 1. Inventory

| Component | State it keeps | Operations | Talks to |
|---|---|---|---|
| decision engine, `internal/schedule` | none (pure) | `AutoSuspend`, spans, working hours, `ScheduledSleep` | called by the CLI; copied "step for step" in the workflow |
| state document, `internal/state` | one Firestore document: two optional spans, update time | `Load`, `Save` (replaces the whole document), `Clear` (deletes it), pruning | Firestore |
| commands, `internal/cli/app.go` | none between runs; in a run: the clock read at its start, the loaded document, the hold it promises | `Wake`, `KeepAwake`, `Sleep`, `SleepAt`, `Cancel` | document, instance |
| capacity retry, `internal/cli/capacity.go` | deadline, attempts, "waited" | `wakeWithRetry`, `refreshHoldSilently`, `settleAfterWait` | document, instance |
| compute operations, `internal/compute` | a snapshot of the instance (for `LastStart`) | `Wake`, `Sleep`, `WaitStable`, `Status`, `Start`, `Resume`, `Suspend` | Compute Engine |
| reconciler, `infra/reconcile.yaml.tftpl` | one execution: clock, instance, document and activity as read, verdict | read, decide, suspend, collect | document, instance, guest attribute |
| activity emitter, `infra/cloud-init.sh.tftpl` | the guest attribute | report | metadata server |
| boot provisioning, same file | swap file, disk, units | converge on every boot | |
| status, `internal/cli/status.go` | none | reads everything, repeats the verdict | document, instance |
| capacity classification, `internal/compute/capacity.go` | none (pure) | which failures are a shortage, and what its report names | called by the wake operations |
| SSH, `internal/ssh` | one wait: deadline, last error | `WaitReachable`, `ParseForwards`, `CheckLocalPorts`, `Exec` | the system `ssh` |
| configuration, `internal/config`, `infra/locals.tf` | one file, read twice | defaults, validation, the schedule | the CLI, and Terraform, which bakes it into the reconciler |
| diagnostics, `internal/doctor` | the results so far | nine checks in order | instance, attribute, SSH |
| entry point, `cmd/workbox` | Ctrl-C's context | `up`, `ssh`, `forward`, `doctor`: wake, wait, diagnose, hand over | all of the above |
| Herdr hand-over; Terraform's resources | none | | |

**What is hard.**  (a) A tick reads the clock, the instance, the document and the
activity one after the other and acts on the four later; commands write in
between.  (b) `Save` has no precondition: two shells overwrite each other.  The
workflow's delete has one, the update time.  (c) A wake may wait minutes for
capacity, and its hold has to survive the wait without overruling what another
shell decided meanwhile.  (d) A command can fail, or be killed, between any two
calls, and a committed write can look like a failed one.  (e) The precedence of
the verdict exists twice, in Go and in YAML.  (f) Something has to be collected,
suspended or returned *eventually*.  (g) A user at work is known to the reconciler
only by reports that a timer makes, late, in batches of a minute and not always.
(h) The wait for SSH, its probes, its deadline and Ctrl-C end each other in any
order.  (i) The configuration is read by two programs in two languages.  (j) The
swap file is rebuilt by a script that may stop anywhere.  `PROJECT.json` lists these as hazards, each
at its line, with the properties that cover it.

**What makes each component correct.**  Engine: one verdict for the same inputs
wherever it runs.  Document: never empty, never lost but to a race or a command
that says so.  Commands: a hold that was reported is kept and honoured; a sleep
leaves only when called off; the hold precedes the wake.  Retry: the window
closes, the hold is never shortened or brought back.  Reconciler: suspends only
what it may, collects only what has run out, collects it in the end.  Emitter and
grace hold: nobody at work is suspended as idle.  Wait and hand-over: the cause of a
failure is not lost, nothing is woken in vain, doctor answers whatever failed.
Configuration: both readers see the same.  Classification: a shortage and nothing
else is retried, and its report is drawn from it.  Swap: no step leaves a broken file.

## 2. Modules

```
Schedule ─┬─ StateDoc ─┬─ World ─┬─ CLI ────────┐
          │            │         └─ Reconciler ─┴─ ControlPlane ─┬─ MCControlPlane
          │            │              │                          └─ ControlPlaneProofs ── HoldProofs
          │            └─ Verdict ────┤                └─ Session ── SessionProofs
          │                           └─ Status ─┬─ MCStatus
          │                                      └─ StatusProofs
          └─ Calendar ─┬─ MCCalendar
                       └─ CalendarProofs

Capacity ─┐
Forwards ─┼─ Launch ─┬─ MCLaunch
Config ───┘          └─ LaunchProofs

Power ─┬─ PowerCall (abstract)
       └─ Compute ── ComputeProofs        Compute implements PowerCall

Swap ── SwapProofs
```

`Reconciler` and `Status` both extend `Verdict`; `Session` extends `Reconciler`.

* `Schedule` — `internal/schedule`: spans, `KeepAwakeHold`, `AutoSuspend` with its
  eight reasons.  An instant is a natural, the zero time is `NoTime` and a nil
  span `NoSpan`.  Working hours reach the verdict as a truth value.
* `StateDoc` — `internal/state`: `Document` (what a command works on), `Record`
  (what is stored, with the update time), `FromWire`, pruning, `longerAwakeHold`.
  The state `"unknown"` is any wire string but the two known ones.
* `World` — the clock, the instance, the guest attribute, the document, the two
  Firestore commits (`Write`, `Delete`), and `promise`, a history variable: up to
  when a command told the user that the VM is held awake (`until`), when sleeps in
  effect were last called off (`since`), and which command last took it back.
* `CLI` — the commands.  `sess[s]` is the process of one shell: `pc` names the
  remote call that comes next, the other fields are the locals of the Go functions
  (`now`, `d`, `doc`, `deadline`, `waited`).  Each action is one remote call with
  what the code computes from its answer:
  `LoadForWake → Save → Status → CallWake → WakeDone`, with
  `CapacityShortage → Refresh → RefreshSave → Retry` as the loop of
  `wakeWithRetry` and `Settle → SettleSave` as `settleAfterWait`;
  `SleepStatus → CallSuspend → SuspendDone → Clear` for sleep; `Clear` for cancel.
  `Stop`, `LostAnswer`, `WakeFailed` and `RefreshFails` are the failures.
* `Verdict` — the two halves of the workflow's decision, and what it keeps or
  collects, as the YAML has them: on the wire form of the spans.
* `Reconciler` — one execution per member of `Ticks`, one action per call of the
  workflow: `StartTick` (`sys.now()`), `GetInstance`, `ReadState` with the first
  half of the verdict, `ReadActivity` with the second, `SuspendVm`, `WaitVmOp`,
  `Cleanup`; `AbortTick` is any call whose error is raised again.
* `ControlPlane` — their composition, the passage of time, operations that outlive
  their caller, the fairness, and all the properties.
* `Calendar` — the rest of `internal/schedule`, in units of half an hour and a zone
  that changes its offset once: `On`, `WithinWorkingHours`, `NextWorkingHoursStart`,
  `NextOccurrence`, `ScheduledSleepAt`, and `Within`, the same window in the
  workflow's arithmetic.  `TimeDate` is Go's `time.Date` with its two lookups of the
  offset (the library promises only that a wall time that is skipped or repeated
  becomes one of the two candidates; the model has the one the implementation
  takes), `AddDate` keeps the wall time as Go's does.  Time passes, and at any moment
  the user may ask for a sleep.
* `Power`, `PowerCall`, `Compute` — `internal/compute`: the nine states and what the
  calls want of them; the call as its callers see it, one look at a settled instance
  and one request that follows from it; and the calls as written, with the polls of
  `WaitStable`, on an instance that anyone may move between two requests.  `pc` is the
  request that comes next, `seen` a history variable.
* `Status` — `collectStatus`: the four reads, the client's snapshot with its
  lifetime, a raw guest attribute of any kind, a last start in any form, against the
  verdict (`TickReason`) of a tick that finds the same; and what `workbox doctor` makes
  of the attribute (`ActivitySignal`).
* `Session` — a user at work, in time.  The reconciler is that of `Reconciler`, step by
  step; the emitter is the timer of the startup script (`age` is the time since its last
  start), its run, which looks for connections first and dates its report at the end,
  the report that fails and the run that is killed.  The timer is a monotonic one: while
  the VM is suspended it stands still, and a suspend drops the connections.  `Wake` is
  one step here, the hold and then the VM; `Up` is a resume or a boot.  Time waits for
  what is due (`Advance`): a run of the emitter within its cycle, a VM that comes up
  within `Boot`, a tick that has read all it reads within `TickLag`.
* `Launch` — `cmd/workbox`: one process per behaviour, from the configuration over the
  arguments, the wake and the wait for SSH to the hand-over, and `doctor` with its checks.
  `pc` is what comes next, `input` what that step reads; `WorldMoves` and `Interrupt` come
  at any moment.  In the wait time passes, no further than to the next thing due; at an
  instant where the timer, the deadline and a probe fall together every order is possible,
  as in the code's `select`.  The end of a probe (`ProbeFails`, `ProbeKilled`), the end of
  the context (`DeadlineFires`, `Interrupt`) and the look at the context that decides whether
  the probe's error is kept (`Pause`) are three steps.
* `Capacity`, `Forwards`, `Config` — the pure parts of `Launch`: the classification of a
  failed wake, the arguments of `forward`, and the configuration as the command line and
  as Terraform read it.  A loop over a list is a function `r` of the index: `r[i]` is what
  the loop's variables hold after `i` rounds.  Strings that are only compared are members
  of small sets, and a time of day is the sequence of its fields.
* `Swap` — `setup_swap` and `remove_swap` of the startup script, one action per command
  (a test and the command it guards are one), each of which may fail with the partial
  effect it can leave; `Reboot` comes after any of them, and the size wanted changes from
  run to run.
* `MCControlPlane`, `MCCalendar`, `MCStatus`, `MCLaunch` — the instances for TLC.
  `ControlPlaneProofs`, `HoldProofs`, `ComputeProofs`, `SessionProofs`, `StatusProofs`,
  `LaunchProofs`, `CalendarProofs`, `SwapProofs` — the theorems.

Definitions commented as mutants are plausible wrong versions of the definition
that follows.  Nothing uses them; they are there to be put in its place, to show
that the runs would notice.

## 3. Runs

`OneShell`, `TwoShells`, `Liveness`, `HoldReplaced` and `ShortHold` are of
`MCControlPlane`, `MidnightSleep` is of `MCCalendar`, the others of the module of their
name, or of its MC module.

| Run | Question | States |
|---|---|---|
| `OneShell` | Is a reported hold kept and honoured, is the hold always there before the VM, is a sleep called off only by a command that says so, and a live span never collected, when one shell and two overlapping ticks interleave and a call fails anywhere? | 3.4 M |
| `TwoShells` | Is what `Save` loses lost only to the write of another shell in between?  Does `IInv` hold? | 1.7 M |
| `Liveness` | Do commands return, documents get collected, idle VMs suspended, sleeps enforced?  Is the two-stage verdict the engine's, with drifting activity and with spans of an older release? | 0.3 M |
| `Calendar` | Over a change of the clocks, are the next start, the next occurrence and the sleep what the calendar says, and do the two windows agree? | 0.3 M |
| `Compute` | Do `Wake` and `Sleep` return, tell the truth, and implement `PowerCall`? | 0.4 M |
| `Status` | Does status ever contradict the reconciler, whatever it could not read?  Does doctor tell the same of the activity signal? | 0.9 M |
| `Session` | Is anyone who is connected suspended for being idle, though the reports are as late as they may be and one of them fails? | 3.0 M |
| `Launch` | Does every command end, keep the cause, wake nothing in vain and, if it is doctor, answer?  Do the two readers of the configuration agree, and is a shortage told from other failures? | 0.4 M |
| `Swap` | Does any failure or reboot leave a broken swap file, or a run without one fall short of the configuration? | 271 |
| `MidnightSleep` | (violated) Does a sleep that was just asked for ever begin in the past? | |
| `HoldReplaced` | (violated) Does a hold inhibit every suspend? | |
| `ShortHold` | (violated) Does a wake that waited leave the whole duration? | |

**Bounds.**  `MaxTime` 1–3 bounds the clock at which a command may start and time
passes by itself; a shell that waits for capacity takes the clock past it.
Durations of 1 and 3 units against a window of 1–2 and an interval of 1 give holds
that lapse during a wait, that outlast it by less than a window, and that need no
refresh.  Two commands are enough for every pair "set, then take back, shorten or
replace"; the two shells of `TwoShells` make every such pair concurrent.
`MaxFaults` is 1: a second failure ends a second command, no property spans three.
`Drifts {0, 2}` with `MaxActivitySkew` 1 is one report that is trusted and one
that is not.  The unit of time is the same for all durations, so their ratios are
small: `Window / Interval` is 10 in the code and 1 or 2 here, which shortens the
loop and removes no step of it.  Commits carry a counter that is not bounded
itself; commands are.

`Calendar` looks at five days around a change of the clocks on a Sunday and, from
each of their half hours, nine days ahead: every weekday restriction meets the change
once.  The zones are on both sides of UTC, since `time.Date` treats them differently;
the windows begin or end at ordinary times, in the skipped and in the repeated hour.
`Compute` lets others take a settled instance anywhere three times, enough to undo
what the call saw, did and waited for.  `Status` has one change under the command: the
properties speak of reports that none disturbed, and of the age of a snapshot, for which
one restart is the whole case.

`Session` has every duration of the emitter at one unit, two wakes, so that a user is also
seen under a hold that replaced another, and an idle timeout of seven units, the least that the assumption allows.  The code's numbers (60 s, 15 s, 30 s, five minutes) meet the assumption
with two failed reports in a row: `Gap` is 3 * 75 + 30 = 255 s, which leaves 45 s for the
boot.  `SessionProofs` needs none of these bounds.  `Launch` takes the default wait of five
units with a probe of one and a pause of one, and configurations with a wait of seven and
a probe of two; three moves of the VM bring SSH up, down and up again.  Its inputs are some
1000: about 460 configurations that between them give each key every kind of value (absent,
empty, ordinary, at and past its limit), and 540 combinations of forwards and taken ports;
a wake fails in one of 379 ways, with up to two errors and two details.  `Swap` has three sizes (none and
two to change between); its state is finite without a bound.

**Fairness.**  Time passes, a started command and a started tick go on (each makes
only bounded calls), the scheduler starts a tick every minute (`infra/scheduler.tf`),
and Compute Engine operations end.  No fairness is assumed of users, failures or
the guest's reports, so no liveness property rests on them.  In `Liveness` the
clock stops at `MaxTime`, and ticks go on: what has run out by then has to be
collected with the clock standing still, which is the weaker assumption.

In `Compute`, transitions and operations end, and a process that runs goes on; others
move the instance for a bounded number of times, since a call that always meets the
instance in transition would poll for ever, in the code too.

In `Launch`, the process goes on (`Proceed`), time passes, and the context of a wait ends
once its deadline is there (`DeadlineFires`, the runtime's timer); neither Ctrl-C, nor the VM,
nor a wake that fails is fair, so `CommandEnds` rests on the wait's own deadline.

**Deadlock** is checked in every run but `Launch`, where a command ends: elsewhere the
scheduler never stops, and a command can always be asked for.

### What the violations show

*MidnightSleep.*  In a zone that skips midnight (America/Santiago in
September) a wall time between 00:00 and 01:00 does not exist on that day, and
`AddDate`, which keeps the wall time, falls back into the day before.  From 00:30 on
Saturday, "tomorrow" is Saturday 23:30: `workbox sleep 00:00` returns Saturday 00:00,
half an hour ago, and the reconciler suspends the VM at once.
`NextWorkingHoursStart` steps over the days in the same way and never looks at that
Sunday: `NextStartIsNext` fails on this instance too.  In zones that change at night, and in autumn,
`NextStartIsNext` and `OccurrenceIsNext` hold.  `CalendarProofs` makes that exact:
where a change of the clocks stays within a day (`QuietNights`) `SleepIsAhead` proves the
property that this run refutes, so a skipped midnight is its only cause.

*HoldReplaced.*  `KeepAwakeHold` starts a hold at the command's clock, and `Save`
replaces the one that was running.  A tick that read `sys.now()` before that
instant and the document after the save sees a hold that has not begun and no
trace of the old one.  With no recent activity it suspends a VM that was held
awake throughout.  The window is the latency between the workflow's `init` and
`readState`; the next wake brings the VM back.  `PromiseHonoured` says that this is the
only way: but for it, a tick that begins under a promise honours it.  `ReportedHoldHonoured`
is the theorem.

*ShortHold.*  `applyFreshHold` does not set a hold again that is gone, lest it undo
another shell's cancel.  The reconciler removes holds too.  A `keep-awake` whose
duration lapses in one wait for capacity, while the VM is RUNNING long enough for a
tick to collect the document, ends without a hold, though the command's comment
and `docs/operations.md` count the duration from when the VM is up.

A fourth disagreement is stated by a property that holds.  The engine turns the ends
of the window into instants, the workflow compares minutes since midnight: if an end is
02:30 on the night the clocks go back, 02:30 comes twice, the engine takes one of the two,
and the workflow goes by the clock on the wall, though the package comment says the same
decision runs in both.  `WindowsAgreeButForTheShift` says that nothing else makes them
differ, and `TheWindowsAgree` proves it for every zone and every window.

So is a fifth.  `waitReachable` means to "keep the last one that finished on its own"
(`ssh.go:161-162`), so that "the cause is not lost" (`WaitReachable`), but knows a killed
probe only by the context, which it looks at after the probe has ended.  One that fails by
itself as the deadline comes is then taken for killed, and the timeout names the probe before
it, or none if it was the first.  The run `Launch` reaches that state; `CauseKept` says that
no other error is lost and that none of a killed probe is named.

## 4. Proofs

`ControlPlaneProofs` proves, for every value of the constants (any number of
shells and of overlapping ticks, any durations, no bound on anything but what the
constants say), from the named assumptions of `Schedule`, `World` and `CLI`:

| Theorem | States |
|---|---|
| `Inductive` | `Spec => []IInv` |
| `TypeCorrect` | `Spec => []TypeOK` |
| `NeverEmpty` | `Spec => []NoEmptyDocument` |
| `CollectionSafe` | `Spec => CollectsOnlyExpired` |
| `EngineMirrored` | `Spec => []MirrorsEngine` |

`HoldProofs` goes on from there, with one more assumption of `World` (`HoldsAssumption`:
a hold that is on record at first has begun, as every hold a command writes has):

| Theorem | States |
|---|---|
| `CommandsInOrder` | `Spec => [](IInv /\ CommandInv)` |
| `HoldLostOnlyToARace` | `Spec => LostOnlyToARace` |
| `TopUpsRespectOthers` | `Spec => TopUpRespectsOthers` |
| `SleepLeavesBySayingSo` | `Spec => SleepCalledOff` |
| `PromisesInOrder` | `OneShell /\ Spec => [](IInv /\ CommandInv /\ PromiseInv)` |
| `ReportedHoldKept` | `OneShell /\ Spec => []HoldKept` |
| `ReportedHoldHonoured` | `OneShell /\ Spec => []PromiseHonoured` |
| `NeverWokenUnprotected` | `OneShell /\ Spec => []WokenUnderHold` |

`OneShell` says that `Sessions` has one member at most.  The number of ticks is not
restricted.  The last three do not hold of two shells, and are not promised: `Save` has no
precondition, so one shell may replace what another has just reported; what is left to
say of any number of shells is the second to the fourth theorem.

`ComputeProofs` proves, for any number of moves and faults:

| Theorem | States |
|---|---|
| `Inductive` | `Spec => []IInv` (of `Compute`) |
| `AlwaysTruthful` | `Spec => []Truthful` |
| `TypeCorrect` | `Spec => []TypeOK` |
| `Implements` | `Spec => OneLook`, that is `PowerCall!Spec` |

`SessionProofs` proves, for all periods, bounds and numbers of executions and of missed
reports, from the assumptions of `Schedule`, `World` and `SessionAssumption` (the idle
timeout exceeds the gap and the boot; a run fits its period; the clocks of the VM and of
the workflow differ by no more than the skew bound, less the time a tick reads for):

| Theorem | States |
|---|---|
| `Inductive` | `Spec => []IInv` (of `Session`) |
| `UseProtected` | `Spec => []UseIsProtected` |

`StatusProofs` proves, for all documents, stamps, start times, working hours and
lifetimes of a snapshot, and any number of changes under the command:

| Theorem | States |
|---|---|
| `Inductive` | `Spec => []StatusInv` |
| `ReportedStartFresh` | `Spec => StartIsFresh` |
| `ReportNeverContradicts` | `Spec => []NeverContradicts` |
| `ReportSaysWhatItKnows` | `Spec => []SaysWhatItKnows` |
| `ReportedEarliestHonest` | `Spec => []EarliestIsHonest` |
| `ReportAgreesWithDoctor` | `Spec => []DoctorAgrees` |

`LaunchProofs` proves, for all waits, probes and pauses, any number of moves of the VM,
argument lists and details of any length, and any input the decoders can make.  That is what
the clauses of `LaunchAssumption` say: a key of a configuration is absent or has one value of
its type (`Decoded`), an argument of `forward` is a list of fields (`IsArgs`), and a failed
wake is an API error or none, with its details in a list (`Failure`).

| Theorem | States |
|---|---|
| `Inductive` | `Spec => []LaunchInv` |
| `TheCauseIsKept` | `Spec => []CauseKept` |
| `AVMThatIsUpIsFound` | `Spec => []UpInTimeIsFound` |
| `TheHintFollowsTheWait` | `Spec => []HintFollowsTheWait` |
| `DoctorKeepsItsWord` | `Spec => []DoctorAnswers` |
| `TheReadersAgree` | `Spec => []ReadersAgree` |
| `TheReadersRefuseAlike` | `Spec => []ReadersRefuseAlike` |
| `InputsInductive` | `Spec => [](LaunchInv /\ Inputs)` |
| `NothingIsWokenInVain` | `Spec => []NothingWokenInVain` |
| `TheShortagesAreTold` | `Spec => []ShortagesTold` |
| `TheReportsAreGrounded` | `Spec => []ReportsGrounded` |

`CalendarProofs` proves, for all schedules, zones with a change of their offset, dates and
wall times:

| Theorem | States |
|---|---|
| `TheWindowsAgree` | `Spec => []WindowsAgreeButForTheShift` |
| `SleepsFit` | `QuietNights /\ Spec => []CalendarInv` |
| `TheNextStartIsNext` | `QuietNights /\ Spec => []NextStartIsNext` |
| `TheOccurrenceIsNext` | `QuietNights /\ Spec => []OccurrenceIsNext` |
| `SleepIsAhead` | `QuietNights /\ Spec => SleepNotInThePast` |
| `TheSleepGivesWay` | `QuietNights /\ Spec => []SleepGivesWay` |
| `TheSleepEndsInAWindow` | `QuietNights /\ LongWindows /\ Spec => []SleepEndsInAWindow` |

`QuietNights` says of each zone that the hour its clock skips, with as much on either side,
or the hour it repeats, lies within one day.  The five zones of the run `Calendar` meet
it; the zone of `MidnightSleep` does not, and TLC refutes `NextStartIsNext`,
`OccurrenceIsNext` and `SleepEndsInAWindow` there as well as `SleepNotInThePast`.
`LongWindows` says that a window is longer than what the clock skips: a shorter one may be
skipped as a whole, and then does not open where the sleep ends.

`SwapProofs` proves, for all sizes:

| Theorem | States |
|---|---|
| `Invariance` | `Spec => []IInv` (of `Swap`) |
| `SwapNeverBroken`, `SwapHeldFileStays`, `SwapConverges` | the three properties of the run |

*The inductive invariant of `ControlPlane`.*  `TypeOK` alone is not inductive: `StartWait` subtracts
two clock readings, which is a natural only because a session in `refresh` or
`refreshSave` read its clock before the deadline (`WellFormed`, first clause).
`NoEmptyDocument` needs that what keep-awake and sleep-at save without the choice
of clearing holds a span (third clause), which for sleep-at needs that its span is
one (second).  `CollectsOnlyExpired` needs `SnapshotDated`: as long as the document
a tick read has the update time of the record it *is* the record; and that needs
dates that grow (`RecordDated`), since a date used twice would let a late delete
pass its precondition.

*The argument.*  `ShellStep` and `TickStepTypes` say once what any step of a shell,
or of a tick, has to satisfy to keep `IInv`; the lemmas after them show it for the
actions.  `CollectionSafe` then is one action-level fact: the only step that
deletes without a shell moving is `Cleanup`, and there the record is the document
the tick read, whose spans had run out at a clock not later than the present one.
`EngineMirrored` strengthens `MirrorsEngine` by `DecidedInOrder` (the verdict is
open until the step that decides it) and rests on `StagesAgree`, the equivalence
of the two decision procedures for every document.

*Commands and their saves.*  `CommandInv` says of each command what is true of it whoever
else is at work: where it may be (`Steps`), and how the document it is about to write
relates to the record it loaded.  `HoldFits` has the hold one asked for or the one
loaded, and no shorter than a live one; `SleepFits` has the sleep untouched, or called off
by a command that says so.  One lemma per document the code computes (`WakeFits`,
`KeepAwakeFits`, `SleepAtFits`, `RefreshFits`, `SettleFits`) establishes them, and they
stay true because they speak of the copy (`base`), not of the record.  The
action properties follow where the copy *is* still the record, which is what they assume.

*Promises.*  With one shell the copy is the record, or a tick has collected it since
(`Current`); that is what `OneShell` buys.  `HoldKept` is inductive together with it and
with `PromiseFits`, which has the promise given before the VM is touched, hence
`WokenUnderHold`.  For `PromiseHonoured`, `TickInOrder` follows a tick that began under the
promise through its reads: no sleep on record, or about to be written back, was in effect
when sleeps were last called off (`SleepsLater`, `After`), and a hold in its document
that does not stop it had, by its clock, not begun.  That last case is the one
`HoldReplaced` exhibits; the invariant shows that there is no other.

*Status.*  `ReadStands` says that, as long as nothing changed, what the command has read is
what there is; `SnapshotDated` that a snapshot of another instance is older than the
change, whence `StartIsFresh`.  The other four then are about two verdicts on the same
state: `StatusProofs` goes through the reasons of the engine and of the workflow with each
of the reads known or unknown.

*Launch.*  `Found` bounds when the probe that finds a VM that is up can start: no later than a
probe and a pause after it came up.  With `Waits` (a wait that goes on has not reached its
deadline) that is `UpInTimeIsFound`.  `Causes` says of each place in the wait which error
`lastErr` holds, and that after a probe that ended at the deadline no other one follows;
that is `CauseKept`.  `Checked` counts the answers of doctor check by check;
`Roles` has which command can be where.  The two readers of the configuration are
compared key by key for an arbitrary decoded file: the minutes of a time, the days, the
defaults.  This needs no invariant but that the configuration is an input.

*Loops.*  What a loop computes for every list needs an induction over its rounds, and the
library's induction theorems take an operator, which the provers cannot instantiate.
`Induction` states it for a set of numbers instead: one that holds 0, and with `i < n` also
`i + 1`, holds `0..n`.  It follows from finiteness alone: if a number were missing, `i |-> i + 1`
would map the members below it one to one into those among them that are not 0.  `Recursion`
builds on it that the recursive functions of the model are the functions their equations
describe.  Each loop then has its invariant by rounds: the ports `ParseForwards` has accepted
are distinct and can be bound on a loopback family (`ForwardRounds`); `splitList` has kept
the first usable names, in order, up to the cut (`ListRounds`, `Places`, `ListIsCut`); a field
of the merged detail is the first value any detail gives (`MergeRounds`, `MergedFields`).
`Inputs` carries them to the steps that read them: the arguments parsed and the failure
classified are of their kind, and a `forward` that is about to wake the VM has found the
ports of its arguments free.

*Calendar.*  The lemmas before the theorems establish what `time.Date` and `AddDate` do on a
quiet night: instants are ordered as their dates (`DayByDay`), so that a step of a
calendar day moves the date by one, and the first start among eight days is
the least of all.  `TheWindowsAgree` needs none of that: `ShownOnce` shows
that where a wall time comes exactly once on a date, being past the instant and being past
the time on the clock are the same.

*Compute.*  `Truthful` speaks of a call that is over; `CallSeen` adds what a call under
way knows: the history covers the present state, and an outcome is that of its own
operation.  `Simulation` maps each step: a poll is a stutter, the look that decides is
`Decide`, and so on; it needs the types only, because the nine states are all stable,
in transition or unsupported.  What it buys is that the steps `Status`, `SleepStatus`,
`CallWake` and `CallSuspend` of `CLI` may be single steps.

*Session.*  Two promises meet in `UseIsProtected`.  The emitter's is `ReportedUpTo`: up to
there a connection may be unreported, and `EmitterInv` says that an open one is younger, or
the last report is.  It moves only when a run starts, ends or fails, and never falls
behind the clock by more than `Gap`.  The hold's is `HoldInv`, and `TickInv` carries it into a
tick that has read the document: one that goes on to the attribute began after the hold
ran out, or before the last wake.  The step that decides, `ReadActivity`, then has the two cases: a
connection older than `Gap` has a report that is younger than the idle timeout, and one
within the wait for SSH would still be under the hold.  `SnapshotInv` is the dating
argument of `ControlPlane` again, for the delete.

*Swap.*  The three properties say nothing about a run under way.  `Building`,
`Built`, `Removing` and `Attaching` say what is on the disk where the run is: while a file is
being built there is no other and the kernel holds none, the file that is moved is whole,
and what is attached exists.  A run that met no failure (`clean`) then ends in what it wants.

All the inductive invariants were checked by TLC on the instances of the runs as well:
`CommandInv` on both instances of `ControlPlane`, `PromiseInv` on the one with one shell,
`StatusInv`, `LaunchInv`, `Inputs` and `CalendarInv` on those of their modules; `IInv` of
`ControlPlane` is part of a run (`TwoShells`).

**Only model-checked.**  Every safety property that a passing run checks, invariants, action
properties and the refinement of `Power`, is stated by a theorem.  Liveness
(`CommandsReturn`, `ExpiredDocumentCollected`, `IdleVMSuspended`, `SleepTakesEffect`,
`CallReturns`, `CommandEnds`) rests on fairness and `ENABLED`, which are out of the prover's
reach.

## 5. What is not modelled

* *Data.*  `updated_by`, messages, reasons of errors, timestamps' formatting.
* In `ControlPlane`, *working hours* are a set of instants (`Calendar` has them as the
  code does), and of the *states* `STAGING` stands for `PROVISIONING` too, while `STOPPING`,
  `REPAIRING` and unknown statuses do not occur (`Compute` has all nine).
* *Clock skew between machines.*  All processes read one clock.  The skew that
  the code defends against, that of the activity report, is modelled.
* *Time between two lines of Go.*  `wakeWithRetry` and the refresh read the clock
  a few instructions apart; the model reads it once.
* In `Session`: *working Herdr agents* count as use too, but the emitter asks for them with
  a bound, and the answer may fail each time, so nothing holds of them but what holds of
  no use; a scheduled sleep, which suspends whoever is connected; the calls inside a wake,
  which `ControlPlane` has.  A connection that came after the hold of a wake had been
  replaced under a tick that read its clock before is the case of `HoldReplaced`, and
  the second half of `UseIsProtected` excepts it.
* In `Config`: *finding and reading the file*, the YAML decoder but for fractions of numbers,
  `expandUser`, and the keys only one side reads.
* In `Capacity`: the *sanitizing and bounding* of single strings (a value is what is left of
  it), the wording of errors and notices, the recovery commands that notices name.
* In `Launch`: a *configuration that is changed* between two readings, the argument lists of
  `ssh` and `herdr`, the trimming of ssh's stderr, the cobra tree and completion.
* The rest of *provisioning* (disk, packages, Docker, Tailscale, the user's tools): idempotent
  installs of software that is not in the repository.  *Herdr* is a hand-over.
  Terraform's *resources* are declarative.
* The rest of *status*: its JSON and its lines are renderings of what `Status` computes.

## 6. Plan

1. (done) `ControlPlane` and its proofs; `Calendar`; `Compute` with its refinement and
   proofs; `Status`; `Session` and `Swap` with their proofs; `Launch` with `Capacity`,
   `Forwards` and `Config`.
2. (done) Proofs of the holds and sleeps of `ControlPlane`, of `Status`, `Calendar` and
   `Launch`, its loops over lists included.
3. `CapacityRetry`: one wake in real time, attempts that take time, and the theorem
   that a hold longer than an interval and an attempt never lapses during the wait.
4. `PowerPolicy`: the abstract promise of the control plane (a VM is up, held,
   asleep), with `ControlPlane` shown to implement it but for the replaced hold.
