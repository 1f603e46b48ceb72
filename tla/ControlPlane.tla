---------------------------- MODULE ControlPlane ----------------------------
(***************************************************************************)
(* The whole of workbox's control plane: the shells that run commands, the *)
(* reconciler's executions, the instance, the document and the clock.  The *)
(* command line and the reconciler never talk to each other: they meet in  *)
(* the Firestore document and in the state of the instance.                *)
(***************************************************************************)
EXTENDS CLI, Reconciler

vars == <<worldVars, cliVars, tick>>

Init == WorldInit /\ CLIInit /\ ReconcilerInit

\* Time passes while there is room under MaxTime, or a shell waits for it.
Advance ==
  /\ \/ clock < MaxTime
     \/ \E s \in Sessions : sess[s].pc = "wait" /\ clock < sess[s].wakeAt
  /\ clock' = clock + 1
  /\ UNCHANGED <<vmVars, storeVars, faults, promise, cliVars, tick>>

\* An operation whose caller is gone ends by itself.
Orphaned ==
  /\ \A s \in Sessions : sess[s].pc \notin {"resuming", "starting", "suspending"}
  /\ \A t \in Ticks : tick[t].pc # "waitVmOp"

OrphanEnds ==
  /\ Orphaned
  /\ \/ vmStatus = "STAGING" /\ vmStatus' \in {"RUNNING", "SUSPENDED", "TERMINATED"}
     \/ vmStatus = "SUSPENDING" /\ vmStatus' = "SUSPENDED"
  /\ UNCHANGED <<clock, lastStart, lastActive, storeVars, faults, promise,
                 cliVars, tick>>

Command(s) == StartCommand(s) /\ UNCHANGED tick

Proceed(s) == SessionStep(s) /\ UNCHANGED tick

SessionFails(s) == SessionFault(s) /\ UNCHANGED tick

Reconcile(t) == TickStep(t) /\ UNCHANGED cliVars

TickFails(t) == AbortTick(t) /\ UNCHANGED cliVars

Emit == ReportActivity /\ UNCHANGED <<cliVars, tick>>

Next ==
  \/ Advance
  \/ Emit
  \/ OrphanEnds
  \/ \E s \in Sessions : Command(s) \/ Proceed(s) \/ SessionFails(s)
  \/ \E t \in Ticks : Reconcile(t) \/ TickFails(t)

Spec == Init /\ [][Next]_vars

\* Time passes, a command that was started goes on, the scheduler starts an
\* execution every minute and it goes on, and operations end.  Nobody has to run
\* a command, no call has to fail and the guest has to report nothing.
Fairness ==
  /\ WF_vars(Advance)
  /\ WF_vars(OrphanEnds)
  /\ \A s \in Sessions : WF_vars(Proceed(s))
  /\ \A t \in Ticks : WF_vars(Reconcile(t))

FairSpec == Spec /\ Fairness

-----------------------------------------------------------------------------
\* Every variable has its type, and every field of a session and of a tick.
TypeOK == WorldTypeOK /\ CLITypeOK /\ ReconcilerTypeOK

\* A hold that a command reported is on record, at least as long as reported,
\* until it has run out or a later sleep or cancel takes it back: no top-up,
\* save, garbage collection or failure in between shortens or loses it
\* (longerAwakeHold, applyFreshHold, the workflow's conditional delete).  It is
\* about one shell: what shells do to each other is LostOnlyToARace.
HoldKept ==
  clock < promise.until =>
    /\ record.hold.state = "awake"
    /\ record.hold.start <= clock
    /\ record.hold.end >= promise.until

\* A tick under a promise: it began after a command reported its hold, which has
\* not run out yet, and no command has taken the promise back since.
UnderPromise(t) ==
  /\ tick[t].under.epoch = promise.epoch
  /\ clock < tick[t].under.until

\* A scheduled sleep that came into effect after the command of the promise last
\* called off the ones in effect.
SleepSincePromise(t) ==
  /\ tick[t].action = "scheduled-sleep"
  /\ tick[t].doc.sleep.start > tick[t].under.since

\* A VM held awake from before the tick began is suspended by that tick only for
\* a later scheduled sleep: a hold inhibits suspend ("protected from the first
\* reconciler tick onwards", App.Wake).
HeldVMNotSuspended ==
  \A t \in Ticks :
    tick[t].pc = "suspendVm" /\ UnderPromise(t) => SleepSincePromise(t)

\* The same, except for a tick that read the clock before, and the document after,
\* a command or a top-up replaced the hold by one that starts later: to that tick
\* the new hold has not begun, and it carries no trace of the old one.
PromiseHonoured ==
  \A t \in Ticks :
    tick[t].pc = "suspendVm" /\ UnderPromise(t) =>
      SleepSincePromise(t) \/ tick[t].doc.hold.start > tick[t].now

\* A resume or a start is not asked for before the hold that protects the woken VM
\* has been saved and reported: no tick finds the VM RUNNING with the command's
\* hold still to be written (App.Wake and App.KeepAwake save, then wake).
WokenUnderHold ==
  \A s \in Sessions :
    /\ sess[s].pc \in {"resuming", "starting"}
    /\ ~sess[s].waited
    /\ sess[s].d > 0
    => promise.until >= sess[s].now + sess[s].d

\* The document on record always holds a span: one without would never be
\* collected, since the workflow deletes only documents that hold one
\* (App.saveOrClear).
NoEmptyDocument == record # NoRecord => ~Empty(record)

\* The workflow and the Go engine give the same verdict for the same reason on
\* what the tick read, although the workflow reads it in two calls and decides in
\* two stages, on the wire form of the spans ("mirrors AutoSuspend").
MirrorsEngine ==
  \A t \in Ticks :
    tick[t].action # "none" =>
      tick[t].action =
        AutoSuspend(tick[t].now, FromWire(tick[t].doc.sleep),
                    FromWire(tick[t].doc.hold), tick[t].now \in WorkingHours,
                    tick[t].lastActive, tick[t].lastStart)

Live(sp, t) == sp # NoSpan /\ t < sp.end

\* A document that disappears while no command makes a step held no span that was
\* still to run out: a tick never deletes what a command wrote after the tick
\* read the document, however late its delete comes.
CollectsOnlyExpired ==
  [][record # NoRecord /\ record' = NoRecord /\ UNCHANGED sess =>
       ~Live(record.sleep, clock) /\ ~Live(record.hold, clock)]_vars

Rewrites(s) ==
  /\ sess[s].pc \in {"save", "refreshSave", "settleSave"}
  /\ sess'[s] # sess[s]
  /\ record' # record

\* A save that loses a keep-awake hold, or replaces it by one that ends earlier,
\* overwrites another shell's write that came between its load and its save: with
\* the document as it was loaded, no command but sleep and cancel does that.
LostOnlyToARace ==
  [][\A s \in Sessions :
       /\ Rewrites(s)
       /\ sess[s].base = record
       /\ record.hold.state = "awake"
       /\ Live(record.hold, clock)
       => record'.hold.state = "awake" /\ record'.hold.end >= record.hold.end]_vars

\* A top-up never brings back a hold that another shell's sleep or cancel, or the
\* reconciler, has removed since the command set it (applyFreshHold), and a silent
\* refresh leaves the scheduled sleep alone; again but for a race.
TopUpRespectsOthers ==
  [][\A s \in Sessions :
       Rewrites(s) /\ sess[s].base = record =>
         /\ sess[s].pc # "save" /\ record.hold = NoSpan => record'.hold = NoSpan
         /\ sess[s].pc = "refreshSave" => record'.sleep = FromWire(record.sleep)]_vars

\* A scheduled sleep that is still to run out leaves the record only by a command
\* that says so: sleep, cancel, a sleep-at that replaces it, a wake while it is in
\* effect, or a keep-awake whose requested hold reaches over it; but for a race.
SleepCalledOff ==
  [][record.sleep.state = "asleep" /\ Live(record.sleep, clock)
       /\ record'.sleep # record.sleep
     => \E s \in Sessions :
          /\ sess'[s] # sess[s]
          /\ \/ sess[s].cmd \in {"sleep", "cancel", "sleep-at"}
             \/ sess[s].base # record
             \/ record.sleep.start <= sess[s].now
             \/ /\ sess[s].cmd = "keep-awake"
                /\ record.sleep.start < sess[s].now + sess[s].d]_vars

\* A wake that waited for capacity and ends without a failure leaves a hold that
\* runs the whole duration from the clock after the wait ("re-measures it once the
\* VM is up"), unless some other command has taken the hold back.
WaitNotTakenOut ==
  [][\A s \in Sessions :
       /\ sess[s].pc \in {"settle", "settleSave"}
       /\ sess'[s].pc = "idle"
       /\ sess[s].d > 0
       /\ faults = 0
       /\ faults' = 0
       => record'.hold.end >= sess[s].now + sess[s].d]_vars

-----------------------------------------------------------------------------
(* The inductive invariant: what makes CollectsOnlyExpired and             *)
(* NoEmptyDocument hold, whatever the shells and the ticks do.             *)

\* A session that is to wait read its clock before the deadline; one that saves
\* without the choice of clearing has a span to save.
WellFormed(x) ==
  /\ x.pc \in {"refresh", "refreshSave"} => x.now < x.deadline
  /\ x.pc = "load" /\ x.cmd = "sleep-at" => x.span \in Span
  /\ x.pc = "save" /\ x.cmd # "wake" => ~Empty(x.doc)

ShellsWellFormed == \A s \in Sessions : WellFormed(sess[s])

\* The record is dated by a commit that has happened, and only a document that
\* does not exist has the date 0.
RecordDated ==
  /\ record.updateTime <= commits
  /\ record.updateTime = 0 => record = NoRecord

\* The document a tick read is no younger than the last commit, and while its date
\* is that of the record it is the record: this is what the precondition of the
\* delete buys, and it needs the dates never to repeat.
SnapshotDated ==
  \A t \in Ticks :
    /\ tick[t].now <= clock
    /\ tick[t].doc.updateTime <= commits
    /\ tick[t].doc.updateTime = 0 => tick[t].doc = NoRecord
    /\ tick[t].doc.updateTime = record.updateTime => tick[t].doc = record

\* The inductive invariant of the proofs, checked before it was proved: the types,
\* the waits that begin before their deadline, and the dates of the documents.
IInv ==
  TypeOK /\ ShellsWellFormed /\ RecordDated /\ SnapshotDated /\ NoEmptyDocument

\* The two stages of the verdict: it is open until the tick has read what decides
\* it, and the guest attribute is read only when the document decides nothing.
DecidedInOrder ==
  \A t \in Ticks :
    /\ tick[t].pc \in {"idle", "getInstance", "readState", "readActivity"}
         => tick[t].action = "none"
    /\ tick[t].pc = "readActivity" => DecideOnState(tick[t].now, tick[t].doc) = "none"

\* The inductive strengthening of MirrorsEngine.
VerdictInv == DecidedInOrder /\ MirrorsEngine

-----------------------------------------------------------------------------
\* Every command comes to its end: the capacity window closes, a transitional
\* state settles, and nothing else makes a shell wait.
CommandsReturn ==
  \A s \in Sessions : sess[s].pc # "idle" ~> sess[s].pc = "idle"

\* A document whose spans have all run out does not stay on record for good while
\* the VM runs.
ExpiredDocumentCollected ==
  []<>(\/ record = NoRecord
       \/ vmStatus # "RUNNING"
       \/ Live(record.sleep, clock)
       \/ Live(record.hold, clock))

\* A VM is not left running for good once nothing speaks for it: no hold, no
\* working hours, no recent and credible activity and no recent start.
IdleVMSuspended ==
  []<>(\/ vmStatus # "RUNNING"
       \/ record.hold.state = "awake" /\ Active(record.hold, clock)
       \/ clock \in WorkingHours
       \/ IdleTimeout = 0
       \/ Recent(Trusted(lastActive, clock), clock)
       \/ Recent(lastStart, clock))

\* A VM does not run for good through a scheduled sleep that stays on record.
SleepTakesEffect ==
  []<>(vmStatus # "RUNNING" \/ ~(record.sleep.state = "asleep"
                                 /\ Active(record.sleep, clock)))
=============================================================================
