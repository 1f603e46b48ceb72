-------------------------------- MODULE CLI --------------------------------
(***************************************************************************)
(* The commands of internal/cli that change state, one shell per member of *)
(* Sessions.  Every call a command makes to Firestore or Compute Engine is *)
(* a step of its own, so that other shells, the reconciler and time come   *)
(* in between; what a command computes between two calls is part of the    *)
(* step.  The compute loops of internal/compute (Status, wait out a        *)
(* transitional state, act) are the steps Status and SleepStatus on.       *)
(***************************************************************************)
EXTENDS World

CONSTANTS Sessions,
          Commands,      \* the commands the shells run
          MaxCommands,   \* bound on the commands of all shells together
          MaxTime,       \* bound on the clock outside a capacity wait
          SshWait,       \* ssh.wait_timeout_seconds
          Durations,     \* the durations keep-awake is asked for
          SleepDelays,   \* how far ahead a scheduled sleep may begin
          SleepLengths,  \* the lengths of a scheduled sleep
          Window,        \* capacityRetryWindow
          Interval       \* capacityRetryInterval

AllCommands == {"wake", "keep-awake", "sleep", "sleep-at", "cancel"}

ASSUME CLIAssumption ==
  /\ Commands \subseteq AllCommands
  /\ MaxCommands \in Nat
  /\ MaxTime \in Nat
  /\ SshWait \in Nat \ {0}
  /\ Durations \subseteq Nat \ {0}
  /\ SleepDelays \subseteq Nat
  /\ SleepLengths \subseteq Nat \ {0}
  /\ Window \in Nat \ {0}
  /\ Interval \in Nat \ {0}

VARIABLES sess,
          issued  \* commands started so far

cliVars == <<sess, issued>>

SessionPCs ==
  {"idle", "load", "save", "status", "resume", "start", "resuming", "starting",
   "refresh", "refreshSave", "wait", "settle", "settleSave",
   "sleepStatus", "suspend", "suspending", "clear"}

\* now is the last clock reading, d the hold's duration (0 for no top-up), span
\* the sleep sleep-at asks for, doc the document to be written.  base is a
\* history field: the record the last Load read.
Session == [pc : SessionPCs, cmd : AllCommands \cup {"none"}, now : Nat,
            d : Nat, span : OptionalSpan, doc : Document, base : Record,
            deadline : Nat, wakeAt : Nat, waited : BOOLEAN]

IdleSession == [pc |-> "idle", cmd |-> "none", now |-> 0, d |-> 0,
                span |-> NoSpan, doc |-> NoDocument, base |-> NoRecord,
                deadline |-> 0, wakeAt |-> 0, waited |-> FALSE]

CLITypeOK ==
  /\ sess \in [Sessions -> Session]
  /\ issued \in 0..MaxCommands

CLIInit ==
  /\ sess = [s \in Sessions |-> IdleSession]
  /\ issued = 0

GraceWindow == IF IdleTimeout = 0 THEN 0 ELSE IdleTimeout + SshWait

Return(s) == sess' = [sess EXCEPT ![s] = IdleSession]

Goto(s, pc) == sess' = [sess EXCEPT ![s].pc = pc]

SaveOrClear(d) == IF Empty(d) THEN Delete ELSE Write(d)

Earlier(a, b) == IF a < b THEN a ELSE b

-----------------------------------------------------------------------------
\* The duration of the hold a command sets; 0 when it sets none.
HoldDurations(cmd) ==
  IF cmd = "wake" THEN {GraceWindow}
  ELSE IF cmd = "keep-awake" THEN Durations
  ELSE {0}

\* The scheduled sleep a command asks for.
SleepSpans(cmd) ==
  IF cmd = "sleep-at"
    THEN {ScheduledSleep(clock + delay, length) :
            delay \in SleepDelays, length \in SleepLengths}
    ELSE {NoSpan}

\* Mutant: wake and keep-awake wake the VM first.
WakeFirst(cmd) ==
  IF cmd = "sleep" THEN "sleepStatus"
  ELSE IF cmd = "cancel" THEN "clear"
  ELSE IF cmd = "sleep-at" THEN "load"
  ELSE "status"

FirstStep(cmd) ==
  IF cmd = "sleep" THEN "sleepStatus"
  ELSE IF cmd = "cancel" THEN "clear"
  ELSE "load"

\* What is left of an earlier promise once the command cmd has begun.
Retracted(cmd) ==
  IF cmd \in {"sleep", "cancel"} THEN [NoPromise EXCEPT !.epoch = issued + 1]
  ELSE IF cmd = "sleep-at"
    THEN [promise EXCEPT !.since = NoTime, !.epoch = issued + 1]
  ELSE promise

\* A command begins: it takes its arguments and reads the clock.
StartCommand(s) ==
  /\ sess[s].pc = "idle"
  /\ issued < MaxCommands
  /\ clock <= MaxTime
  /\ issued' = issued + 1
  /\ \E cmd \in Commands :
       /\ \E d \in HoldDurations(cmd), span \in SleepSpans(cmd) :
            sess' = [sess EXCEPT ![s] =
              [IdleSession EXCEPT !.pc = FirstStep(cmd), !.cmd = cmd,
                                  !.now = clock, !.d = d, !.span = span]]
       /\ promise' = Retracted(cmd)
  /\ UNCHANGED <<clock, vmVars, storeVars, faults>>

-----------------------------------------------------------------------------
(* wake, keep-awake and sleep-at: load, then save.                         *)

Loaded(s) == ActiveDoc(Load(record), sess[s].now)

\* wakeWithRetry begins: the window runs from the clock of that moment.
EnterRetry(session) ==
  [session EXCEPT !.pc = "status", !.deadline = clock + Window,
                  !.doc = NoDocument, !.base = NoRecord]

HeldUntil(session) ==
  IF session.d > 0 /\ session.doc.hold.state = "awake"
    THEN session.doc.hold.end
    ELSE 0

\* Mutant: wake leaves a sleep in effect.
WakeDocKeepsSleep(doc, now, d) ==
  [sleep |-> doc.sleep,
   hold  |-> IF d > 0 THEN LongerAwakeHold(doc, KeepAwakeHold(now, d))
                      ELSE doc.hold]

\* The document wake saves: only a sleep in effect is cancelled.
WakeDoc(doc, now, d) ==
  [sleep |-> IF Active(doc.sleep, now) THEN NoSpan ELSE doc.sleep,
   hold  |-> IF d > 0 THEN LongerAwakeHold(doc, KeepAwakeHold(now, d))
                      ELSE doc.hold]

\* Nothing is saved when the hold on record is longer and no sleep is cancelled.
WakeChanges(doc, now, d) ==
  \/ Active(doc.sleep, now)
  \/ d > 0 /\ ~(doc.hold.state = "awake" /\ doc.hold.end > now + d)

LoadForWake(s) ==
  /\ sess[s].pc = "load"
  /\ sess[s].cmd = "wake"
  /\ LET doc == Loaded(s)
         session == [sess[s] EXCEPT !.doc = WakeDoc(doc, sess[s].now, sess[s].d)] IN
     IF WakeChanges(doc, sess[s].now, sess[s].d)
       THEN /\ sess' = [sess EXCEPT ![s] =
                          [session EXCEPT !.pc = "save", !.base = record]]
            /\ UNCHANGED promise
       ELSE /\ sess' = [sess EXCEPT ![s] = EnterRetry(session)]
            /\ promise' = Promised(HeldUntil(session), sess[s].now)
  /\ UNCHANGED <<clock, vmVars, storeVars, faults, issued>>

\* Mutant: a sleep that begins as the hold ends is cancelled too.
KeepAwakeDocAtEnd(doc, now, d) ==
  LET req == KeepAwakeHold(now, d) IN
  [sleep |-> IF doc.sleep # NoSpan /\ req.end >= doc.sleep.start
               THEN NoSpan ELSE doc.sleep,
   hold  |-> LongerAwakeHold(doc, req)]

\* The document keep-awake saves: it is the hold asked for, not a longer one that
\* is kept, that cancels a sleep.
KeepAwakeDoc(doc, now, d) ==
  LET req == KeepAwakeHold(now, d) IN
  [sleep |-> IF doc.sleep # NoSpan /\ req.end > doc.sleep.start
               THEN NoSpan ELSE doc.sleep,
   hold  |-> LongerAwakeHold(doc, req)]

LoadForKeepAwake(s) ==
  /\ sess[s].pc = "load"
  /\ sess[s].cmd = "keep-awake"
  /\ sess' = [sess EXCEPT ![s] =
       [@ EXCEPT !.pc = "save", !.base = record,
                 !.doc = KeepAwakeDoc(Loaded(s), sess[s].now, sess[s].d)]]
  /\ UNCHANGED <<worldVars, issued>>

LoadForSleepAt(s) ==
  /\ sess[s].pc = "load"
  /\ sess[s].cmd = "sleep-at"
  /\ sess' = [sess EXCEPT ![s] =
       [@ EXCEPT !.pc = "save", !.base = record, !.span = NoSpan,
                 !.doc = Set(Loaded(s), "sleep", sess[s].span)]]
  /\ UNCHANGED <<worldVars, issued>>

Commit(s) ==
  IF sess[s].cmd = "wake" \/ sess[s].pc = "settleSave"
    THEN SaveOrClear(sess[s].doc)
    ELSE Write(sess[s].doc)

Save(s) ==
  /\ sess[s].pc = "save"
  /\ Commit(s)
  /\ IF sess[s].cmd = "sleep-at"
       THEN Return(s) /\ UNCHANGED promise
       ELSE /\ sess' = [sess EXCEPT ![s] = EnterRetry(@)]
            /\ promise' = Promised(HeldUntil(sess[s]), sess[s].now)
  /\ UNCHANGED <<clock, vmVars, faults, issued>>

-----------------------------------------------------------------------------
(* wakeWithRetry, around compute.Wake.                                     *)

\* compute.Wake returned nil.
Awake(session) ==
  IF session.waited
    THEN [session EXCEPT !.pc = "settle", !.now = clock]
    ELSE IdleSession

\* A transitional state is polled until it settles: the step waits for that.
Status(s) ==
  /\ sess[s].pc = "status"
  /\ vmStatus \notin Transitional
  /\ sess' = [sess EXCEPT ![s] =
       IF vmStatus = "RUNNING"        THEN Awake(@)
       ELSE IF vmStatus = "SUSPENDED" THEN [@ EXCEPT !.pc = "resume"]
       ELSE [@ EXCEPT !.pc = "start"]]
  /\ UNCHANGED <<worldVars, issued>>

\* The state the call needs, and the step that waits for its operation.
Needs(pc) == IF pc = "resume" THEN "SUSPENDED" ELSE "TERMINATED"

WaitingFor(pc) == IF pc = "resume" THEN "resuming" ELSE "starting"

\* The API refuses a call the instance's state, read a moment ago, no longer
\* allows; that error ends the command.
CallWake(s) ==
  /\ sess[s].pc \in {"resume", "start"}
  /\ IF vmStatus = Needs(sess[s].pc)
       THEN vmStatus' = "STAGING" /\ Goto(s, WaitingFor(sess[s].pc))
       ELSE UNCHANGED vmStatus /\ Return(s)
  /\ UNCHANGED <<clock, lastStart, lastActive, storeVars, faults, promise, issued>>

\* A resume leaves the last start as it was.
WakeDone(s) ==
  /\ sess[s].pc \in {"resuming", "starting"}
  /\ vmStatus' = "RUNNING"
  /\ lastStart' = IF sess[s].pc = "starting" THEN clock ELSE lastStart
  /\ sess' = [sess EXCEPT ![s] = Awake(@)]
  /\ UNCHANGED <<clock, lastActive, storeVars, faults, promise, issued>>

\* The operation fails for a reason other than capacity.
WakeFailed(s) ==
  /\ sess[s].pc \in {"resuming", "starting"}
  /\ vmStatus' \in IF sess[s].pc = "resuming" THEN {"SUSPENDED", "TERMINATED"}
                                              ELSE {"TERMINATED"}
  /\ Fault
  /\ Return(s)
  /\ UNCHANGED <<clock, lastStart, lastActive, storeVars, promise, issued>>

StartWait(session) ==
  [session EXCEPT !.pc = "wait",
                  !.wakeAt = clock + Earlier(Interval, session.deadline - session.now),
                  !.doc = NoDocument, !.base = NoRecord]

\* Mutant: one more attempt at the deadline.
WindowPassed(session) == session.deadline < clock

WindowOver(session) == session.deadline <= clock

\* The zone has no capacity: the call is refused, or the operation fails and
\* leaves the instance suspended or terminated.  The command gives up when the
\* window is over.
CapacityShortage(s) ==
  /\ \/ /\ sess[s].pc \in {"resume", "start"}
        /\ vmStatus = Needs(sess[s].pc)
        /\ UNCHANGED vmStatus
     \/ /\ sess[s].pc = "resuming"
        /\ vmStatus' \in {"SUSPENDED", "TERMINATED"}
     \/ /\ sess[s].pc = "starting"
        /\ vmStatus' = "TERMINATED"
  /\ LET session == [sess[s] EXCEPT !.now = clock, !.waited = TRUE] IN
     sess' = [sess EXCEPT ![s] =
       IF WindowOver(sess[s]) THEN IdleSession
       ELSE IF session.d = 0  THEN StartWait(session)
       ELSE [session EXCEPT !.pc = "refresh"]]
  /\ UNCHANGED <<clock, lastStart, lastActive, storeVars, faults, promise, issued>>

\* Mutant: a hold that is gone is set again.
RevivedHoldApplies(raw, active, now, d) ==
  /\ d > 0
  /\ active.hold = NoSpan \/ now + d > active.hold.end

\* applyFreshHold: a hold that is gone is not set again, a live one not shortened.
FreshHoldApplies(raw, active, now, d) ==
  /\ d > 0
  /\ raw.hold # NoSpan
  /\ active.hold = NoSpan \/ now + d > active.hold.end

\* A live hold that outlasts the window by another one needs no refresh.
Lasts(active, deadline) ==
  active.hold # NoSpan /\ active.hold.end > deadline + Window

\* refreshHoldSilently, up to its write.
Refresh(s) ==
  /\ sess[s].pc = "refresh"
  /\ LET now == sess[s].now
         d == sess[s].d
         raw == Load(record)
         active == ActiveDoc(raw, now) IN
     sess' = [sess EXCEPT ![s] =
       IF /\ ~Lasts(active, sess[s].deadline)
          /\ FreshHoldApplies(raw, active, now, d)
         THEN [@ EXCEPT !.pc = "refreshSave", !.base = record,
                        !.doc = Set(raw, "hold", KeepAwakeHold(now, d))]
         ELSE StartWait(@)]
  /\ UNCHANGED <<worldVars, issued>>

RefreshSave(s) ==
  /\ sess[s].pc = "refreshSave"
  /\ SaveOrClear(sess[s].doc)
  /\ sess' = [sess EXCEPT ![s] = StartWait(@)]
  /\ UNCHANGED <<clock, vmVars, faults, promise, issued>>

\* An error of the refresh's load or write is dropped.
RefreshFails(s) ==
  /\ sess[s].pc \in {"refresh", "refreshSave"}
  /\ Fault
  /\ sess' = [sess EXCEPT ![s] = StartWait(@)]
  /\ UNCHANGED <<clock, vmVars, storeVars, promise, issued>>

Retry(s) ==
  /\ sess[s].pc = "wait"
  /\ clock >= sess[s].wakeAt
  /\ Goto(s, "status")
  /\ UNCHANGED <<worldVars, issued>>

\* sleepToCancel: a sleep that came into effect during the wait or, for
\* keep-awake, one the hold asked for now reaches over.
CancelsSleep(active, session) ==
  /\ active.sleep # NoSpan
  /\ \/ Active(active.sleep, session.now)
     \/ /\ session.cmd = "keep-awake"
        /\ session.now + session.d > active.sleep.start

\* The document settleAfterWait saves.
SettledDoc(raw, session) ==
  LET active == ActiveDoc(raw, session.now) IN
  [sleep |-> IF CancelsSleep(active, session) THEN NoSpan ELSE raw.sleep,
   hold  |-> IF FreshHoldApplies(raw, active, session.now, session.d)
               THEN KeepAwakeHold(session.now, session.d) ELSE raw.hold]

\* settleAfterWait, up to its write.
Settle(s) ==
  /\ sess[s].pc = "settle"
  /\ LET raw == Load(record)
         active == ActiveDoc(raw, sess[s].now) IN
     IF \/ CancelsSleep(active, sess[s])
        \/ FreshHoldApplies(raw, active, sess[s].now, sess[s].d)
       THEN /\ sess' = [sess EXCEPT ![s] =
                 [@ EXCEPT !.pc = "settleSave", !.base = record,
                           !.doc = SettledDoc(raw, sess[s])]]
            /\ UNCHANGED promise
       ELSE /\ Return(s)
            /\ promise' = Promised(0, sess[s].now)
  /\ UNCHANGED <<clock, vmVars, storeVars, faults, issued>>

SettleSave(s) ==
  /\ sess[s].pc = "settleSave"
  /\ Commit(s)
  /\ Return(s)
  /\ promise' = Promised(HeldUntil(sess[s]), sess[s].now)
  /\ UNCHANGED <<clock, vmVars, faults, issued>>

-----------------------------------------------------------------------------
(* sleep and cancel.                                                       *)

\* Mutant: a VM that was shut down is waited for.
SleepStatusWaits(s) ==
  /\ sess[s].pc = "sleepStatus"
  /\ vmStatus \in {"RUNNING", "SUSPENDED"}
  /\ Goto(s, IF vmStatus = "RUNNING" THEN "suspend" ELSE "clear")
  /\ UNCHANGED <<worldVars, issued>>

SleepStatus(s) ==
  /\ sess[s].pc = "sleepStatus"
  /\ vmStatus \notin Transitional
  /\ Goto(s, IF vmStatus = "RUNNING" THEN "suspend" ELSE "clear")
  /\ UNCHANGED <<worldVars, issued>>

CallSuspend(s) ==
  /\ sess[s].pc = "suspend"
  /\ IF vmStatus = "RUNNING"
       THEN vmStatus' = "SUSPENDING" /\ Goto(s, "suspending")
       ELSE UNCHANGED vmStatus /\ Return(s)
  /\ UNCHANGED <<clock, lastStart, lastActive, storeVars, faults, promise, issued>>

SuspendDone(s) ==
  /\ sess[s].pc = "suspending"
  /\ \/ vmStatus' = "SUSPENDED" /\ Goto(s, "clear") /\ UNCHANGED faults
     \/ vmStatus' = "RUNNING" /\ Return(s) /\ Fault
  /\ UNCHANGED <<clock, lastStart, lastActive, storeVars, promise, issued>>

\* The load before it only feeds the report, and its failure stops nothing.
Clear(s) ==
  /\ sess[s].pc = "clear"
  /\ Delete
  /\ Return(s)
  /\ UNCHANGED <<clock, vmVars, faults, promise, issued>>

-----------------------------------------------------------------------------
(* Failures.                                                               *)

\* A call other than the ones above returns an error, or the process is stopped:
\* the command ends there.  An operation that is under way goes on.
Stop(s) ==
  /\ sess[s].pc # "idle"
  /\ Fault
  /\ Return(s)
  /\ UNCHANGED <<clock, vmVars, storeVars, promise, issued>>

\* A write is committed but its answer is lost: the command ends in an error.
LostAnswer(s) ==
  /\ sess[s].pc \in {"save", "settleSave", "clear"}
  /\ IF sess[s].pc = "clear" THEN Delete ELSE Commit(s)
  /\ Fault
  /\ Return(s)
  /\ UNCHANGED <<clock, vmVars, promise, issued>>

SessionStep(s) ==
  \/ LoadForWake(s) \/ LoadForKeepAwake(s) \/ LoadForSleepAt(s) \/ Save(s)
  \/ Status(s) \/ CallWake(s) \/ WakeDone(s) \/ CapacityShortage(s)
  \/ Refresh(s) \/ RefreshSave(s) \/ Retry(s) \/ Settle(s) \/ SettleSave(s)
  \/ SleepStatus(s) \/ CallSuspend(s) \/ SuspendDone(s) \/ Clear(s)

SessionFault(s) ==
  \/ WakeFailed(s) \/ RefreshFails(s) \/ Stop(s) \/ LostAnswer(s)
=============================================================================
