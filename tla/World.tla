------------------------------- MODULE World -------------------------------
(***************************************************************************)
(* What the command line and the reconciler share: wall-clock time, the    *)
(* Compute Engine instance with the activity its guest reports, and the    *)
(* one Firestore document.  Both services are external; they are modelled  *)
(* by how the code under src/ drives them.                                 *)
(***************************************************************************)
EXTENDS StateDoc

CONSTANTS MaxFaults,    \* bound on failed calls and killed processes
          Drifts,       \* how far ahead of the clock the guest may report
          InitialHolds  \* holds an older release can have left on record

ASSUME WorldAssumption ==
  /\ MaxFaults \in Nat
  /\ Drifts \subseteq Nat
  /\ InitialHolds \subseteq Span

\* A hold always began at the clock of the command that wrote it.
ASSUME HoldsAssumption == \A h \in InitialHolds : h.state = "awake" => h.start = 0

VARIABLES clock,
          vmStatus,     \* instances.get status
          lastStart,    \* lastStartTimestamp
          lastActive,   \* the guest attribute the emitter writes
          record,       \* the Firestore document
          commits,      \* the update time of the last commit
          faults,       \* faults so far
          promise       \* history: what a command last told the user (below)

vmVars == <<vmStatus, lastStart, lastActive>>

storeVars == <<record, commits>>

worldVars == <<clock, vmVars, storeVars, faults, promise>>

Statuses == {"RUNNING", "SUSPENDING", "SUSPENDED", "STAGING", "TERMINATED"}

Transitional == {"SUSPENDING", "STAGING"}

\* The promise a command made: the VM is held awake up to the instant until, and
\* the scheduled sleeps in effect were called off as of the instant since.  The
\* epoch is the last command that took a promise back.
Promise == [until : Nat, since : Nat \cup {NoTime}, epoch : Nat]

NoPromise == [until |-> 0, since |-> NoTime, epoch |-> 0]

Later(a, b) == IF a > b THEN a ELSE b

Promised(until, since) ==
  [promise EXCEPT !.until = Later(@, until), !.since = Later(@, since)]

WorldTypeOK ==
  /\ clock \in Nat
  /\ vmStatus \in Statuses
  /\ lastStart \in Nat \cup {NoTime}
  /\ lastActive \in Nat \cup {NoTime}
  /\ record \in Record
  /\ commits \in Nat
  /\ faults \in 0..MaxFaults
  /\ promise \in Promise

WorldInit ==
  /\ clock = 0
  /\ vmStatus \in {"RUNNING", "SUSPENDED", "TERMINATED"}
  /\ lastStart = 0
  /\ lastActive = NoTime
  /\ commits = 1
  /\ record \in {NoRecord} \cup
                {[sleep |-> NoSpan, hold |-> h, updateTime |-> 1] :
                   h \in InitialHolds}
  /\ faults = 0
  /\ promise = NoPromise

\* Firestore's commits: a write replaces the whole document and has no
\* precondition, a delete of a missing document succeeds.
Write(d) ==
  /\ commits' = commits + 1
  /\ record' = [sleep |-> d.sleep, hold |-> d.hold, updateTime |-> commits + 1]

Delete ==
  /\ record' = NoRecord
  /\ UNCHANGED commits

Fault ==
  /\ faults < MaxFaults
  /\ faults' = faults + 1

-----------------------------------------------------------------------------
\* The emitter, or anything else on the VM, sets the guest attribute.
ReportActivity ==
  /\ vmStatus = "RUNNING"
  /\ \E drift \in Drifts : lastActive' = clock + drift
  /\ UNCHANGED <<clock, vmStatus, lastStart, storeVars, faults, promise>>
=============================================================================
