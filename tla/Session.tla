------------------------------ MODULE Session ------------------------------
(***************************************************************************)
(* A user at work on the VM, seen by the reconciler only through what the  *)
(* activity emitter of infra/cloud-init.sh.tftpl reports: its timer, its   *)
(* runs, the reports that fail, the boot and the wait for SSH, in time.    *)
(* The reconciler is the one of Reconciler; a wake is one step here (CLI   *)
(* has it call by call), and a use of the VM an SSH connection.            *)
(***************************************************************************)
EXTENDS Reconciler

CONSTANTS Period,     \* OnUnitActiveSec and OnBootSec
          Accuracy,   \* AccuracySec
          RunBound,   \* TimeoutStartSec
          Misses,     \* reports in a row that fail
          Boot,       \* a resume or a start takes at most this long
          SshWait,    \* ssh.wait_timeout_seconds
          TickLag,    \* an execution has read all it reads within this time
          MaxTime,    \* bound on the clock
          MaxWakes    \* bound on the wakes

VARIABLES emitter,
          conn,
          wokenAt  \* when the last wake set its hold

sessionVars == <<emitter, conn, wokenAt>>

vars == <<worldVars, tick, sessionVars>>

\* age is the time since the emitter last started to run, in time of the VM: the
\* monotonic clock of its timer stands still while the VM is suspended.
Emitter == [pc : {"waits", "runs"}, busy : BOOLEAN, age : Nat, missed : 0..Misses]

Booted == [pc |-> "waits", busy |-> FALSE, age |-> 0, missed |-> 0]

Conn == [open : BOOLEAN, since : Nat]

NoConn == [open |-> FALSE, since |-> 0]

\* From one start of the emitter to the next.
Cycle == Period + Accuracy

\* The longest a connection can go unreported.
Gap == (Misses + 1) * Cycle + RunBound

\* The shortest idle timeout that is accepted covers a gap and a boot.
ASSUME SessionAssumption ==
  /\ {Period, Accuracy, RunBound, Misses, Boot, SshWait, TickLag, MaxTime, MaxWakes}
       \subseteq Nat
  /\ RunBound <= Period
  /\ Gap + Boot < IdleTimeout
  /\ \A drift \in Drifts : TickLag + drift <= MaxActivitySkew

TypeOK ==
  /\ WorldTypeOK /\ ReconcilerTypeOK
  /\ emitter \in Emitter
  /\ conn \in Conn
  /\ wokenAt \in Nat \cup {NoTime}

Init ==
  /\ WorldInit /\ record = NoRecord
  /\ ReconcilerInit
  /\ emitter = Booted
  /\ conn = NoConn
  /\ wokenAt = NoTime

-----------------------------------------------------------------------------
\* Mutant: the wait for SSH is not counted.
ShortGraceWindow == IdleTimeout

GraceWindow == IdleTimeout + SshWait

\* App.Wake: the hold first, then the VM.
Wake ==
  /\ vmStatus \in {"RUNNING", "SUSPENDED", "TERMINATED"}
  /\ commits <= MaxWakes
  /\ Write([sleep |-> NoSpan, hold |-> KeepAwakeHold(clock, GraceWindow)])
  /\ vmStatus' = IF vmStatus = "RUNNING" THEN "RUNNING" ELSE "STAGING"
  /\ wokenAt' = clock
  /\ UNCHANGED <<clock, lastStart, lastActive, faults, promise, tick, emitter, conn>>

\* The VM is resumed, or started and boots.
Up ==
  /\ vmStatus = "STAGING"
  /\ vmStatus' = "RUNNING"
  /\ \/ UNCHANGED <<lastStart, emitter>>
     \/ lastStart' = clock /\ emitter' = Booted
  /\ UNCHANGED <<clock, lastActive, storeVars, faults, promise, tick, conn, wokenAt>>

Connect ==
  /\ vmStatus = "RUNNING"
  /\ ~conn.open
  /\ conn' = [open |-> TRUE, since |-> clock]
  /\ UNCHANGED <<worldVars, tick, emitter, wokenAt>>

Disconnect ==
  /\ conn.open
  /\ conn' = NoConn
  /\ UNCHANGED <<worldVars, tick, emitter, wokenAt>>

-----------------------------------------------------------------------------
\* The timer starts the service, which looks for connections first.
EmitterStarts ==
  /\ vmStatus = "RUNNING"
  /\ emitter.pc = "waits"
  /\ emitter.age >= Period
  /\ emitter' = [emitter EXCEPT !.pc = "runs", !.busy = conn.open, !.age = 0]
  /\ UNCHANGED <<worldVars, tick, conn, wokenAt>>

\* It reports the date of its end, by the clock of the VM.
EmitterReports ==
  /\ emitter.pc = "runs" /\ emitter.busy
  /\ ReportActivity
  /\ emitter' = [emitter EXCEPT !.pc = "waits", !.missed = 0]
  /\ UNCHANGED <<tick, conn, wokenAt>>

\* With no one there it leaves; a write that fails, or a run that is killed, is
\* made up for by the next run.
EmitterEnds ==
  /\ vmStatus = "RUNNING"
  /\ emitter.pc = "runs"
  /\ emitter.busy => emitter.missed < Misses
  /\ emitter' = [emitter EXCEPT !.pc = "waits",
                                !.missed = IF emitter.busy THEN @ + 1 ELSE 0]
  /\ UNCHANGED <<worldVars, tick, conn, wokenAt>>

-----------------------------------------------------------------------------
\* A VM that is suspended drops its connections.
Reconcile ==
  /\ \E t \in Ticks : TickStep(t) \/ AbortTick(t)
  /\ conn' = IF vmStatus' = "RUNNING" THEN conn ELSE NoConn
  /\ UNCHANGED <<emitter, wokenAt>>

EmitterLimit == IF emitter.pc = "waits" THEN Cycle ELSE RunBound

Reads(t) == tick[t].pc \in {"getInstance", "readState", "readActivity"}

\* Time waits for what is due.
Advance ==
  /\ clock < MaxTime
  /\ vmStatus = "RUNNING" => emitter.age < EmitterLimit
  /\ vmStatus = "STAGING" => clock < wokenAt + Boot
  /\ \A t \in Ticks : Reads(t) => clock < tick[t].now + TickLag
  /\ clock' = clock + 1
  /\ emitter' = [emitter EXCEPT !.age = IF vmStatus = "RUNNING" THEN @ + 1 ELSE @]
  /\ UNCHANGED <<vmVars, storeVars, faults, promise, tick, conn, wokenAt>>

Next ==
  \/ Wake \/ Up \/ Connect \/ Disconnect
  \/ EmitterStarts \/ EmitterReports \/ EmitterEnds
  \/ Reconcile \/ Advance

Spec == Init /\ [][Next]_vars

-----------------------------------------------------------------------------
IdleSuspends(t) ==
  tick[t].pc = "suspendVm" /\ tick[t].action \in {"idle", "no-activity"}

\* Nobody who is connected is suspended for being idle: not one whose connection is
\* older than Gap by the clock the tick read, however many reports up to Misses fail
\* and wherever the runs of the emitter fall ("a shorter timeout could suspend a VM
\* in use"); nor one who came within the wait for SSH after a boot, however fresh the
\* connection ("long enough to outlast the boot and the wait for SSH").
UseIsProtected ==
  \A t \in Ticks :
    IdleSuspends(t) /\ conn.open =>
      /\ conn.since + Gap >= tick[t].now
      /\ wokenAt # NoTime /\ wokenAt < tick[t].now
           => conn.since > wokenAt + Boot + SshWait

-----------------------------------------------------------------------------
\* What the emitter owes: up to here, a connection may be unreported.
ReportedUpTo ==
  clock - emitter.age
    - (IF emitter.pc = "waits" THEN emitter.missed
       ELSE IF emitter.busy    THEN emitter.missed + 1 ELSE 0) * Cycle

EmitterInv ==
  /\ emitter.age <= EmitterLimit
  /\ lastActive # NoTime => \E drift \in Drifts : lastActive <= clock + drift
  /\ conn.open =>
       /\ vmStatus = "RUNNING"
       /\ conn.since <= clock
       /\ conn.since >= ReportedUpTo \/ lastActive >= ReportedUpTo

\* The hold of the last wake stays on record until it has run out.
HoldInv ==
  /\ wokenAt # NoTime => wokenAt <= clock
  /\ wokenAt # NoTime /\ clock < wokenAt + GraceWindow =>
       record.hold = KeepAwakeHold(wokenAt, GraceWindow)

\* The document a tick read, dated as in ControlPlane.
SnapshotInv ==
  /\ record.updateTime <= commits
  /\ record.updateTime = 0 => record = NoRecord
  /\ \A t \in Ticks :
       /\ tick[t].now <= clock
       /\ tick[t].doc.updateTime <= commits
       /\ tick[t].doc.updateTime = 0 => tick[t].doc = NoRecord
       /\ tick[t].doc.updateTime = record.updateTime => tick[t].doc = record

\* A tick that goes on to the guest attribute has missed no hold.
TickInv ==
  \A t \in Ticks :
    /\ Reads(t) => clock <= tick[t].now + TickLag
    /\ /\ tick[t].pc = "readActivity" \/ IdleSuspends(t)
       /\ wokenAt # NoTime /\ wokenAt < tick[t].now
       => wokenAt + GraceWindow <= clock

\* The inductive invariant.
IInv ==
  TypeOK /\ EmitterInv /\ HoldInv /\ SnapshotInv /\ TickInv /\ UseIsProtected
=============================================================================
