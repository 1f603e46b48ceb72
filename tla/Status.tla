------------------------------- MODULE Status -------------------------------
(***************************************************************************)
(* workbox status: it reads the instance, the document, the activity and   *)
(* the last start one after the other, any of which may fail, and repeats  *)
(* the reconciler's verdict as far as it can.  Its client keeps the        *)
(* instance it fetched for a while (internal/compute/gcp.go), so that the  *)
(* last start mostly needs no request of its own.                          *)
(***************************************************************************)
EXTENDS Verdict

CONSTANTS Documents,  \* what may be on record
          Starts,     \* the last starts the instance may show
          Stamps,     \* the activity that may have been reported
          SnapshotTTL,
          MaxMoves,   \* bound on changes of what status reads
          MaxTime     \* bound on the clock

ASSUME StatusAssumption ==
  /\ Documents \subseteq Record
  /\ Starts \subseteq Nat \cup {NoTime}
  /\ Stamps \subseteq Nat
  /\ SnapshotTTL \in Nat \ {0}
  /\ MaxMoves \in Nat /\ MaxTime \in Nat

\* The raw guest attribute.  Anything on the VM may write it; "negative" is a
\* number below zero.
Attributes == [kind : {"absent", "junk", "zero", "negative"}, stamp : {0}]
              \cup [kind : {"stamp"}, stamp : Stamps]

\* What instances.get returns; a last start may be in no form that parses.
Instances == [running : BOOLEAN, lastStart : Starts, parses : BOOLEAN]

VARIABLES clock,
          inst, record, attribute,
          snapshot, snapshotAt,  \* the instance the client fetched last, and when
          st,
          moves,
          changedAt,             \* history: when the instance last changed
          touched                \* history: something changed under the command

vars == <<clock, inst, record, attribute, snapshot, snapshotAt, st, moves,
          changedAt, touched>>

\* actErr and startErr stand for ActivityErr and StartErr.
IdleStatus == [pc |-> "idle", now |-> 0, running |-> FALSE, doc |-> NoDocument,
               active |-> NoTime, actErr |-> FALSE,
               started |-> NoTime, startErr |-> FALSE]

Init ==
  /\ clock \in 0..MaxTime
  /\ inst \in {i \in Instances : i.lastStart <= clock}
  /\ record \in Documents
  /\ attribute \in Attributes
  /\ snapshot = inst /\ snapshotAt = NoTime
  /\ st = IdleStatus
  /\ moves = 0
  /\ changedAt = 0
  /\ touched = FALSE

-----------------------------------------------------------------------------
Advance ==
  /\ clock < MaxTime
  /\ clock' = clock + 1
  /\ UNCHANGED <<inst, record, attribute, snapshot, snapshotAt, st, moves,
                 changedAt, touched>>

\* Something that status reads changes: the VM starts or is suspended, a command
\* writes, the emitter reports.
Changes ==
  /\ moves < MaxMoves
  /\ moves' = moves + 1
  /\ touched' = TRUE
  /\ \/ /\ inst' \in {[inst EXCEPT !.running = ~@],
                      [running |-> TRUE, lastStart |-> clock, parses |-> TRUE]}
        /\ changedAt' = clock
        /\ UNCHANGED <<record, attribute>>
     \/ /\ \/ record' \in Documents /\ UNCHANGED attribute
           \/ attribute' = [kind |-> "stamp", stamp |-> clock] /\ UNCHANGED record
        /\ UNCHANGED <<inst, changedAt>>
  /\ UNCHANGED <<clock, snapshot, snapshotAt, st>>

-----------------------------------------------------------------------------
WorldStays == UNCHANGED <<clock, inst, record, attribute, moves, changedAt>>

\* A command begins, in a process of its own with a client that fetched nothing.
Begin ==
  /\ st.pc \in {"idle", "done"}
  /\ st' = [IdleStatus EXCEPT !.pc = "status", !.now = clock]
  /\ touched' = FALSE
  /\ snapshotAt' = NoTime
  /\ WorldStays /\ UNCHANGED snapshot

Fetch == snapshot' = inst /\ snapshotAt' = clock

ReadStatus ==
  /\ st.pc = "status"
  /\ Fetch
  /\ st' = [st EXCEPT !.pc = "document", !.running = inst.running]
  /\ WorldStays /\ UNCHANGED touched

ReadDocument ==
  /\ st.pc = "document"
  /\ st' = [st EXCEPT !.pc = IF st.running THEN "activity" ELSE "done",
                      !.doc = ActiveDoc(Load(record), st.now)]
  /\ WorldStays /\ UNCHANGED <<snapshot, snapshotAt, touched>>

\* Either of the two reads fails, and the command ends in an error.
Fails ==
  /\ st.pc \in {"status", "document"}
  /\ st' = IdleStatus
  /\ WorldStays /\ UNCHANGED <<snapshot, snapshotAt, touched>>

\* lastActiveFromResp and the checks after it: a value that is no usable timestamp,
\* or lies too far ahead, counts as none.
UsableActivity(a, now) ==
  IF a.kind = "stamp" THEN Trusted(a.stamp, now) ELSE NoTime

ReadActivity ==
  /\ st.pc = "activity"
  /\ \/ st' = [st EXCEPT !.pc = "start", !.active = UsableActivity(attribute, st.now)]
     \/ st' = [st EXCEPT !.pc = "start", !.actErr = TRUE]
  /\ WorldStays /\ UNCHANGED <<snapshot, snapshotAt, touched>>

\* Mutant: the snapshot never grows old.
AnySnapshot == snapshotAt # NoTime

FreshSnapshot == snapshotAt # NoTime /\ clock - snapshotAt < SnapshotTTL

\* parseLastStart.
Started(i) ==
  [st EXCEPT !.pc = "done", !.started = IF i.parses THEN i.lastStart ELSE NoTime,
             !.startErr = ~i.parses /\ i.lastStart # NoTime]

\* LastStart: the snapshot if it is fresh, else a request that may fail.
ReadStart ==
  /\ st.pc = "start"
  /\ IF FreshSnapshot
       THEN st' = Started(snapshot) /\ UNCHANGED <<snapshot, snapshotAt>>
       ELSE \/ st' = Started(inst) /\ Fetch
            \/ /\ st' = [st EXCEPT !.pc = "done", !.startErr = TRUE]
               /\ UNCHANGED <<snapshot, snapshotAt>>
  /\ WorldStays /\ UNCHANGED touched

Next ==
  \/ Advance \/ Changes
  \/ Begin \/ ReadStatus \/ ReadDocument \/ Fails \/ ReadActivity \/ ReadStart

Spec == Init /\ [][Next]_vars

-----------------------------------------------------------------------------
(* What status reports.                                                    *)

Engine ==
  AutoSuspend(st.now, st.doc.sleep, st.doc.hold, st.now \in WorkingHours,
              st.active, st.started)

\* Mutant: an unreadable start time is taken for none.
HingesOnActivity ==
  st.actErr /\ Engine = "no-activity"

\* Mutant: any read that failed makes the verdict unknown.
HingesOnAny == st.actErr \/ st.startErr

\* The verdict hinged on a value that could not be read.
HingesOnUnread ==
  \/ st.actErr /\ Engine = "no-activity"
  \/ st.startErr /\ Engine \in {"no-activity", "idle"}

Reason ==
  IF ~st.running         THEN "not-running"
  ELSE IF HingesOnUnread THEN "activity-unknown"
  ELSE Engine

Suspend == Reason \in SuspendReasons

\* Mutant: idle time counts from the activity whatever the last start.
EarliestByActivity ==
  (IF st.active = NoTime THEN st.started ELSE st.active) + IdleTimeout

\* The "earliest idle suspend" of the report, and whether it names one.
EarliestIdleSuspend ==
  (IF st.started > st.active THEN st.started ELSE st.active) + IdleTimeout

NamesEarliest ==
  Reason \in {"active", "boot-grace"} /\ EarliestIdleSuspend \notin WorkingHours

-----------------------------------------------------------------------------
(* What a tick of the reconciler finds, if it reads everything at t.       *)

\* A negative number is activity long past, and 0 is none.
TickActivity(t) ==
  IF attribute.kind = "stamp" THEN ActivityClamp(attribute.stamp, t) ELSE NoTime

TickStart == IF inst.parses THEN inst.lastStart ELSE NoTime

TickIdle(t) ==
  LET reason == DecideIdle(t, TickActivity(t), TickStart) IN
  IF reason = "no-activity" /\ attribute.kind = "negative" THEN "idle" ELSE reason

TickReason(t) ==
  IF ~inst.running                         THEN "not-running"
  ELSE IF DecideOnState(t, record) # "none" THEN DecideOnState(t, record)
  ELSE TickIdle(t)

-----------------------------------------------------------------------------
(* What workbox doctor makes of the attribute, if its read succeeds.       *)

\* Mutant: any timestamp will do.
AnySignal(t) == IF attribute.kind = "stamp" THEN "pass" ELSE "warn"

ActivitySignal(t) ==
  IF attribute.kind = "stamp" /\ ~FutureActivity(attribute.stamp, t)
    THEN "pass" ELSE "warn"

-----------------------------------------------------------------------------
\* A report on a world that did not change under it.
Undisturbed == st.pc = "done" /\ ~touched

\* Status never says that the VM will be suspended, or left alone, where a tick at
\* its own time would do otherwise, whichever of its reads failed: it rather says
\* that it does not know.
NeverContradicts ==
  Undisturbed /\ Reason # "activity-unknown" =>
    (Suspend <=> TickReason(st.now) \in SuspendReasons)

\* It does not hide behind that either: it knows the reason exactly when it could
\* read everything, but for a negative number in the attribute, and does not know
\* only what the idle half of the verdict would tell.
SaysWhatItKnows ==
  Undisturbed =>
    /\ Reason = "activity-unknown" =>
         /\ st.actErr \/ st.startErr
         /\ TickReason(st.now) \in {"active", "boot-grace", "no-activity", "idle"}
    /\ ~st.actErr /\ ~st.startErr /\ attribute.kind # "negative" =>
         Reason = TickReason(st.now)

\* No tick before the "earliest idle suspend" that status names suspends the VM as
\* idle, unless something changes; and where status could read everything and had
\* to ignore no activity as too far ahead, idle shutdown does apply from then on.
EarliestIsHonest ==
  Undisturbed /\ NamesEarliest =>
    /\ \A t \in st.now..(EarliestIdleSuspend - 1) :
         TickReason(t) \notin {"no-activity", "idle"}
    /\ ~st.actErr /\ ~st.startErr
       /\ (st.active # NoTime \/ attribute.kind # "stamp") =>
         TickIdle(EarliestIdleSuspend) \in {"no-activity", "idle"}

\* Status and doctor tell the same of the activity signal, and what doctor passes at
\* one time every later tick counts as activity, while what it warns of no tick
\* at that time counts.
DoctorAgrees ==
  Undisturbed /\ st.running =>
    LET passed == ActivitySignal(st.now) = "pass" IN
    /\ st.actErr \/ (passed <=> st.active # NoTime)
    /\ passed => \A t \in st.now..MaxTime : TickActivity(t) # NoTime
    /\ ~passed => TickActivity(st.now) = NoTime

\* A start time that is no longer that of the instance was still so within the
\* lifetime of a snapshot.
StartIsFresh ==
  [][st.pc = "start" /\ st'.pc = "done" /\ ~st'.startErr
       /\ st'.started # (IF inst.parses THEN inst.lastStart ELSE NoTime)
     => clock - changedAt < SnapshotTTL]_vars
=============================================================================
