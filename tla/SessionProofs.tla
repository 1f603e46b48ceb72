--------------------------- MODULE SessionProofs ---------------------------
(***************************************************************************)
(* Nobody at work is suspended for being idle: UseIsProtected, for every   *)
(* period, bound and number of failed reports that SessionAssumption       *)
(* allows, and any number of executions of the reconciler at once.         *)
(***************************************************************************)
EXTENDS Session, TLAPS

-----------------------------------------------------------------------------
(* Facts about the constants and the types.                                *)

\* The intervals of the timers are numbers of ticks of the clock.
LEMMA Constants ==
  /\ Period \in Nat /\ Accuracy \in Nat /\ RunBound \in Nat /\ Misses \in Nat
  /\ Boot \in Nat /\ SshWait \in Nat /\ TickLag \in Nat /\ IdleTimeout \in Nat
  /\ Cycle \in Nat /\ Gap \in Nat /\ GraceWindow \in Nat
  /\ RunBound <= Cycle
  /\ Gap + Boot < IdleTimeout
<1>1. /\ Period \in Nat /\ Accuracy \in Nat /\ RunBound \in Nat /\ Misses \in Nat
      /\ Boot \in Nat /\ SshWait \in Nat /\ TickLag \in Nat
      /\ RunBound <= Period /\ Gap + Boot < IdleTimeout
  BY SessionAssumption
<1>2. IdleTimeout \in Nat
  BY ScheduleAssumption
<1>3. Cycle \in Nat /\ RunBound <= Cycle
  BY <1>1 DEF Cycle
<1>4. Gap \in Nat
  BY <1>1, <1>3 DEF Gap
<1> QED
  BY <1>1, <1>2, <1>3, <1>4 DEF GraceWindow

\* Fewer cycles are shorter.
LEMMA CyclesAddUp ==
  ASSUME NEW m \in Nat
  PROVE  /\ m * Cycle \in Nat
         /\ (m + 1) * Cycle = m * Cycle + Cycle
         /\ m <= Misses => (m + 1) * Cycle <= (Misses + 1) * Cycle
<1>1. Cycle \in Nat /\ Misses \in Nat
  BY Constants
<1>2. m * Cycle \in Nat /\ (m + 1) * Cycle = m * Cycle + Cycle
  BY <1>1
<1>3. ASSUME m <= Misses PROVE (m + 1) * Cycle <= (Misses + 1) * Cycle
  <2>1. PICK k \in Nat : Misses + 1 = (m + 1) + k
    BY <1>1, <1>3
  <2>2. ((m + 1) + k) * Cycle = (m + 1) * Cycle + k * Cycle
    BY <1>1
  <2>3. k * Cycle \in Nat
    BY <1>1
  <2> QED
    BY <1>1, <2>1, <2>2, <2>3
<1> QED
  BY <1>2, <1>3

\* The variables, one by one.
LEMMA Types ==
  ASSUME TypeOK
  PROVE  /\ clock \in Nat /\ vmStatus \in Statuses
         /\ lastActive \in Nat \cup {NoTime} /\ lastStart \in Nat \cup {NoTime}
         /\ record \in Record /\ record.updateTime \in Nat /\ commits \in Nat
         /\ faults \in 0..MaxFaults /\ promise \in Promise
         /\ emitter.pc \in {"waits", "runs"} /\ emitter.busy \in BOOLEAN
         /\ emitter.age \in Nat /\ emitter.missed \in Nat
         /\ emitter.missed <= Misses
         /\ conn.open \in BOOLEAN /\ conn.since \in Nat
         /\ wokenAt \in Nat \cup {NoTime}
         /\ \A t \in Ticks : /\ tick[t] \in Tick /\ tick[t].now \in Nat
                             /\ tick[t].doc \in Record
                             /\ tick[t].doc.updateTime \in Nat
<1>1. Misses \in Nat
  BY Constants
<1> QED
  BY <1>1 DEF TypeOK, WorldTypeOK, ReconcilerTypeOK, Emitter, Conn, Tick, Record

-----------------------------------------------------------------------------
(* The heart of the matter: what a tick sees of a connection.              *)

\* A connection is younger than Gap, or a report is.
LEMMA Reported ==
  ASSUME TypeOK, EmitterInv, conn.open
  PROVE  \/ conn.since + Gap >= clock
         \/ lastActive # NoTime /\ lastActive + Gap >= clock
<1> DEFINE m == emitter.missed
<1>1. /\ clock \in Nat /\ emitter.age \in Nat /\ m \in Nat /\ m <= Misses
      /\ lastActive \in Nat \cup {NoTime} /\ conn.since \in Nat
      /\ emitter.pc \in {"waits", "runs"}
  BY Types
<1>2. /\ Cycle \in Nat /\ Gap \in Nat /\ RunBound \in Nat /\ Misses \in Nat
      /\ m * Cycle \in Nat /\ (m + 1) * Cycle = m * Cycle + Cycle
      /\ (m + 1) * Cycle <= (Misses + 1) * Cycle
      /\ Gap = (Misses + 1) * Cycle + RunBound
      /\ (Misses + 1) * Cycle \in Nat /\ (m + 1) * Cycle \in Nat
  BY <1>1, Constants, CyclesAddUp DEF Gap
<1>3. /\ emitter.age <= EmitterLimit
      /\ conn.since >= ReportedUpTo \/ lastActive >= ReportedUpTo
  BY DEF EmitterInv
<1>4. ReportedUpTo \in Int /\ ReportedUpTo >= clock - Gap
  <2> DEFINE one == m * Cycle
             two == (m + 1) * Cycle
             all == (Misses + 1) * Cycle
  <2>1. /\ one \in Nat /\ two \in Nat /\ all \in Nat
        /\ two = one + Cycle /\ two <= all /\ Gap = all + RunBound
    BY <1>2
  <2>2. 0 * Cycle = 0
    BY <1>2
  <2>3. ReportedUpTo \in {clock - emitter.age - one, clock - emitter.age - two,
                          clock - emitter.age - 0}
    BY <2>2 DEF ReportedUpTo
  <2>4. emitter.pc = "waits" => ReportedUpTo = clock - emitter.age - one
    BY DEF ReportedUpTo
  <2>5. emitter.pc = "waits" => emitter.age <= Cycle
    BY <1>3 DEF EmitterLimit
  <2>6. emitter.pc # "waits" => emitter.age <= RunBound
    BY <1>3 DEF EmitterLimit
  <2> HIDE DEF one, two, all
  <2> QED
    BY <1>1, <1>2, <2>1, <2>3, <2>4, <2>5, <2>6
<1> HIDE DEF m
<1> QED
  BY <1>1, <1>2, <1>3, <1>4 DEF NoTime

\* A tick that goes on to suspend an idle VM found no credible report within the
\* idle timeout.
LEMMA IdleDecided ==
  ASSUME NEW now \in Nat, NEW la \in Nat, NEW st,
         la <= now + MaxActivitySkew,
         DecideIdle(now, ActivityClamp(la, now), st) \in {"idle", "no-activity"}
  PROVE  now - la >= IdleTimeout
<1>1. IdleTimeout \in Nat /\ MaxActivitySkew \in Nat
  BY ScheduleAssumption
<1>2. ActivityClamp(la, now) = la
  BY <1>1 DEF ActivityClamp
<1>3. la # NoTime
  BY DEF NoTime
<1> QED
  BY <1>1, <1>2, <1>3 DEF DecideIdle

\* A tick that began after the last wake and finds nothing in the document came
\* after the hold of the wake.
LEMMA HoldSeen ==
  ASSUME TypeOK, HoldInv, NEW now \in Nat, now <= clock,
         wokenAt # NoTime, wokenAt < now,
         DecideOnState(now, record) = "none"
  PROVE  wokenAt + GraceWindow <= clock
<1>1. clock \in Nat /\ wokenAt \in Nat /\ GraceWindow \in Nat
  BY Types, Constants
<1> SUFFICES ASSUME clock < wokenAt + GraceWindow PROVE FALSE
  BY <1>1
<1>2. record.hold = KeepAwakeHold(wokenAt, GraceWindow)
  BY DEF HoldInv
<1>3. /\ record.hold.start = wokenAt
      /\ record.hold.end = wokenAt + GraceWindow
      /\ record.hold.state = "awake"
      /\ record.hold # NoSpan
  BY <1>2 DEF KeepAwakeHold, NoSpan
<1>4. SpanState(record.hold, now) = "awake"
  BY <1>1, <1>3 DEF SpanState
<1> QED
  BY <1>4 DEF DecideOnState

\* The decision to suspend an idle VM leaves those at work alone.
LEMMA IdleSparesUse ==
  ASSUME TypeOK, EmitterInv, conn.open,
         NEW now \in Nat, NEW st, now <= clock, clock <= now + TickLag,
         wokenAt # NoTime /\ wokenAt < now => wokenAt + GraceWindow <= clock,
         DecideIdle(now, ActivityClamp(lastActive, now), st) \in {"idle", "no-activity"}
  PROVE  /\ conn.since + Gap >= now
         /\ wokenAt # NoTime /\ wokenAt < now => conn.since > wokenAt + Boot + SshWait
<1>1. /\ clock \in Nat /\ conn.since \in Nat /\ wokenAt \in Nat \cup {NoTime}
      /\ lastActive \in Nat \cup {NoTime}
  BY Types
<1>2. /\ Gap \in Nat /\ Boot \in Nat /\ SshWait \in Nat /\ TickLag \in Nat
      /\ IdleTimeout \in Nat /\ Gap + Boot < IdleTimeout
      /\ GraceWindow = IdleTimeout + SshWait
  BY Constants DEF GraceWindow
<1>3. conn.since + Gap >= clock
  <2> SUFFICES ASSUME lastActive # NoTime, lastActive + Gap >= clock PROVE FALSE
    BY Reported
  <2>1. PICK drift \in Drifts : lastActive <= clock + drift
    BY DEF EmitterInv
  <2>2. /\ drift \in Nat /\ TickLag + drift <= MaxActivitySkew
        /\ MaxActivitySkew \in Nat
    BY WorldAssumption, SessionAssumption, ScheduleAssumption
  <2>3. lastActive \in Nat /\ lastActive <= now + MaxActivitySkew
    BY <1>1, <1>2, <2>1, <2>2
  <2>4. now - lastActive >= IdleTimeout
    BY <2>3, IdleDecided
  <2> QED
    BY <1>1, <1>2, <2>3, <2>4
<1> QED
  BY <1>1, <1>2, <1>3 DEF NoTime

-----------------------------------------------------------------------------
(* The initial states.                                                     *)

\* A tick that is not under way.
LEMMA IdleTickType ==
  IdleTick \in Tick /\ IdleTick.pc = "idle" /\ IdleTick.now = 0
    /\ IdleTick.doc = NoRecord /\ IdleTick.action = "none"
  BY DEF IdleTick, Tick, TickPCs, Actions, Promise, NoPromise, Record, NoRecord,
         OptionalSpan

\* A document that is not there.
LEMMA RecordFacts == NoRecord \in Record /\ NoRecord.updateTime = 0
  BY DEF NoRecord, Record, OptionalSpan

\* An emitter that has just booted.
LEMMA BootedFacts ==
  /\ Booted \in Emitter
  /\ Booted.pc = "waits" /\ Booted.age = 0 /\ Booted.missed = 0 /\ ~Booted.busy
  BY Constants DEF Booted, Emitter

\* A connection that is not open.
LEMMA NoConnFacts == NoConn \in Conn /\ ~NoConn.open
  BY DEF NoConn, Conn

\* The initial states.
LEMMA InitIInv == Init => IInv
<1> SUFFICES ASSUME Init PROVE IInv
  OBVIOUS
<1> USE IdleTickType, RecordFacts, BootedFacts, NoConnFacts, WorldAssumption, Constants
<1>1. WorldTypeOK
  BY DEF Init, WorldInit, WorldTypeOK, Statuses, Promise, NoPromise
<1>2. ReconcilerTypeOK
  BY DEF Init, ReconcilerInit, ReconcilerTypeOK
<1>3. TypeOK
  BY <1>1, <1>2 DEF Init, TypeOK
<1>4. EmitterInv
  BY DEF Init, WorldInit, EmitterInv, EmitterLimit
<1>5. HoldInv
  BY DEF Init, HoldInv
<1>6. SnapshotInv
  BY DEF Init, WorldInit, ReconcilerInit, SnapshotInv
<1>7. TickInv /\ UseIsProtected
  BY DEF Init, ReconcilerInit, TickInv, UseIsProtected, Reads, IdleSuspends
<1> QED
  BY <1>3, <1>4, <1>5, <1>6, <1>7 DEF IInv

-----------------------------------------------------------------------------
(* The steps that are not the reconciler's.                                *)

\* A step that leaves the reconciler and the document alone and no connection
\* behind that its ticks could hit.
LEMMA OutsideTicks ==
  ASSUME IInv, UNCHANGED <<tick, storeVars, wokenAt>>, clock' \in Nat, clock <= clock',
         \A t \in Ticks : Reads(t) => clock' <= tick[t].now + TickLag,
         conn'.open => conn' = conn \/ conn'.since = clock
  PROVE  HoldInv' /\ SnapshotInv' /\ TickInv' /\ UseIsProtected'
<1>1. /\ clock \in Nat /\ conn.since \in Nat
      /\ wokenAt \in Nat \cup {NoTime} /\ \A t \in Ticks : tick[t].now \in Nat
  BY Types DEF IInv
<1>2. /\ GraceWindow \in Nat /\ Gap \in Nat /\ Boot \in Nat /\ SshWait \in Nat
      /\ GraceWindow = IdleTimeout + SshWait /\ IdleTimeout \in Nat
      /\ Gap + Boot < IdleTimeout
  BY Constants DEF GraceWindow
<1>3. HoldInv'
  BY <1>1, <1>2 DEF IInv, HoldInv, storeVars
<1>4. SnapshotInv'
  BY <1>1 DEF IInv, SnapshotInv, storeVars
<1>5. TickInv'
  BY <1>1, <1>2 DEF IInv, TickInv, Reads, IdleSuspends, NoTime
<1>6. UseIsProtected'
  <2> SUFFICES ASSUME NEW t \in Ticks, IdleSuspends(t), conn'.open
               PROVE  /\ conn'.since + Gap >= tick[t].now
                      /\ wokenAt # NoTime /\ wokenAt < tick[t].now
                           => conn'.since > wokenAt + Boot + SshWait
    BY DEF UseIsProtected, IdleSuspends
  <2>1. CASE conn' = conn
    BY <2>1 DEF IInv, UseIsProtected
  <2>2. CASE conn'.since = clock
    <3>1. /\ tick[t].now <= clock
          /\ wokenAt # NoTime /\ wokenAt < tick[t].now => wokenAt + GraceWindow <= clock
      BY DEF IInv, SnapshotInv, TickInv
    <3> QED
      BY <1>1, <1>2, <2>2, <3>1 DEF NoTime
  <2> QED
    BY <2>1, <2>2
<1> QED
  BY <1>3, <1>4, <1>5, <1>6

\* The emitter's own step keeps its bound.
LEMMA EmitterStep ==
  ASSUME IInv, UNCHANGED <<worldVars, tick, conn, wokenAt>>,
         emitter' \in Emitter, emitter'.age <= EmitterLimit',
         conn.open => ReportedUpTo' <= ReportedUpTo
  PROVE  IInv'
<1>1. /\ ReportedUpTo \in Int /\ ReportedUpTo' \in Int
      /\ clock \in Nat /\ conn.since \in Nat /\ lastActive \in Nat \cup {NoTime}
  <2>1. \A m \in Nat : m * Cycle \in Nat
    BY CyclesAddUp
  <2>2. emitter'.age \in Nat /\ emitter'.missed \in Nat
    BY Constants DEF Emitter
  <2>3. clock \in Nat /\ emitter.age \in Nat /\ emitter.missed \in Nat
    BY Types DEF IInv
  <2>4. clock' = clock
    BY DEF worldVars
  <2>5. 0 \in Nat /\ \A m \in Nat : m + 1 \in Nat
    OBVIOUS
  <2>6. ReportedUpTo \in Int
    BY <2>1, <2>3, <2>5 DEF ReportedUpTo
  <2>7. ReportedUpTo' \in Int
    BY <2>1, <2>2, <2>3, <2>4, <2>5 DEF ReportedUpTo
  <2> QED
    BY <2>6, <2>7, Types DEF IInv
<1>2. UNCHANGED <<clock, vmVars, storeVars, faults, promise>>
  BY DEF worldVars
<1>3. TypeOK'
  BY <1>2 DEF IInv, TypeOK, WorldTypeOK, ReconcilerTypeOK, vmVars, storeVars
<1>4. EmitterInv'
  BY <1>1, <1>2 DEF IInv, EmitterInv, vmVars, NoTime
<1>5. HoldInv' /\ SnapshotInv' /\ TickInv' /\ UseIsProtected'
  BY <1>1, <1>2, OutsideTicks DEF IInv, TickInv
<1> QED
  BY <1>3, <1>4, <1>5 DEF IInv

\* The timer runs the emitter.
LEMMA EmitterStartsIInv == IInv /\ EmitterStarts => IInv'
<1> SUFFICES ASSUME IInv, EmitterStarts PROVE IInv'
  OBVIOUS
<1> DEFINE m == emitter.missed
           z == [emitter EXCEPT !.pc = "runs", !.busy = conn.open, !.age = 0]
<1>1. /\ emitter \in Emitter /\ conn.open \in BOOLEAN /\ clock \in Nat
      /\ m \in Nat /\ emitter.age \in Nat /\ emitter.age <= EmitterLimit
  BY Types DEF IInv, TypeOK, EmitterInv
<1>2. /\ m * Cycle \in Nat /\ (m + 1) * Cycle = m * Cycle + Cycle
      /\ Cycle \in Nat /\ RunBound \in Nat
  BY <1>1, CyclesAddUp, Constants
<1>3. /\ z \in Emitter /\ z.pc = "runs" /\ z.busy = conn.open /\ z.age = 0
      /\ z.missed = m
  BY <1>1 DEF Emitter
<1>4. emitter' = z /\ emitter.pc = "waits" /\ clock' = clock
  BY DEF EmitterStarts, worldVars
<1>5. ReportedUpTo = clock - emitter.age - m * Cycle /\ emitter.age <= Cycle
  BY <1>1, <1>4 DEF ReportedUpTo, EmitterLimit
<1>6. conn.open => ReportedUpTo' = clock - 0 - (m + 1) * Cycle
  BY <1>3, <1>4 DEF ReportedUpTo
<1> DEFINE one == m * Cycle
           two == (m + 1) * Cycle
<1>7. conn.open => ReportedUpTo' <= ReportedUpTo
  <2>1. one \in Nat /\ two = one + Cycle
    BY <1>2
  <2> HIDE DEF one, two
  <2> QED
    BY <1>1, <1>2, <1>5, <1>6, <2>1 DEF one, two
<1>8. emitter'.age <= EmitterLimit'
  BY <1>2, <1>3, <1>4 DEF EmitterLimit
<1> HIDE DEF z, m, one, two
<1> QED
  BY <1>3, <1>4, <1>7, <1>8, EmitterStep DEF EmitterStarts

\* The emitter ends: it writes the heartbeat, or it misses.
LEMMA EmitterEndsIInv == IInv /\ EmitterEnds => IInv'
<1> SUFFICES ASSUME IInv, EmitterEnds PROVE IInv'
  OBVIOUS
<1> DEFINE m == emitter.missed
           k == IF emitter.busy THEN m + 1 ELSE 0
           z == [emitter EXCEPT !.pc = "waits", !.missed = k]
<1>1. /\ emitter \in Emitter /\ clock \in Nat /\ m \in Nat
      /\ emitter.age \in Nat /\ emitter.age <= EmitterLimit /\ Misses \in Nat
  BY Types, Constants DEF IInv, TypeOK, EmitterInv
<1>2. /\ emitter' = z /\ emitter.pc = "runs" /\ clock' = clock
      /\ emitter.busy => m < Misses
  BY DEF EmitterEnds, worldVars
<1>3. /\ z \in Emitter /\ z.pc = "waits" /\ z.age = emitter.age
      /\ z.missed = k
  <2>1. k \in 0..Misses
    BY <1>1, <1>2
  <2> HIDE DEF k
  <2> QED
    BY <1>1, <2>1 DEF Emitter
<1>4. /\ emitter.age <= RunBound /\ RunBound \in Nat /\ Cycle \in Nat
      /\ RunBound <= Cycle
  BY <1>1, <1>2, Constants DEF EmitterLimit
<1>5. emitter'.age <= EmitterLimit'
  BY <1>1, <1>2, <1>3, <1>4 DEF EmitterLimit
<1>6. ReportedUpTo' = ReportedUpTo
  BY <1>2, <1>3 DEF ReportedUpTo
<1>7. ReportedUpTo \in Int
  <2>1. m * Cycle \in Nat /\ (m + 1) * Cycle \in Nat /\ 0 * Cycle \in Nat
    BY <1>1, CyclesAddUp
  <2> QED
    BY <1>1, <2>1 DEF ReportedUpTo
<1> HIDE DEF z, m
<1> QED
  BY <1>2, <1>3, <1>5, <1>6, <1>7, EmitterStep DEF EmitterEnds

\* A report is dated within the drift of the clock.
LEMMA EmitterReportsIInv == IInv /\ EmitterReports => IInv'
<1> SUFFICES ASSUME IInv, EmitterReports PROVE IInv'
  OBVIOUS
<1> DEFINE z == [emitter EXCEPT !.pc = "waits", !.missed = 0]
<1>1. /\ emitter \in Emitter /\ clock \in Nat /\ emitter.age \in Nat
      /\ emitter.age <= EmitterLimit /\ conn.since \in Nat
  BY Types DEF IInv, TypeOK, EmitterInv
<1>2. /\ emitter' = z /\ emitter.pc = "runs"
      /\ UNCHANGED <<clock, vmStatus, lastStart, storeVars, faults, promise, tick, conn,
                     wokenAt>>
  BY DEF EmitterReports, ReportActivity
<1>3. z \in Emitter /\ z.pc = "waits" /\ z.age = emitter.age /\ z.missed = 0
  <2>1. 0 \in 0..Misses
    BY Constants
  <2> QED
    BY <1>1, <2>1 DEF Emitter
<1>4. PICK drift \in Drifts : lastActive' = clock + drift
  BY DEF EmitterReports, ReportActivity
<1>5. drift \in Nat
  BY WorldAssumption
<1>6. emitter'.age <= EmitterLimit'
  BY <1>1, <1>2, <1>3, Constants DEF EmitterLimit
<1>7. ReportedUpTo' = clock - emitter.age
  <2>1. 0 * Cycle = 0
    BY Constants
  <2> QED
    BY <1>1, <1>2, <1>3, <2>1 DEF ReportedUpTo
<1> HIDE DEF z
<1>8. TypeOK'
  BY <1>1, <1>2, <1>3, <1>4, <1>5
  DEF IInv, TypeOK, WorldTypeOK, ReconcilerTypeOK, storeVars
<1>9. EmitterInv'
  BY <1>1, <1>2, <1>4, <1>5, <1>6, <1>7 DEF IInv, EmitterInv, NoTime
<1>10. HoldInv' /\ SnapshotInv' /\ TickInv' /\ UseIsProtected'
  BY <1>1, <1>2, OutsideTicks DEF IInv, TickInv
<1> QED
  BY <1>8, <1>9, <1>10 DEF IInv

\* A user connects or leaves.
LEMMA ConnectIInv == IInv /\ (Connect \/ Disconnect) => IInv'
<1> SUFFICES ASSUME IInv, Connect \/ Disconnect PROVE IInv'
  OBVIOUS
<1> DEFINE c == [open |-> TRUE, since |-> clock]
<1>1. clock \in Nat /\ emitter.age \in Nat /\ emitter.missed \in Nat
  BY Types DEF IInv
<1>2. /\ c \in Conn /\ c.since = clock
      /\ UNCHANGED <<worldVars, tick, emitter, wokenAt>>
      /\ conn' = NoConn \/ (vmStatus = "RUNNING" /\ conn' = c)
  BY <1>1 DEF Connect, Disconnect, Conn
<1>3. UNCHANGED <<clock, vmVars, storeVars, faults, promise>>
  BY <1>2 DEF worldVars
<1> HIDE DEF c
<1>4. TypeOK'
  BY <1>2, <1>3, NoConnFacts
  DEF IInv, TypeOK, WorldTypeOK, ReconcilerTypeOK, vmVars, storeVars
<1>5. ReportedUpTo' = ReportedUpTo
  BY <1>2, <1>3 DEF ReportedUpTo
<1>6. clock >= ReportedUpTo
  <2>1. /\ emitter.missed * Cycle \in Nat /\ (emitter.missed + 1) * Cycle \in Nat
        /\ 0 * Cycle \in Nat
    BY <1>1, CyclesAddUp
  <2> QED
    BY <1>1, <2>1 DEF ReportedUpTo
<1>7. EmitterInv'
  BY <1>1, <1>2, <1>3, <1>5, <1>6, NoConnFacts
  DEF IInv, EmitterInv, EmitterLimit, vmVars
<1>8. HoldInv' /\ SnapshotInv' /\ TickInv' /\ UseIsProtected'
  BY <1>1, <1>2, <1>3, NoConnFacts, OutsideTicks DEF IInv, TickInv
<1> QED
  BY <1>4, <1>7, <1>8 DEF IInv

\* The VM is resumed.
LEMMA UpIInv == IInv /\ Up => IInv'
<1> SUFFICES ASSUME IInv, Up PROVE IInv'
  OBVIOUS
<1>1. ~conn.open /\ clock \in Nat
  BY Types DEF IInv, EmitterInv, Up
<1>2. TypeOK'
  BY BootedFacts
  DEF IInv, TypeOK, WorldTypeOK, ReconcilerTypeOK, Up, Statuses, storeVars
<1>3. EmitterInv'
  BY <1>1, BootedFacts, Constants DEF IInv, EmitterInv, EmitterLimit, Up
<1>4. HoldInv' /\ SnapshotInv' /\ TickInv' /\ UseIsProtected'
  BY <1>1, OutsideTicks DEF IInv, TickInv, Up
<1> QED
  BY <1>2, <1>3, <1>4 DEF IInv

\* Time passes.
LEMMA AdvanceIInv == IInv /\ Advance => IInv'
<1> SUFFICES ASSUME IInv, Advance PROVE IInv'
  OBVIOUS
<1> DEFINE z == [emitter EXCEPT !.age = emitter.age + 1]
<1>1. /\ clock \in Nat /\ emitter \in Emitter /\ emitter.age \in Nat
      /\ conn.since \in Nat /\ emitter.missed \in Nat
      /\ \A t \in Ticks : tick[t].now \in Nat
      /\ Cycle \in Nat /\ RunBound \in Nat /\ TickLag \in Nat
  BY Types, Constants DEF IInv, TypeOK
<1>2. /\ z \in Emitter /\ z.pc = emitter.pc /\ z.busy = emitter.busy
      /\ z.age = emitter.age + 1 /\ z.missed = emitter.missed
  BY <1>1 DEF Emitter
<1>3. /\ clock' = clock + 1
      /\ \/ vmStatus = "RUNNING" /\ emitter.age < EmitterLimit /\ emitter' = z
         \/ vmStatus # "RUNNING" /\ emitter' = emitter
      /\ UNCHANGED <<vmStatus, lastStart, lastActive, storeVars, faults, promise, tick,
                     conn, wokenAt>>
  BY <1>1 DEF Advance, vmVars, Emitter
<1> HIDE DEF z
<1>4. TypeOK'
  BY <1>1, <1>2, <1>3 DEF IInv, TypeOK, WorldTypeOK, ReconcilerTypeOK, storeVars
<1>5. EmitterLimit' = EmitterLimit /\ EmitterLimit \in Nat
  BY <1>1, <1>2, <1>3 DEF EmitterLimit
<1>6. vmStatus = "RUNNING" => ReportedUpTo' = ReportedUpTo
  <2>1. /\ emitter.missed * Cycle \in Nat /\ (emitter.missed + 1) * Cycle \in Nat
        /\ 0 * Cycle \in Nat
    BY <1>1, CyclesAddUp
  <2> DEFINE owed == (IF emitter.pc = "waits" THEN emitter.missed
                      ELSE IF emitter.busy THEN emitter.missed + 1 ELSE 0) * Cycle
  <2>2. owed \in Nat
    BY <2>1
  <2>3. vmStatus = "RUNNING" => /\ ReportedUpTo = clock - emitter.age - owed
                                /\ ReportedUpTo' = (clock + 1) - (emitter.age + 1) - owed
    BY <1>2, <1>3 DEF ReportedUpTo
  <2> HIDE DEF owed
  <2> QED
    BY <1>1, <2>2, <2>3
<1>7. EmitterInv'
  <2>1. emitter'.age <= EmitterLimit'
    BY <1>1, <1>2, <1>3, <1>5 DEF IInv, EmitterInv
  <2>2. lastActive' # NoTime => \E drift \in Drifts : lastActive' <= clock' + drift
    <3> SUFFICES ASSUME lastActive # NoTime
                 PROVE  \E drift \in Drifts : lastActive <= (clock + 1) + drift
      BY <1>3
    <3>1. PICK drift \in Drifts : lastActive <= clock + drift
      BY DEF IInv, EmitterInv
    <3>2. drift \in Nat /\ lastActive \in Nat \cup {NoTime}
      BY WorldAssumption, Types DEF IInv
    <3> QED
      BY <1>1, <3>1, <3>2 DEF NoTime
  <2>3. conn.open => vmStatus = "RUNNING" /\ conn.since <= clock
    BY DEF IInv, EmitterInv
  <2> QED
    BY <1>1, <1>3, <1>6, <2>1, <2>2, <2>3 DEF IInv, EmitterInv
<1>8. \A t \in Ticks : Reads(t) => clock' <= tick[t].now + TickLag
  BY <1>1, <1>3 DEF Advance
<1>9. HoldInv' /\ SnapshotInv' /\ TickInv' /\ UseIsProtected'
  BY <1>1, <1>3, <1>8, OutsideTicks
<1> QED
  BY <1>4, <1>7, <1>9 DEF IInv

\* A wake is after the clock reading of every tick under way.
LEMMA WakeIInv == IInv /\ Wake => IInv'
<1> SUFFICES ASSUME IInv, Wake PROVE IInv'
  OBVIOUS
<1> DEFINE h == KeepAwakeHold(clock, GraceWindow)
<1>1. /\ clock \in Nat /\ commits \in Nat /\ record.updateTime \in Nat
      /\ GraceWindow \in Nat
      /\ \A t \in Ticks : tick[t].now \in Nat /\ tick[t].doc.updateTime \in Nat
  BY Types, Constants DEF IInv
<1>2. h \in OptionalSpan /\ NoSpan \in OptionalSpan
  BY <1>1 DEF KeepAwakeHold, OptionalSpan, Span, SpanStates
<1>3. /\ commits' = commits + 1
      /\ record' = [sleep |-> NoSpan, hold |-> h, updateTime |-> commits + 1]
      /\ wokenAt' = clock
      /\ vmStatus' \in Statuses /\ (vmStatus = "RUNNING" => vmStatus' = "RUNNING")
      /\ UNCHANGED <<clock, lastStart, lastActive, faults, promise, tick, emitter, conn>>
  BY DEF Wake, Write, Statuses
<1> HIDE DEF h
<1>4. record' \in Record /\ record'.hold = h /\ record'.updateTime = commits + 1
  BY <1>1, <1>2, <1>3 DEF Record
<1>5. TypeOK'
  BY <1>1, <1>3, <1>4 DEF IInv, TypeOK, WorldTypeOK, ReconcilerTypeOK
<1>6. EmitterInv'
  BY <1>3 DEF IInv, EmitterInv, EmitterLimit, ReportedUpTo
<1>7. HoldInv'
  BY <1>1, <1>3, <1>4 DEF HoldInv, h
<1>8. SnapshotInv'
  BY <1>1, <1>3, <1>4 DEF IInv, SnapshotInv
<1>9. \A t \in Ticks : ~(clock < tick[t].now)
  BY <1>1 DEF IInv, SnapshotInv
<1>10. TickInv' /\ UseIsProtected'
  BY <1>3, <1>9 DEF IInv, TickInv, UseIsProtected, Reads, IdleSuspends
<1> QED
  BY <1>5, <1>6, <1>7, <1>8, <1>10 DEF IInv

-----------------------------------------------------------------------------
(* The steps of the reconciler.                                            *)

\* What the reconciler's step makes of a tick t.
TickShape(t, z) ==
  /\ z \in Tick
  /\ z.now <= clock
  /\ z.doc \in {record, tick[t].doc, NoRecord}
  /\ z.pc = "getInstance" => z.now = clock
  /\ z.pc \in {"readState", "readActivity"} => z.now = tick[t].now /\ Reads(t)
  /\ z.pc = "readActivity" => DecideOnState(z.now, record) = "none"
  /\ z.pc = "suspendVm" /\ z.action \in {"idle", "no-activity"} =>
       /\ tick[t].pc = "readActivity"
       /\ z.now = tick[t].now
       /\ z.action = DecideIdle(z.now, ActivityClamp(lastActive, z.now),
                               tick[t].lastStart)

\* What its step does to the document.
Collects(t) ==
  /\ Delete
  /\ Collectable(tick[t].doc, tick[t].now)
  /\ record.updateTime = tick[t].doc.updateTime

\* What one step of a tick does to the tick, the document and the VM.
LEMMA TickSteps ==
  ASSUME IInv, NEW t \in Ticks, TickStep(t) \/ AbortTick(t)
  PROVE  /\ \E z \in Tick : tick' = [tick EXCEPT ![t] = z] /\ TickShape(t, z)
         /\ vmStatus' \in Statuses /\ faults' \in 0..MaxFaults
         /\ UNCHANGED <<clock, lastStart, lastActive, promise>>
         /\ UNCHANGED storeVars \/ Collects(t)
<1> DEFINE y == tick[t]
<1>1. /\ y \in Tick /\ y.now \in Nat /\ y.now <= clock
      /\ clock \in Nat /\ record \in Record /\ promise \in Promise
      /\ lastActive \in Nat \cup {NoTime} /\ lastStart \in Nat \cup {NoTime}
      /\ vmStatus \in Statuses /\ faults \in 0..MaxFaults
  BY Types DEF IInv, SnapshotInv
<1>2. TickShape(t, IdleTick)
  BY <1>1, IdleTickType DEF TickShape
<1>3. CASE StartTick(t)
  <2> DEFINE z == [IdleTick EXCEPT !.pc = "getInstance", !.now = clock,
                                   !.under = promise]
  <2>1. z \in Tick /\ z.now = clock /\ z.doc = IdleTick.doc /\ z.pc = "getInstance"
    BY <1>1, IdleTickType DEF Tick, TickPCs
  <2>2. tick' = [tick EXCEPT ![t] = z] /\ UNCHANGED worldVars
    BY <1>3 DEF StartTick
  <2> HIDE DEF z
  <2>3. TickShape(t, z)
    BY <1>1, <2>1, IdleTickType DEF TickShape
  <2> QED
    BY <1>1, <2>1, <2>2, <2>3 DEF worldVars, vmVars
<1>4. CASE GetInstance(t)
  <2> DEFINE z == [y EXCEPT !.pc = "readState", !.lastStart = lastStart]
  <2>1. z \in Tick /\ z.now = y.now /\ z.doc = y.doc /\ z.pc = "readState"
    BY <1>1 DEF Tick, TickPCs
  <2>2. /\ tick' = [tick EXCEPT ![t] = z] \/ tick' = [tick EXCEPT ![t] = IdleTick]
        /\ UNCHANGED worldVars /\ y.pc = "getInstance"
    BY <1>4 DEF GetInstance
  <2> HIDE DEF z
  <2>3. TickShape(t, z)
    BY <1>1, <2>1, <2>2 DEF TickShape, Reads
  <2> QED
    BY <1>1, <1>2, <2>1, <2>2, <2>3, IdleTickType DEF worldVars, vmVars
<1>5. CASE ReadState(t)
  <2> DEFINE action == DecideOnState(y.now, record)
             pc == IF action = "scheduled-sleep" THEN "suspendVm"
                   ELSE IF action = "none" THEN "readActivity" ELSE "cleanup"
             z == [y EXCEPT !.doc = record, !.action = action, !.pc = pc]
  <2>1. action \in Actions /\ action \notin {"idle", "no-activity"}
    BY DEF DecideOnState, Actions, Reasons
  <2>2. /\ pc \in TickPCs \ {"getInstance", "readState"}
        /\ pc = "readActivity" => action = "none"
    BY DEF TickPCs
  <2>3. tick' = [tick EXCEPT ![t] = z] /\ UNCHANGED worldVars /\ y.pc = "readState"
    BY <1>5 DEF ReadState
  <2> HIDE DEF action, pc
  <2>4. /\ z \in Tick /\ z.now = y.now /\ z.doc = record
        /\ z.action = action /\ z.pc = pc
    BY <1>1, <2>1, <2>2 DEF Tick
  <2> HIDE DEF z
  <2>5. TickShape(t, z)
    BY <1>1, <2>1, <2>2, <2>3, <2>4 DEF TickShape, Reads, action
  <2> QED
    BY <1>1, <2>3, <2>4, <2>5 DEF worldVars, vmVars
<1>6. CASE ReadActivity(t)
  <2> DEFINE action == DecideIdle(y.now, ActivityClamp(lastActive, y.now), y.lastStart)
             pc == IF action \in SuspendReasons THEN "suspendVm" ELSE "cleanup"
             z == [y EXCEPT !.lastActive = lastActive, !.action = action, !.pc = pc]
  <2>1. action \in Actions
    BY DEF DecideIdle, Actions, Reasons
  <2>2. pc \in {"suspendVm", "cleanup"} /\ pc \in TickPCs
    BY DEF TickPCs
  <2>3. tick' = [tick EXCEPT ![t] = z] /\ UNCHANGED worldVars /\ y.pc = "readActivity"
    BY <1>6 DEF ReadActivity
  <2> HIDE DEF action, pc
  <2>4. /\ z \in Tick /\ z.now = y.now /\ z.doc = y.doc
        /\ z.action = action /\ z.pc = pc
    BY <1>1, <2>1, <2>2 DEF Tick
  <2> HIDE DEF z
  <2>5. TickShape(t, z)
    BY <1>1, <2>2, <2>3, <2>4 DEF TickShape, action
  <2> QED
    BY <1>1, <2>3, <2>4, <2>5 DEF worldVars, vmVars
<1>7. CASE SuspendVm(t) \/ WaitVmOp(t)
  <2> DEFINE At(pc) == [y EXCEPT !.pc = pc]
  <2>1. \A pc \in {"waitVmOp", "cleanup"} :
          /\ At(pc) \in Tick /\ At(pc).now = y.now /\ At(pc).doc = y.doc
          /\ At(pc).pc = pc
    BY <1>1 DEF Tick, TickPCs
  <2>2. PICK z \in {At("waitVmOp"), At("cleanup"), IdleTick} :
          tick' = [tick EXCEPT ![t] = z]
    BY <1>7 DEF SuspendVm, WaitVmOp
  <2> HIDE DEF At
  <2>3. z \in Tick /\ TickShape(t, z)
    BY <1>1, <1>2, <2>1, <2>2, IdleTickType DEF TickShape
  <2>4. vmStatus' \in Statuses /\ faults' \in 0..MaxFaults
    BY <1>1, <1>7, WorldAssumption DEF SuspendVm, WaitVmOp, Statuses, Fault
  <2>5. UNCHANGED <<clock, lastStart, lastActive, storeVars, promise>>
    BY <1>7 DEF SuspendVm, WaitVmOp
  <2> QED
    BY <2>2, <2>3, <2>4, <2>5
<1>8. CASE Cleanup(t) \/ AbortTick(t)
  <2>1. /\ tick' = [tick EXCEPT ![t] = IdleTick]
        /\ UNCHANGED <<clock, vmStatus, lastStart, lastActive, promise>>
        /\ UNCHANGED storeVars \/ Collects(t)
    BY <1>8 DEF Cleanup, AbortTick, vmVars, Precondition, Collects
  <2>2. faults' \in 0..MaxFaults
    BY <1>1, <1>8, WorldAssumption DEF Cleanup, AbortTick, Fault
  <2> QED
    BY <1>1, <1>2, <2>1, <2>2, IdleTickType
<1> QED
  BY <1>3, <1>4, <1>5, <1>6, <1>7, <1>8 DEF TickStep

\* Only a hold that has run out is collected.
LEMMA CollectsKeepsHold ==
  ASSUME IInv, NEW t \in Ticks, UNCHANGED storeVars \/ Collects(t),
         wokenAt # NoTime, clock < wokenAt + GraceWindow
  PROVE  record' = record
<1>1. CASE UNCHANGED storeVars
  BY <1>1 DEF storeVars
<1>2. CASE Collects(t)
  <2>1. /\ clock \in Nat /\ wokenAt \in Nat /\ tick[t].now \in Nat
        /\ tick[t].now <= clock /\ tick[t].doc = record /\ GraceWindow \in Nat
    BY <1>2, Types, Constants DEF IInv, SnapshotInv, Collects
  <2>2. record.hold = KeepAwakeHold(wokenAt, GraceWindow)
    BY DEF IInv, HoldInv
  <2>3. record.hold.end = wokenAt + GraceWindow /\ record.hold # NoSpan
    BY <2>2 DEF KeepAwakeHold, NoSpan
  <2>4. Keep(record.hold, tick[t].now)
    BY <2>1, <2>3 DEF Keep, Present
  <2> QED
    BY <1>2, <2>1, <2>4 DEF Collects, Collectable
<1> QED
  BY <1>1, <1>2

\* A tick begins, takes a step or is aborted.
LEMMA ReconcileIInv == IInv /\ Reconcile => IInv'
<1> SUFFICES ASSUME IInv, Reconcile PROVE IInv'
  OBVIOUS
<1>1. PICK t \in Ticks : TickStep(t) \/ AbortTick(t)
  BY DEF Reconcile
<1>2. PICK z \in Tick : tick' = [tick EXCEPT ![t] = z] /\ TickShape(t, z)
  BY <1>1, TickSteps
<1>3. /\ vmStatus' \in Statuses /\ faults' \in 0..MaxFaults
      /\ UNCHANGED <<clock, lastStart, lastActive, promise, emitter, wokenAt>>
      /\ UNCHANGED storeVars \/ Collects(t)
      /\ conn' = IF vmStatus' = "RUNNING" THEN conn ELSE NoConn
  BY <1>1, TickSteps DEF Reconcile
<1>4. /\ \A u \in Ticks : /\ tick[u] \in Tick /\ tick[u].now \in Nat
                          /\ tick[u].doc.updateTime \in Nat
                          /\ tick'[u] = IF u = t THEN z ELSE tick[u]
      /\ tick' \in [Ticks -> Tick]
      /\ clock \in Nat /\ record \in Record /\ record.updateTime \in Nat
      /\ commits \in Nat /\ conn \in Conn /\ TickLag \in Nat
      /\ wokenAt \in Nat \cup {NoTime} /\ GraceWindow \in Nat
      /\ z.now \in Nat
  BY <1>2, Types, Constants DEF IInv, TypeOK, ReconcilerTypeOK, Tick
<1>5. record' \in {record, NoRecord} /\ commits' = commits
  BY <1>3 DEF storeVars, Collects, Delete
<1>6. TypeOK'
  BY <1>3, <1>4, <1>5, RecordFacts, NoConnFacts
  DEF IInv, TypeOK, WorldTypeOK, ReconcilerTypeOK
<1>7. EmitterInv'
  BY <1>3, NoConnFacts DEF IInv, EmitterInv, EmitterLimit, ReportedUpTo
<1>8. HoldInv'
  BY <1>3, CollectsKeepsHold DEF IInv, HoldInv
<1>9. SnapshotInv'
  <2> SUFFICES ASSUME NEW u \in Ticks
               PROVE  /\ record'.updateTime <= commits'
                      /\ record'.updateTime = 0 => record' = NoRecord
                      /\ tick'[u].now <= clock'
                      /\ tick'[u].doc.updateTime <= commits'
                      /\ tick'[u].doc.updateTime = 0 => tick'[u].doc = NoRecord
                      /\ tick'[u].doc.updateTime = record'.updateTime
                           => tick'[u].doc = record'
    BY <1>5, RecordFacts, <1>4 DEF IInv, SnapshotInv
  <2>1. tick'[u].doc \in {record, tick[t].doc, tick[u].doc, NoRecord}
    BY <1>2, <1>4 DEF TickShape
  <2>2. tick'[u].now <= clock'
    BY <1>2, <1>3, <1>4 DEF TickShape, IInv, SnapshotInv
  <2>3. /\ tick'[u].doc.updateTime <= commits'
        /\ tick'[u].doc.updateTime = 0 => tick'[u].doc = NoRecord
    BY <1>4, <1>5, <2>1, RecordFacts DEF IInv, SnapshotInv
  <2>4. tick'[u].doc.updateTime = record'.updateTime => tick'[u].doc = record'
    <3>1. CASE record' = NoRecord
      BY <2>3, <3>1, RecordFacts
    <3>2. CASE record' = record
      BY <1>4, <2>1, <3>2, RecordFacts DEF IInv, SnapshotInv
    <3> QED
      BY <1>5, <3>1, <3>2
  <2> QED
    BY <1>4, <1>5, <2>2, <2>3, <2>4, RecordFacts DEF IInv, SnapshotInv
<1>10. TickInv'
  <2> SUFFICES ASSUME NEW u \in Ticks
               PROVE  /\ Reads(u)' => clock <= tick'[u].now + TickLag
                      /\ /\ tick'[u].pc = "readActivity" \/ IdleSuspends(u)'
                         /\ wokenAt # NoTime /\ wokenAt < tick'[u].now
                         => wokenAt + GraceWindow <= clock
    BY <1>3 DEF TickInv
  <2>1. CASE u # t
    BY <1>4, <2>1 DEF IInv, TickInv, Reads, IdleSuspends
  <2>2. CASE u = t
    <3>1. Reads(u)' => clock <= tick'[u].now + TickLag
      BY <1>2, <1>4, <2>2 DEF Reads, TickShape, IInv, TickInv
    <3>2. ASSUME z.pc = "readActivity", wokenAt # NoTime, wokenAt < z.now
          PROVE  wokenAt + GraceWindow <= clock
      BY <1>2, <1>4, <3>2, HoldSeen DEF TickShape, IInv
    <3>3. ASSUME z.pc = "suspendVm", z.action \in {"idle", "no-activity"},
                 wokenAt # NoTime, wokenAt < z.now
          PROVE  wokenAt + GraceWindow <= clock
      BY <1>2, <3>3 DEF TickShape, IInv, TickInv
    <3> QED
      BY <1>4, <2>2, <3>1, <3>2, <3>3 DEF IdleSuspends
  <2> QED
    BY <2>1, <2>2
<1>11. UseIsProtected'
  <2> SUFFICES ASSUME NEW u \in Ticks, IdleSuspends(u)', conn'.open
               PROVE  /\ conn.since + Gap >= tick'[u].now
                      /\ wokenAt # NoTime /\ wokenAt < tick'[u].now
                           => conn.since > wokenAt + Boot + SshWait
    BY <1>3, NoConnFacts DEF UseIsProtected
  <2>1. conn' = conn /\ conn.open
    BY <1>3, NoConnFacts
  <2>2. CASE u # t
    BY <1>4, <2>1, <2>2 DEF IInv, UseIsProtected, IdleSuspends
  <2>3. CASE u = t
    <3>1. /\ tick[t].pc = "readActivity" /\ z.now = tick[t].now
          /\ DecideIdle(z.now, ActivityClamp(lastActive, z.now), tick[t].lastStart)
                \in {"idle", "no-activity"}
          /\ tick'[u] = z
      BY <1>2, <1>4, <2>3 DEF IdleSuspends, TickShape
    <3>2. /\ clock <= z.now + TickLag /\ z.now <= clock
          /\ wokenAt # NoTime /\ wokenAt < z.now => wokenAt + GraceWindow <= clock
      BY <3>1 DEF IInv, TickInv, SnapshotInv, Reads
    <3> QED
      BY <1>4, <2>1, <3>1, <3>2, IdleSparesUse DEF IInv
  <2> QED
    BY <2>2, <2>3
<1> QED
  BY <1>6, <1>7, <1>8, <1>9, <1>10, <1>11 DEF IInv

-----------------------------------------------------------------------------
\* Every step keeps the inductive invariant.
LEMMA NextIInv == IInv /\ [Next]_vars => IInv'
<1> SUFFICES ASSUME IInv, [Next]_vars PROVE IInv'
  OBVIOUS
<1>1. CASE Next
  BY <1>1, WakeIInv, UpIInv, ConnectIInv, EmitterStartsIInv, EmitterReportsIInv,
     EmitterEndsIInv, ReconcileIInv, AdvanceIInv DEF Next
<1>2. CASE UNCHANGED vars
  BY <1>2 DEF vars, worldVars, vmVars, storeVars, sessionVars, IInv, TypeOK, WorldTypeOK,
     ReconcilerTypeOK, EmitterInv, EmitterLimit, ReportedUpTo, HoldInv, SnapshotInv,
     TickInv, UseIsProtected, Reads, IdleSuspends
<1> QED
  BY <1>1, <1>2

\* The inductive invariant holds in every reachable state.
THEOREM Inductive == Spec => []IInv
  BY InitIInv, NextIInv, PTL DEF Spec

\* Nobody who is connected is suspended for being idle, whatever reports fail up to
\* Misses, whatever wakes, resumes and boots come between, and however many
\* executions of the reconciler overlap.
THEOREM UseProtected == Spec => []UseIsProtected
<1>1. IInv => UseIsProtected
  BY DEF IInv
<1> QED
  BY <1>1, Inductive, PTL
=============================================================================
