---------------------------- MODULE StatusProofs ----------------------------
(***************************************************************************)
(* What workbox status promises, for every value of the constants: any     *)
(* documents, start times and stamps, any number of changes under the      *)
(* command and any working hours.                                          *)
(***************************************************************************)
EXTENDS Status, TLAPS

-----------------------------------------------------------------------------
(* The inductive invariant.                                                *)

Times == Nat \cup {NoTime}

Instance == [running : BOOLEAN, lastStart : Times, parses : BOOLEAN]

Attribute == [kind : {"absent", "junk", "zero", "negative", "stamp"}, stamp : Nat]

StatusPCs == {"idle", "status", "document", "activity", "start", "done"}

Report == [pc : StatusPCs, now : Nat, running : BOOLEAN, doc : Document,
           active : Times, actErr : BOOLEAN, started : Times, startErr : BOOLEAN]

TypeOK ==
  /\ clock \in Nat
  /\ inst \in Instance
  /\ record \in Record
  /\ attribute \in Attribute
  /\ snapshot \in Instance /\ snapshotAt \in Times
  /\ st \in Report
  /\ changedAt \in Nat

\* What is not read yet, or could not be, is not known.
UnreadUnknown ==
  /\ st.pc \notin {"start", "done"} \/ st.actErr => st.active = NoTime
  /\ st.pc # "done" \/ st.startErr => st.started = NoTime
  /\ st.pc \notin {"start", "done"} => ~st.actErr
  /\ st.pc # "done" => ~st.startErr
  /\ st.pc \in {"activity", "start"} => st.running

\* What the command has read is what there is, unless something changed since.
ReadStands ==
  ~touched =>
    /\ snapshotAt # NoTime => snapshot = inst
    /\ st.pc \in {"document", "activity", "start", "done"} => st.running = inst.running
    /\ st.pc \in {"activity", "start", "done"} => st.doc = ActiveDoc(Load(record), st.now)
    /\ st.pc \in {"start", "done"} /\ st.running /\ ~st.actErr =>
         st.active = UsableActivity(attribute, st.now)
    /\ st.pc = "done" /\ st.running /\ ~st.startErr => st.started = TickStart

\* A snapshot that is not of the instance as it is was fetched before it changed.
SnapshotDated ==
  /\ changedAt <= clock /\ snapshotAt <= clock
  /\ snapshotAt # NoTime => snapshot = inst \/ snapshotAt <= changedAt

StatusInv == TypeOK /\ UnreadUnknown /\ ReadStands /\ SnapshotDated

-----------------------------------------------------------------------------
(* The steps.                                                              *)

\* Loading and pruning a record gives a document.
LEMMA LoadTypes ==
  ASSUME NEW r \in Record, NEW t \in Nat
  PROVE  ActiveDoc(Load(r), t) \in Document
<1>1. r.sleep \in OptionalSpan /\ r.hold \in OptionalSpan
  BY DEF Record
<1>2. \A sp \in OptionalSpan, want \in {"awake", "asleep"} :
        ActiveSpan(FromWire(sp), t, want) \in OptionalSpan
  BY DEF ActiveSpan, FromWire, OptionalSpan
<1> QED BY <1>1, <1>2 DEF ActiveDoc, Load, Document

\* The times status makes of what it reads are times.
LEMMA ReadTypes ==
  ASSUME TypeOK
  PROVE  /\ UsableActivity(attribute, st.now) \in Times
         /\ TickStart \in Times
         /\ snapshot.lastStart \in Times /\ snapshot.parses \in BOOLEAN
         /\ inst.lastStart \in Times /\ inst.parses \in BOOLEAN
         /\ inst.running \in BOOLEAN
         /\ st.now \in Nat
BY DEF TypeOK, UsableActivity, Trusted, TickStart, Attribute, Instance, Times, Report

\* The initial states satisfy the invariant.
LEMMA InitInv == Init => StatusInv
<1> SUFFICES ASSUME Init PROVE StatusInv
  OBVIOUS
<1>1. clock \in Nat /\ changedAt = 0 /\ snapshotAt = NoTime /\ st = IdleStatus
      /\ snapshot = inst
  BY StatusAssumption DEF Init
<1>2. inst \in Instance /\ attribute \in Attribute /\ record \in Record
  <2>1. inst \in Instances /\ attribute \in Attributes /\ record \in Documents
    BY DEF Init
  <2>2. inst \in Instance
    BY <2>1, StatusAssumption DEF Instances, Instance, Times
  <2>3. attribute \in Attribute
    <3>1. CASE attribute \in [kind : {"absent", "junk", "zero", "negative"}, stamp : {0}]
      BY <3>1 DEF Attribute
    <3>2. CASE attribute \in [kind : {"stamp"}, stamp : Stamps]
      BY <3>2, StatusAssumption DEF Attribute
    <3> QED BY <2>1, <3>1, <3>2 DEF Attributes
  <2> QED BY <2>1, <2>2, <2>3, StatusAssumption
<1>3. IdleStatus \in Report /\ IdleStatus.pc = "idle"
      /\ IdleStatus.active = NoTime /\ IdleStatus.started = NoTime /\ ~IdleStatus.actErr /\ ~IdleStatus.startErr
  BY DEF IdleStatus, Report, StatusPCs, Times, Document, NoDocument, OptionalSpan
<1>4. TypeOK
  BY <1>1, <1>2, <1>3 DEF TypeOK, Times
<1>5. UnreadUnknown /\ ReadStands
  BY <1>1, <1>3 DEF UnreadUnknown, ReadStands
<1>6. SnapshotDated
  BY <1>1 DEF SnapshotDated, NoTime
<1> QED BY <1>4, <1>5, <1>6 DEF StatusInv

\* The report as a step of the command leaves it.
StepsTo(x) ==
  /\ st' = x /\ x \in Report
  /\ WorldStays /\ UNCHANGED touched

\* A step of the command that leaves the snapshot alone, or fetches a new one.
LEMMA CommandStep ==
  ASSUME StatusInv, NEW x, StepsTo(x),
         Fetch \/ UNCHANGED <<snapshot, snapshotAt>>
  PROVE  TypeOK' /\ SnapshotDated' /\ (~touched /\ snapshotAt' # NoTime => snapshot' = inst)
<1> USE DEF StatusInv, StepsTo, WorldStays
<1>1. TypeOK'
  BY DEF TypeOK, Fetch, Times
<1>2. SnapshotDated'
  BY DEF TypeOK, SnapshotDated, Fetch
<1>3. ~touched /\ snapshotAt' # NoTime => snapshot' = inst
  BY DEF ReadStands, Fetch
<1> QED BY <1>1, <1>2, <1>3

\* Nothing that status reads depends on the clock, and what changes is marked.
LEMMA WorldInv ==
  ASSUME StatusInv, Advance \/ Changes
  PROVE  StatusInv'
<1>1. CASE Advance
  BY <1>1 DEF Advance, StatusInv, TypeOK, UnreadUnknown, ReadStands, SnapshotDated, TickStart,
              Times, NoTime
<1>2. CASE Changes
  <2>1. UNCHANGED <<clock, snapshot, snapshotAt, st>> /\ touched' = TRUE
    BY <1>2 DEF Changes
  <2>2. \/ inst' = inst /\ changedAt' = changedAt
        \/ inst' \in Instance /\ changedAt' = clock
    <3>1. inst \in Instance /\ clock \in Nat
      BY DEF StatusInv, TypeOK
    <3>2. /\ [inst EXCEPT !.running = ~@] \in Instance
          /\ [running |-> TRUE, lastStart |-> clock, parses |-> TRUE] \in Instance
      BY <3>1 DEF Instance, Times
    <3> QED BY <1>2, <3>2 DEF Changes
  <2>3. record' \in Record /\ attribute' \in Attribute
    BY <1>2, StatusAssumption DEF Changes, StatusInv, TypeOK, Attribute
  <2>4. TypeOK'
    BY <2>1, <2>2, <2>3 DEF StatusInv, TypeOK
  <2>5. UnreadUnknown' /\ ReadStands'
    BY <2>1 DEF StatusInv, UnreadUnknown, ReadStands
  <2>6. SnapshotDated'
    BY <2>1, <2>2 DEF StatusInv, TypeOK, SnapshotDated, Times, NoTime
  <2> QED BY <2>4, <2>5, <2>6 DEF StatusInv
<1> QED BY <1>1, <1>2

\* A command begins with a client that has fetched nothing.
LEMMA BeginInv ==
  ASSUME StatusInv, Begin
  PROVE  StatusInv'
<1> DEFINE x == [IdleStatus EXCEPT !.pc = "status", !.now = clock]
<1>1. /\ x \in Report /\ x.pc = "status" /\ x.active = NoTime /\ x.started = NoTime
      /\ ~x.actErr /\ ~x.startErr
  BY DEF StatusInv, TypeOK, IdleStatus, Report, StatusPCs, Times, Document, NoDocument,
         OptionalSpan
<1>2. /\ st' = x /\ snapshotAt' = NoTime
      /\ UNCHANGED <<clock, inst, record, attribute, snapshot, changedAt>>
  BY DEF Begin, WorldStays
<1> HIDE DEF x
<1>3. TypeOK'
  BY <1>1, <1>2 DEF StatusInv, TypeOK, Times
<1>4. UnreadUnknown' /\ ReadStands'
  BY <1>1, <1>2 DEF UnreadUnknown, ReadStands
<1>5. SnapshotDated'
  BY <1>2 DEF StatusInv, TypeOK, SnapshotDated, NoTime
<1> QED BY <1>3, <1>4, <1>5 DEF StatusInv

\* The reads of the instance and of the document.
LEMMA ReadInv ==
  ASSUME StatusInv, ReadStatus \/ ReadDocument \/ Fails
  PROVE  StatusInv'
<1>0. st \in Report /\ inst \in Instance /\ TypeOK /\ st.now \in Nat /\ record \in Record
  BY DEF StatusInv, TypeOK, Report
<1>1. CASE ReadStatus
  <2> DEFINE x == [st EXCEPT !.pc = "document", !.running = inst.running]
  <2>1. /\ x \in Report /\ x.pc = "document" /\ x.running = inst.running
        /\ x.active = st.active /\ x.started = st.started
        /\ x.actErr = st.actErr /\ x.startErr = st.startErr
    BY <1>0 DEF Report, StatusPCs, Instance
  <2>2. StepsTo(x) /\ Fetch /\ st.pc = "status"
    BY <1>1, <2>1 DEF ReadStatus, StepsTo
  <2> HIDE DEF x
  <2>3. TypeOK' /\ SnapshotDated' /\ (~touched /\ snapshotAt' # NoTime => snapshot' = inst)
    BY <2>2, CommandStep
  <2>4. UnreadUnknown' /\ ReadStands'
    BY <2>1, <2>2, <2>3 DEF StatusInv, UnreadUnknown, ReadStands, StepsTo, WorldStays
  <2> QED BY <2>3, <2>4 DEF StatusInv
<1>2. CASE ReadDocument
  <2> DEFINE doc == ActiveDoc(Load(record), st.now)
             x == [st EXCEPT !.pc = IF st.running THEN "activity" ELSE "done",
                             !.doc = doc]
  <2>1. doc \in Document
    BY <1>0, LoadTypes
  <2> HIDE DEF doc
  <2>2. /\ x \in Report /\ x.pc = IF st.running THEN "activity" ELSE "done"
        /\ x.running = st.running /\ x.doc = doc /\ x.now = st.now
        /\ x.active = st.active /\ x.started = st.started
        /\ x.actErr = st.actErr /\ x.startErr = st.startErr
    BY <1>0, <2>1 DEF Report, StatusPCs
  <2>3. StepsTo(x) /\ UNCHANGED <<snapshot, snapshotAt>> /\ st.pc = "document"
    BY <1>2, <2>2 DEF ReadDocument, StepsTo, doc
  <2> HIDE DEF x
  <2>4. TypeOK' /\ SnapshotDated' /\ (~touched /\ snapshotAt' # NoTime => snapshot' = inst)
    BY <2>3, CommandStep
  <2>5. UnreadUnknown' /\ ReadStands'
    BY <2>2, <2>3, <2>4 DEF StatusInv, UnreadUnknown, ReadStands, StepsTo, WorldStays, doc
  <2> QED BY <2>4, <2>5 DEF StatusInv
<1>3. CASE Fails
  <2>1. /\ IdleStatus \in Report /\ IdleStatus.pc = "idle" /\ IdleStatus.active = NoTime
        /\ IdleStatus.started = NoTime /\ ~IdleStatus.actErr /\ ~IdleStatus.startErr
    BY DEF IdleStatus, Report, StatusPCs, Times, Document, NoDocument, OptionalSpan
  <2>2. StepsTo(IdleStatus) /\ UNCHANGED <<snapshot, snapshotAt>>
    BY <1>3, <2>1 DEF Fails, StepsTo
  <2>3. TypeOK' /\ SnapshotDated' /\ (~touched /\ snapshotAt' # NoTime => snapshot' = inst)
    BY <2>2, CommandStep
  <2>4. UnreadUnknown' /\ ReadStands'
    BY <2>1, <2>2, <2>3 DEF UnreadUnknown, ReadStands, StepsTo, WorldStays
  <2> QED BY <2>3, <2>4 DEF StatusInv
<1> QED BY <1>1, <1>2, <1>3

\* The read of the activity.
LEMMA ActivityInv ==
  ASSUME StatusInv, ReadActivity
  PROVE  StatusInv'
<1> DEFINE read == [st EXCEPT !.pc = "start", !.active = UsableActivity(attribute, st.now)]
           failed == [st EXCEPT !.pc = "start", !.actErr = TRUE]
<1>1. /\ st \in Report /\ UsableActivity(attribute, st.now) \in Times /\ st.pc = "activity"
      /\ st.active = NoTime /\ ~st.actErr /\ st.started = NoTime /\ ~st.startErr
      /\ st.running
  BY ReadTypes DEF StatusInv, TypeOK, ReadActivity, UnreadUnknown
<1>2. ASSUME NEW x \in {read, failed}
      PROVE  /\ x \in Report /\ x.pc = "start" /\ x.running = st.running
             /\ x.doc = st.doc /\ x.now = st.now /\ x.started = NoTime /\ ~x.startErr
             /\ \/ x.active = UsableActivity(attribute, st.now) /\ ~x.actErr
                \/ x.active = NoTime /\ x.actErr
  BY <1>1, <1>2 DEF Report, StatusPCs
<1>3. PICK x \in {read, failed} : st' = x
  BY DEF ReadActivity
<1>4. StepsTo(x) /\ UNCHANGED <<snapshot, snapshotAt>>
  BY <1>2, <1>3 DEF ReadActivity, StepsTo
<1>5. TypeOK' /\ SnapshotDated' /\ (~touched /\ snapshotAt' # NoTime => snapshot' = inst)
  BY <1>4, CommandStep
<1> HIDE DEF read, failed
<1>6. UnreadUnknown'
  BY <1>1, <1>2, <1>3 DEF UnreadUnknown
<1>7. ReadStands'
  BY <1>1, <1>2, <1>3, <1>4, <1>5
  DEF StatusInv, ReadStands, StepsTo, WorldStays, UsableActivity
<1> QED BY <1>5, <1>6, <1>7 DEF StatusInv

\* The report the last start completes, read off the instance i.
LEMMA StartedFields ==
  ASSUME StatusInv, st.pc = "start", NEW i \in Instance
  PROVE  /\ Started(i) \in Report /\ Started(i).pc = "done"
         /\ Started(i).running = st.running /\ Started(i).doc = st.doc
         /\ Started(i).now = st.now /\ Started(i).active = st.active
         /\ Started(i).actErr = st.actErr
         /\ Started(i).started = IF i.parses THEN i.lastStart ELSE NoTime
         /\ Started(i).startErr => Started(i).started = NoTime
<1>1. st \in Report
  BY DEF StatusInv, TypeOK
<1>2. (IF i.parses THEN i.lastStart ELSE NoTime) \in Times
      /\ (~i.parses /\ i.lastStart # NoTime) \in BOOLEAN
  BY DEF Instance, Times
<1> QED BY <1>1, <1>2 DEF Started, Report, StatusPCs

\* The read of the last start: a fresh snapshot is that of the instance, or one that
\* changed lately.
LEMMA StartInv ==
  ASSUME StatusInv, ReadStart
  PROVE  StatusInv'
<1>1. /\ st \in Report /\ st.pc = "start" /\ inst \in Instance /\ snapshot \in Instance
      /\ st.started = NoTime /\ st.running
  BY DEF StatusInv, TypeOK, ReadStart, UnreadUnknown
<1> DEFINE failed == [st EXCEPT !.pc = "done", !.startErr = TRUE]
<1>2. /\ failed \in Report /\ failed.pc = "done" /\ failed.running = st.running
      /\ failed.doc = st.doc /\ failed.now = st.now /\ failed.active = st.active
      /\ failed.actErr = st.actErr /\ failed.startErr /\ failed.started = NoTime
  BY <1>1 DEF Report, StatusPCs
<1> HIDE DEF failed
<1>3. PICK x \in Report :
        /\ StepsTo(x) /\ (Fetch \/ UNCHANGED <<snapshot, snapshotAt>>)
        /\ x.pc = "done" /\ x.running = st.running /\ x.doc = st.doc /\ x.now = st.now
        /\ x.active = st.active /\ x.actErr = st.actErr
        /\ x.startErr => x.started = NoTime
        /\ ~x.startErr => \E i \in Instance :
             /\ x.started = IF i.parses THEN i.lastStart ELSE NoTime
             /\ i = inst \/ (i = snapshot /\ snapshotAt # NoTime)
  <2>1. CASE FreshSnapshot
    <3>1. StepsTo(Started(snapshot)) /\ UNCHANGED <<snapshot, snapshotAt>>
      BY <1>1, <2>1, StartedFields DEF ReadStart, StepsTo
    <3> QED BY <1>1, <2>1, <3>1, StartedFields DEF FreshSnapshot
  <2>2. CASE st' = Started(inst) /\ Fetch
    <3>1. StepsTo(Started(inst))
      BY <1>1, <2>2, StartedFields DEF ReadStart, StepsTo
    <3>2. /\ Started(inst) \in Report /\ Started(inst).pc = "done"
          /\ Started(inst).running = st.running /\ Started(inst).doc = st.doc
          /\ Started(inst).now = st.now /\ Started(inst).active = st.active
          /\ Started(inst).actErr = st.actErr
          /\ Started(inst).started = IF inst.parses THEN inst.lastStart ELSE NoTime
          /\ Started(inst).startErr => Started(inst).started = NoTime
      BY <1>1, StartedFields
    <3> QED BY <1>1, <2>2, <3>1, <3>2
  <2>3. CASE st' = failed /\ UNCHANGED <<snapshot, snapshotAt>>
    <3>1. StepsTo(failed)
      BY <1>2, <2>3 DEF ReadStart, StepsTo
    <3> QED BY <1>2, <2>3, <3>1
  <2> QED BY <2>1, <2>2, <2>3 DEF ReadStart, failed
<1>4. TypeOK' /\ SnapshotDated' /\ (~touched /\ snapshotAt' # NoTime => snapshot' = inst)
  BY <1>3, CommandStep
<1>5. st' = x
  BY <1>3 DEF StepsTo
<1>6. UnreadUnknown'
  BY <1>1, <1>3, <1>5 DEF StatusInv, UnreadUnknown
<1>7. ~touched /\ ~x.startErr => x.started = TickStart
  BY <1>3 DEF StatusInv, ReadStands, TickStart
<1>8. ReadStands'
  BY <1>1, <1>3, <1>4, <1>5, <1>7
  DEF StatusInv, ReadStands, StepsTo, WorldStays, UsableActivity, TickStart
<1> QED BY <1>4, <1>6, <1>8 DEF StatusInv

\* The inductive invariant of status: what a report rests on, and the age of what the
\* client keeps.
THEOREM Inductive == Spec => []StatusInv
<1>1. StatusInv /\ UNCHANGED vars => StatusInv'
  BY DEF vars, StatusInv, TypeOK, UnreadUnknown, ReadStands, SnapshotDated, TickStart
<1>2. StatusInv /\ [Next]_vars => StatusInv'
  BY <1>1, WorldInv, BeginInv, ReadInv, ActivityInv, StartInv DEF Next
<1> QED BY <1>2, InitInv, PTL DEF Spec

\* A start time that status reports and that is no longer that of the instance was
\* still so within the lifetime of a snapshot (gcp.go's snapshot).
THEOREM ReportedStartFresh == Spec => StartIsFresh
<1> DEFINE A == st.pc = "start" /\ st'.pc = "done" /\ ~st'.startErr
                  /\ st'.started # (IF inst.parses THEN inst.lastStart ELSE NoTime)
                => clock - changedAt < SnapshotTTL
<1>1. StatusInv /\ [Next]_vars => [A]_vars
  <2> SUFFICES ASSUME StatusInv, [Next]_vars, st.pc = "start", st'.pc = "done", ~st'.startErr,
                      st'.started # (IF inst.parses THEN inst.lastStart ELSE NoTime)
               PROVE  clock - changedAt < SnapshotTTL
    OBVIOUS
  <2>1. ReadStart
    BY DEF Next, vars, Advance, Changes, Begin, ReadStatus, ReadDocument, Fails, ReadActivity
  <2>2. /\ st \in Report /\ inst \in Instance /\ snapshot \in Instance
        /\ clock \in Nat /\ changedAt \in Nat /\ snapshotAt \in Times
    BY DEF StatusInv, TypeOK
  <2>3. [st EXCEPT !.pc = "done", !.startErr = TRUE].startErr
    BY <2>2 DEF Report
  <2>4. FreshSnapshot /\ st' = Started(snapshot)
    BY <2>1, <2>2, <2>3, StartedFields DEF ReadStart
  <2>5. snapshot # inst
    BY <2>2, <2>4, StartedFields
  <2> QED BY <2>2, <2>4, <2>5, StatusAssumption DEF StatusInv, SnapshotDated, FreshSnapshot, Times,
                                   NoTime
<1>2. []StatusInv /\ [][Next]_vars => [][A]_vars
  BY <1>1, PTL
<1> QED BY <1>2, Inductive, PTL DEF Spec, StartIsFresh

-----------------------------------------------------------------------------
(* What a report on a world that did not change is worth.                  *)

\* The spans a document is pruned to are active when the workflow finds them so.
LEMMA SpansAgree ==
  ASSUME NEW r \in Record, NEW t \in Nat
  PROVE  LET doc == ActiveDoc(Load(r), t) IN
         /\ Active(doc.sleep, t) /\ doc.sleep.state = "asleep"
              <=> SpanState(r.sleep, t) = "asleep"
         /\ Active(doc.hold, t) /\ doc.hold.state = "awake"
              <=> SpanState(r.hold, t) = "awake"
<1>1. r.sleep \in OptionalSpan /\ r.hold \in OptionalSpan
  BY DEF Record
<1>2. ASSUME NEW sp \in OptionalSpan, NEW want \in {"awake", "asleep"}
      PROVE  LET left == ActiveSpan(FromWire(sp), t, want) IN
             Active(left, t) /\ left.state = want <=> SpanState(sp, t) = want
  <2>1. NoSpan.state = "none" /\ want # "none"
    BY DEF NoSpan
  <2>2. sp # NoSpan => sp.start \in Nat /\ sp.end \in Nat
    BY DEF OptionalSpan, Span
  <2> HIDE DEF NoSpan
  <2> DEFINE left == ActiveSpan(FromWire(sp), t, want)
  <2>3. SpanState(sp, t) = want <=>
          sp # NoSpan /\ sp.state = want /\ sp.start <= t /\ t < sp.end
    BY DEF SpanState
  <2>4. sp # NoSpan /\ sp.state = want /\ t < sp.end => left = sp
    BY <2>2 DEF ActiveSpan, Expired, FromWire
  <2>5. ~(sp # NoSpan /\ sp.state = want /\ t < sp.end) => left = NoSpan
    BY <2>1, <2>2 DEF ActiveSpan, Expired, FromWire
  <2> HIDE DEF left
  <2>6. Active(left, t) /\ left.state = want <=> SpanState(sp, t) = want
    BY <2>1, <2>3, <2>4, <2>5 DEF Active
  <2> QED BY <2>6 DEF left
<1>3. /\ ActiveDoc(Load(r), t).sleep = ActiveSpan(FromWire(r.sleep), t, "asleep")
      /\ ActiveDoc(Load(r), t).hold = ActiveSpan(FromWire(r.hold), t, "awake")
  BY DEF ActiveDoc, Load
<1> QED BY <1>1, <1>2, <1>3

\* The engine decides in the two stages of the workflow.
LEMMA EngineInStages ==
  ASSUME NEW r \in Record, NEW t \in Nat, NEW active \in Times, NEW started \in Times,
         Trusted(active, t) = active
  PROVE  AutoSuspend(t, ActiveDoc(Load(r), t).sleep, ActiveDoc(Load(r), t).hold,
                     t \in WorkingHours, active, started)
           = IF DecideOnState(t, r) # "none" THEN DecideOnState(t, r)
                                             ELSE DecideIdle(t, active, started)
<1> HIDE DEF NoTime
<1> QED BY SpansAgree DEF AutoSuspend, DecideOnState, DecideIdle, Recent

\* What a report rests on when nothing changed while it was made.
LEMMA ReportStands ==
  ASSUME StatusInv, Undisturbed, st.running
  PROVE  /\ inst.running /\ record \in Record /\ st.now \in Nat
         /\ st.active \in Times /\ st.started \in Times
         /\ st.actErr \in BOOLEAN /\ st.startErr \in BOOLEAN
         /\ TickActivity(st.now) \in Times /\ TickStart \in Times
         /\ Trusted(st.active, st.now) = st.active
         /\ st.active = IF st.actErr THEN NoTime ELSE TickActivity(st.now)
         /\ st.started = IF st.startErr THEN NoTime ELSE TickStart
         /\ Engine = IF DecideOnState(st.now, record) # "none"
                       THEN DecideOnState(st.now, record)
                       ELSE DecideIdle(st.now, st.active, st.started)
<1>1. /\ st \in Report /\ record \in Record /\ attribute \in Attribute /\ inst \in Instance
      /\ st.pc = "done" /\ ~touched
  BY DEF StatusInv, TypeOK, Undisturbed
<1>2. /\ inst.running /\ st.now \in Nat /\ st.active \in Times /\ st.started \in Times
      /\ st.actErr \in BOOLEAN /\ st.startErr \in BOOLEAN
      /\ st.doc = ActiveDoc(Load(record), st.now)
      /\ st.actErr => st.active = NoTime
      /\ ~st.actErr => st.active = UsableActivity(attribute, st.now)
      /\ st.startErr => st.started = NoTime
      /\ ~st.startErr => st.started = TickStart
  BY <1>1 DEF StatusInv, ReadStands, UnreadUnknown, Report
<1>3. TickStart \in Times /\ TickActivity(st.now) \in Times
      /\ UsableActivity(attribute, st.now) = TickActivity(st.now)
  BY <1>1, <1>2 DEF TickStart, Instance, TickActivity, UsableActivity, ActivityClamp, Trusted,
                    FutureActivity, Attribute, Times
<1>4. Trusted(NoTime, st.now) = NoTime
  BY <1>2 DEF Trusted
<1>5. Trusted(TickActivity(st.now), st.now) = TickActivity(st.now)
  BY <1>1, <1>2, <1>4 DEF Trusted, TickActivity, ActivityClamp, FutureActivity
<1>6. Trusted(st.active, st.now) = st.active
  BY <1>2, <1>3, <1>4, <1>5
<1>7. Engine = IF DecideOnState(st.now, record) # "none"
                 THEN DecideOnState(st.now, record)
                 ELSE DecideIdle(st.now, st.active, st.started)
  BY <1>1, <1>2, <1>6, EngineInStages DEF Engine
<1> QED BY <1>1, <1>2, <1>3, <1>6, <1>7

\* What the workflow's two stages can decide.
LEMMA StageReasons ==
  ASSUME NEW t, NEW r, NEW active, NEW started
  PROVE  /\ DecideOnState(t, r) \in {"scheduled-sleep", "keep-awake", "working-hours",
                                     "idle-disabled", "none"}
         /\ DecideIdle(t, active, started) \in {"active", "boot-grace", "no-activity", "idle"}
BY DEF DecideOnState, DecideIdle

\* How the idle half of the verdict depends on what could not be read.
LEMMA IdleUnread ==
  ASSUME NEW t \in Nat, NEW active \in Times, NEW started \in Times,
         NEW actErr \in BOOLEAN, NEW startErr \in BOOLEAN
  PROVE  LET known == DecideIdle(t, active, started)
             found == DecideIdle(t, IF actErr THEN NoTime ELSE active,
                                    IF startErr THEN NoTime ELSE started) IN
         /\ found = "active" => known = "active"
         /\ found = "boot-grace" => known \in {"active", "boot-grace"}
         /\ found = "idle" /\ ~startErr => known = "idle"
         /\ found = "no-activity" /\ ~actErr /\ ~startErr => known = "no-activity"
         /\ ~actErr /\ ~startErr => known = found
<1> HIDE DEF NoTime
<1> QED BY DEF DecideIdle

\* Undisturbed, a report never says that the VM will be suspended, or left alone,
\* where a tick at its own time would do otherwise, whichever of its reads failed
\* (the verdict in status.go).
THEOREM ReportNeverContradicts == Spec => []NeverContradicts
<1>1. StatusInv => NeverContradicts
  <2> SUFFICES ASSUME StatusInv, Undisturbed, Reason # "activity-unknown"
               PROVE  Suspend <=> TickReason(st.now) \in SuspendReasons
    BY DEF NeverContradicts
  <2>1. CASE ~st.running
    <3>1. ~inst.running
      BY <2>1 DEF StatusInv, ReadStands, Undisturbed
    <3> QED BY <2>1, <3>1 DEF Suspend, Reason, TickReason, SuspendReasons
  <2>2. CASE st.running
    <3> DEFINE D == DecideOnState(st.now, record)
               found == DecideIdle(st.now, st.active, st.started)
               known == DecideIdle(st.now, TickActivity(st.now), TickStart)
    <3>1. /\ inst.running /\ st.actErr \in BOOLEAN /\ st.startErr \in BOOLEAN
          /\ Engine = IF D # "none" THEN D ELSE found
      BY <2>2, ReportStands
    <3>2. /\ found = "active" => known = "active"
          /\ found = "boot-grace" => known \in {"active", "boot-grace"}
          /\ found = "idle" /\ ~st.startErr => known = "idle"
          /\ found = "no-activity" /\ ~st.actErr /\ ~st.startErr => known = "no-activity"
      BY <2>2, ReportStands, IdleUnread
    <3>3. /\ D \in {"scheduled-sleep", "keep-awake", "working-hours", "idle-disabled", "none"}
          /\ found \in {"active", "boot-grace", "no-activity", "idle"}
      BY StageReasons
    <3>4. ~HingesOnUnread /\ Reason = Engine
      BY <2>2 DEF Reason
    <3>5. TickReason(st.now) = IF D # "none" THEN D ELSE TickIdle(st.now)
      BY <3>1 DEF TickReason
    <3>6. TickIdle(st.now) = known \/ (known = "no-activity" /\ TickIdle(st.now) = "idle")
      BY DEF TickIdle
    <3> HIDE DEF D, found, known
    <3> QED BY <3>1, <3>2, <3>3, <3>4, <3>5, <3>6 DEF HingesOnUnread, Suspend, SuspendReasons
  <2> QED BY <2>1, <2>2
<1> QED BY <1>1, Inductive, PTL

\* Nor does it hide behind not knowing: it does so only over the idle half of the
\* verdict and after a failed read, and gives the tick's own reason when it could
\* read everything.
THEOREM ReportSaysWhatItKnows == Spec => []SaysWhatItKnows
<1>1. StatusInv => SaysWhatItKnows
  <2> SUFFICES ASSUME StatusInv, Undisturbed
               PROVE  /\ Reason = "activity-unknown" =>
                           /\ st.actErr \/ st.startErr
                           /\ TickReason(st.now) \in
                                {"active", "boot-grace", "no-activity", "idle"}
                      /\ ~st.actErr /\ ~st.startErr /\ attribute.kind # "negative" =>
                           Reason = TickReason(st.now)
    BY DEF SaysWhatItKnows
  <2>1. CASE ~st.running
    <3>1. ~inst.running
      BY <2>1 DEF StatusInv, ReadStands, Undisturbed
    <3> QED BY <2>1, <3>1 DEF Reason, TickReason
  <2>2. CASE st.running
    <3> DEFINE D == DecideOnState(st.now, record)
               found == DecideIdle(st.now, st.active, st.started)
               known == DecideIdle(st.now, TickActivity(st.now), TickStart)
    <3>1. /\ inst.running /\ st.actErr \in BOOLEAN /\ st.startErr \in BOOLEAN
          /\ Engine = IF D # "none" THEN D ELSE found
          /\ ~st.actErr /\ ~st.startErr => known = found
      BY <2>2, ReportStands
    <3>2. /\ D \in {"scheduled-sleep", "keep-awake", "working-hours", "idle-disabled", "none"}
          /\ found \in {"active", "boot-grace", "no-activity", "idle"}
          /\ known \in {"active", "boot-grace", "no-activity", "idle"}
      BY StageReasons
    <3>3. Reason = IF HingesOnUnread THEN "activity-unknown" ELSE Engine
      BY <2>2 DEF Reason
    <3>4. TickReason(st.now) = IF D # "none" THEN D ELSE TickIdle(st.now)
      BY <3>1 DEF TickReason
    <3>5. /\ TickIdle(st.now) \in {known, "idle"}
          /\ attribute.kind # "negative" => TickIdle(st.now) = known
      BY DEF TickIdle
    <3> HIDE DEF D, found, known
    <3> QED BY <3>1, <3>2, <3>3, <3>4, <3>5 DEF HingesOnUnread
  <2> QED BY <2>1, <2>2
<1> QED BY <1>1, Inductive, PTL

\* A time at which the workflow's verdict is read off the attribute as it was read at
\* an earlier one.
LEMMA TrustedLater ==
  ASSUME attribute \in Attribute, NEW s \in Nat, NEW t \in Nat, s <= t,
         TickActivity(s) # NoTime
  PROVE  TickActivity(t) = TickActivity(s)
BY ScheduleAssumption DEF TickActivity, ActivityClamp, Attribute, NoTime

\* No tick before the "earliest idle suspend" of a report suspends the VM as idle
\* while nothing changes, and idle shutdown does apply from then on where status
\* could read everything (the report in status.go).
THEOREM ReportedEarliestHonest == Spec => []EarliestIsHonest
<1>1. StatusInv => EarliestIsHonest
  <2> DEFINE E == EarliestIdleSuspend
  <2> SUFFICES ASSUME StatusInv, Undisturbed, NamesEarliest
               PROVE  /\ \A t \in st.now..(E - 1) :
                           TickReason(t) \notin {"no-activity", "idle"}
                      /\ ~st.actErr /\ ~st.startErr
                         /\ (st.active # NoTime \/ attribute.kind # "stamp") =>
                           TickIdle(E) \in {"no-activity", "idle"}
    BY DEF EarliestIsHonest
  <2>1. st.running /\ Engine \in {"active", "boot-grace"}
    BY DEF NamesEarliest, Reason
  <2>2. /\ inst.running /\ record \in Record /\ st.now \in Nat
        /\ st.active \in Times /\ st.started \in Times
        /\ TickActivity(st.now) \in Times /\ TickStart \in Times
        /\ st.active = IF st.actErr THEN NoTime ELSE TickActivity(st.now)
        /\ st.started = IF st.startErr THEN NoTime ELSE TickStart
        /\ Engine = IF DecideOnState(st.now, record) # "none"
                      THEN DecideOnState(st.now, record)
                      ELSE DecideIdle(st.now, st.active, st.started)
        /\ attribute \in Attribute /\ IdleTimeout \in Nat /\ NoTime = -1
    BY <2>1, ReportStands, ScheduleAssumption DEF StatusInv, TypeOK, NoTime
  <2>3. DecideIdle(st.now, st.active, st.started) \in {"active", "boot-grace"}
    BY <2>1, <2>2, StageReasons
  <2>4. /\ \/ st.active # NoTime /\ st.now - st.active < IdleTimeout
           \/ st.started # NoTime /\ st.now - st.started < IdleTimeout
        /\ E = (IF st.started > st.active THEN st.started ELSE st.active) + IdleTimeout
    BY <2>3 DEF DecideIdle, EarliestIdleSuspend
  <2>5. /\ E \in Nat /\ st.now < E
        /\ st.active # NoTime => E - st.active >= IdleTimeout
        /\ st.started # NoTime => E - st.started >= IdleTimeout
        /\ \A t \in st.now..(E - 1) :
             \/ st.active # NoTime /\ t - st.active < IdleTimeout
             \/ st.started # NoTime /\ t - st.started < IdleTimeout
    BY <2>2, <2>4 DEF Times
  <2>6. ASSUME NEW t \in st.now..(E - 1)
        PROVE  TickReason(t) \notin {"no-activity", "idle"}
    <3>1. t \in Nat /\ st.now <= t
      BY <2>2, <2>5
    <3>2. st.active # NoTime => TickActivity(t) = st.active
      BY <2>2, <3>1, TrustedLater
    <3>3. st.started # NoTime => TickStart = st.started
      BY <2>2
    <3>4. DecideIdle(t, TickActivity(t), TickStart) \in {"active", "boot-grace"}
      BY <2>5, <3>2, <3>3 DEF DecideIdle
    <3>5. TickIdle(t) \in {"active", "boot-grace"}
      BY <3>4 DEF TickIdle
    <3> QED BY <3>5, StageReasons DEF TickReason
  <2>7. ASSUME ~st.actErr, ~st.startErr, st.active # NoTime \/ attribute.kind # "stamp"
        PROVE  TickIdle(E) \in {"no-activity", "idle"}
    <3>1. TickActivity(E) = st.active
      <4>1. CASE st.active # NoTime
        BY <2>2, <2>5, <4>1, TrustedLater
      <4>2. CASE st.active = NoTime
        BY <2>7, <4>2 DEF TickActivity
      <4> QED BY <4>1, <4>2
    <3>2. TickStart = st.started
      BY <2>2, <2>7
    <3>3. DecideIdle(E, st.active, st.started) \in {"no-activity", "idle"}
      BY <2>2, <2>5 DEF DecideIdle, Times
    <3> QED BY <3>1, <3>2, <3>3 DEF TickIdle
  <2> QED BY <2>6, <2>7
<1> QED BY <1>1, Inductive, PTL

\* Status and doctor tell the same of the activity signal, and doctor's pass and
\* warning mean what the ticks make of the attribute (activityCheck).
THEOREM ReportAgreesWithDoctor == Spec => []DoctorAgrees
<1>1. StatusInv => DoctorAgrees
  <2> DEFINE passed == ActivitySignal(st.now) = "pass"
  <2> SUFFICES ASSUME StatusInv, Undisturbed, st.running
               PROVE  /\ st.actErr \/ (passed <=> st.active # NoTime)
                      /\ passed => \A t \in st.now..MaxTime : TickActivity(t) # NoTime
                      /\ ~passed => TickActivity(st.now) = NoTime
    BY DEF DoctorAgrees
  <2>1. /\ attribute \in Attribute /\ st.now \in Nat /\ MaxTime \in Nat
        /\ st.active = IF st.actErr THEN NoTime ELSE TickActivity(st.now)
    BY ReportStands, StatusAssumption DEF StatusInv, TypeOK
  <2>2. passed <=> TickActivity(st.now) # NoTime
    BY <2>1 DEF ActivitySignal, FutureActivity, TickActivity, ActivityClamp, Attribute, NoTime
  <2>3. passed => \A t \in st.now..MaxTime : TickActivity(t) # NoTime
    BY <2>1, <2>2, TrustedLater
  <2> QED BY <2>1, <2>2, <2>3
<1> QED BY <1>1, Inductive, PTL
=============================================================================
