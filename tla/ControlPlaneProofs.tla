------------------------- MODULE ControlPlaneProofs -------------------------
(***************************************************************************)
(* Theorems about ControlPlane for every value of its constants.           *)
(***************************************************************************)
EXTENDS ControlPlane, TLAPS

-----------------------------------------------------------------------------
(* What the operators on spans and documents return.                       *)

\* A keep-awake hold and a scheduled sleep are spans.
LEMMA SpanTypes ==
  ASSUME NEW n \in Nat, NEW d \in Nat
  PROVE  /\ KeepAwakeHold(n, d) \in Span
         /\ ScheduledSleep(n, d) \in Span
BY DEF KeepAwakeHold, ScheduledSleep, Span, SpanStates

\* Loading and pruning a record gives a document.
LEMMA LoadTypes ==
  ASSUME NEW r \in Record, NEW n \in Nat
  PROVE  /\ Load(r) \in Document
         /\ ActiveDoc(Load(r), n) \in Document
<1>1. r.sleep \in OptionalSpan /\ r.hold \in OptionalSpan
  BY DEF Record
<1>2. Load(r) \in Document
  BY <1>1 DEF Load, FromWire, Document, OptionalSpan
<1>3. ASSUME NEW sp \in OptionalSpan, NEW want
      PROVE  ActiveSpan(sp, n, want) \in OptionalSpan
  BY <1>3 DEF ActiveSpan, OptionalSpan
<1>4. Load(r).sleep \in OptionalSpan /\ Load(r).hold \in OptionalSpan
  BY <1>2 DEF Document
<1>5. ActiveDoc(Load(r), n) \in Document
  BY <1>3, <1>4 DEF ActiveDoc, Document
<1> QED BY <1>2, <1>5

\* longerAwakeHold returns one of the two holds it is given.
LEMMA LongerTypes ==
  ASSUME NEW doc \in Document, NEW sp \in Span
  PROVE  LongerAwakeHold(doc, sp) \in OptionalSpan
BY DEF LongerAwakeHold, Document, OptionalSpan

-----------------------------------------------------------------------------
(* The initial states, and the pieces a step is made of.                   *)

\* The initial states satisfy the invariant.
LEMMA InitIInv == Init => IInv
<1> SUFFICES ASSUME Init PROVE IInv
  OBVIOUS
<1> USE WorldAssumption, CLIAssumption DEF Init, WorldInit, CLIInit, ReconcilerInit
<1>1. IdleSession \in Session /\ IdleTick \in Tick
  BY DEF IdleSession, Session, SessionPCs, OptionalSpan, Document, NoDocument,
         Record, NoRecord, IdleTick, Tick, TickPCs, Actions, Promise, NoPromise
<1>2. record \in Record
  BY DEF Record, NoRecord, OptionalSpan
<1>3. TypeOK
  BY <1>1, <1>2 DEF TypeOK, WorldTypeOK, CLITypeOK, ReconcilerTypeOK, Statuses,
                    Promise, NoPromise
<1>4. ShellsWellFormed
  BY DEF ShellsWellFormed, WellFormed, IdleSession
<1>5. RecordDated
  BY DEF RecordDated, NoRecord
<1>6. SnapshotDated
  BY <1>5 DEF SnapshotDated, RecordDated, IdleTick, NoRecord
<1>7. NoEmptyDocument
  BY DEF NoEmptyDocument, Empty, Span, NoSpan, SpanStates
<1> QED BY <1>3, <1>4, <1>5, <1>6, <1>7 DEF IInv

\* A step that leaves the document alone, deletes it or writes a document keeps
\* the dates in order, if it leaves the ticks alone.
LEMMA StoreStep ==
  ASSUME IInv, UNCHANGED tick, clock' \in Nat, clock <= clock',
         \/ UNCHANGED storeVars
         \/ Delete
         \/ \E d \in Document : ~Empty(d) /\ Write(d)
  PROVE  /\ record' \in Record
         /\ commits' \in Nat
         /\ RecordDated'
         /\ SnapshotDated'
         /\ NoEmptyDocument'
<1> USE DEF IInv, TypeOK, WorldTypeOK, ReconcilerTypeOK
<1>0. /\ NoRecord \in Record
      /\ NoRecord.updateTime = 0
      /\ record.updateTime \in Nat
      /\ \A t \in Ticks : tick[t] \in Tick /\ tick[t].doc.updateTime \in Nat
                                           /\ tick[t].now \in Nat
  BY DEF NoRecord, Record, OptionalSpan, Tick
<1>1. CASE UNCHANGED storeVars
  BY <1>0, <1>1 DEF storeVars, RecordDated, SnapshotDated, NoEmptyDocument
<1>2. CASE Delete
  BY <1>0, <1>2 DEF Delete, RecordDated, SnapshotDated, NoEmptyDocument
<1>3. CASE \E d \in Document : ~Empty(d) /\ Write(d)
  <2> PICK d \in Document : ~Empty(d) /\ Write(d)
    BY <1>3
  <2>1. commits' = commits + 1 /\ record'.updateTime = commits + 1
    BY DEF Write
  <2>2. record' \in Record
    BY DEF Write, Record, Document
  <2>3. RecordDated'
    BY <2>1 DEF RecordDated
  <2>4. SnapshotDated'
    BY <1>0, <2>1 DEF SnapshotDated
  <2>5. NoEmptyDocument'
    BY DEF NoEmptyDocument, Empty, Write
  <2> QED BY <2>1, <2>2, <2>3, <2>4, <2>5
<1> QED BY <1>1, <1>2, <1>3

\* A step that replaces one shell's record by another keeps the shells' part.
LEMMA SessionStepTypes ==
  ASSUME IInv, NEW s \in Sessions, NEW x \in Session, WellFormed(x),
         sess' = [sess EXCEPT ![s] = x]
  PROVE  sess' \in [Sessions -> Session] /\ ShellsWellFormed'
BY DEF IInv, TypeOK, CLITypeOK, ShellsWellFormed, WellFormed

\* The session a command returns to is well formed and has its type.
LEMMA IdleSessionTypes == IdleSession \in Session /\ WellFormed(IdleSession)
BY DEF IdleSession, Session, SessionPCs, OptionalSpan, Document, NoDocument,
       Record, NoRecord, WellFormed

\* What a command tells the user is a promise.
LEMMA PromisedTypes ==
  ASSUME TypeOK, NEW u \in Nat, NEW n \in Nat
  PROVE  Promised(u, n) \in Promise
BY DEF TypeOK, WorldTypeOK, Promised, Promise, Later, NoTime

\* The pieces of state a shell's step may change, each with its type.
LEMMA ShellStep ==
  ASSUME IInv, NEW s \in Sessions, NEW x \in Session, WellFormed(x),
         sess' = [sess EXCEPT ![s] = x],
         UNCHANGED <<clock, lastActive, tick>>,
         vmStatus' \in Statuses, lastStart' \in Nat \cup {NoTime},
         faults' \in 0..MaxFaults, promise' \in Promise, issued' \in 0..MaxCommands,
         \/ UNCHANGED storeVars
         \/ Delete
         \/ \E d \in Document : ~Empty(d) /\ Write(d)
  PROVE  IInv'
<1>1. /\ sess' \in [Sessions -> Session]
      /\ ShellsWellFormed'
  BY SessionStepTypes
<1>2. clock \in Nat /\ clock' = clock
  BY DEF IInv, TypeOK, WorldTypeOK
<1>3. /\ record' \in Record /\ commits' \in Nat /\ RecordDated' /\ SnapshotDated'
      /\ NoEmptyDocument'
  BY <1>2, StoreStep
<1>4. TypeOK'
  BY <1>1, <1>3 DEF IInv, TypeOK, WorldTypeOK, CLITypeOK, ReconcilerTypeOK
<1> QED BY <1>1, <1>3, <1>4 DEF IInv

\* The pieces of state a tick's step may change, when it leaves the record alone.
LEMMA TickStepTypes ==
  ASSUME IInv, NEW t \in Ticks, NEW y \in Tick,
         tick' = [tick EXCEPT ![t] = y],
         y.now <= clock,
         y.doc \in {record, tick[t].doc, NoRecord},
         UNCHANGED <<clock, lastStart, lastActive, promise, cliVars>>,
         vmStatus' \in Statuses, faults' \in 0..MaxFaults,
         UNCHANGED storeVars \/ Delete
  PROVE  IInv'
<1> USE DEF IInv, TypeOK, WorldTypeOK, CLITypeOK, ReconcilerTypeOK
<1>0. /\ NoRecord \in Record
      /\ NoRecord.updateTime = 0
      /\ record.updateTime \in Nat
      /\ \A u \in Ticks : tick[u] \in Tick /\ tick[u].doc.updateTime \in Nat
  BY DEF NoRecord, Record, OptionalSpan, Tick
<1>1. tick' \in [Ticks -> Tick]
  OBVIOUS
<1>2. record' \in {record, NoRecord} /\ commits' = commits
  BY DEF storeVars, Delete
<1>3. TypeOK'
  BY <1>0, <1>1, <1>2 DEF cliVars
<1>4. ShellsWellFormed'
  BY DEF ShellsWellFormed, cliVars
<1>5. RecordDated'
  BY <1>0, <1>2 DEF RecordDated
<1>6. SnapshotDated'
  <2> SUFFICES ASSUME NEW u \in Ticks
               PROVE  /\ tick'[u].now <= clock'
                      /\ tick'[u].doc.updateTime <= commits'
                      /\ tick'[u].doc.updateTime = 0 => tick'[u].doc = NoRecord
                      /\ tick'[u].doc.updateTime = record'.updateTime
                           => tick'[u].doc = record'
    BY DEF SnapshotDated
  <2>1. tick'[u] = IF u = t THEN y ELSE tick[u]
    OBVIOUS
  <2>2. tick'[u].doc \in {record, tick[t].doc, tick[u].doc, NoRecord}
    BY <2>1
  <2>3. tick'[u].now <= clock'
    BY <2>1 DEF SnapshotDated
  <2>4. tick'[u].doc.updateTime <= commits'
    BY <1>0, <1>2, <2>2 DEF SnapshotDated, RecordDated
  <2>5. tick'[u].doc.updateTime = 0 => tick'[u].doc = NoRecord
    BY <2>2 DEF SnapshotDated, RecordDated
  <2>6. tick'[u].doc.updateTime = record'.updateTime => tick'[u].doc = record'
    <3>1. CASE record' = NoRecord
      BY <1>0, <2>5, <3>1
    <3>2. CASE record' = record
      BY <1>0, <2>2, <3>2 DEF SnapshotDated, RecordDated
    <3> QED BY <1>2, <3>1, <3>2
  <2> QED BY <2>3, <2>4, <2>5, <2>6
<1>7. NoEmptyDocument'
  BY <1>2 DEF NoEmptyDocument
<1> QED BY <1>3, <1>4, <1>5, <1>6, <1>7

-----------------------------------------------------------------------------
(* The steps of a shell.                                                   *)

\* The type of a shell's record, field by field.
LEMMA SessionFields ==
  ASSUME IInv, NEW s \in Sessions
  PROVE  /\ sess[s] \in Session
         /\ sess[s].now \in Nat /\ sess[s].d \in Nat
         /\ sess[s].deadline \in Nat
         /\ sess[s].span \in OptionalSpan
         /\ sess[s].doc \in Document /\ sess[s].base \in Record
         /\ clock \in Nat /\ record \in Record /\ promise \in Promise
         /\ vmStatus \in Statuses /\ lastStart \in Nat \cup {NoTime}
         /\ faults \in 0..MaxFaults /\ issued \in 0..MaxCommands
BY DEF IInv, TypeOK, WorldTypeOK, CLITypeOK, Session

\* The arguments of a command, and what it takes back, have their types.
LEMMA ArgumentTypes ==
  ASSUME IInv, NEW cmd \in Commands
  PROVE  /\ HoldDurations(cmd) \subseteq Nat
         /\ SleepSpans(cmd) \subseteq OptionalSpan
         /\ cmd = "sleep-at" => SleepSpans(cmd) \subseteq Span
         /\ FirstStep(cmd) \in {"sleepStatus", "clear", "load"}
         /\ issued < MaxCommands => Retracted(cmd) \in Promise
<1>1. HoldDurations(cmd) \subseteq Nat
  BY CLIAssumption, ScheduleAssumption DEF HoldDurations, GraceWindow
<1>2. /\ SleepSpans(cmd) \subseteq OptionalSpan
      /\ cmd = "sleep-at" => SleepSpans(cmd) \subseteq Span
  <2>1. clock \in Nat
    BY DEF IInv, TypeOK, WorldTypeOK
  <2>2. \A delay \in SleepDelays, length \in SleepLengths :
          ScheduledSleep(clock + delay, length) \in Span
    BY <2>1, CLIAssumption, SpanTypes
  <2> QED BY <2>2 DEF SleepSpans, OptionalSpan
<1>3. FirstStep(cmd) \in {"sleepStatus", "clear", "load"}
  BY DEF FirstStep
<1>4. ASSUME issued < MaxCommands PROVE Retracted(cmd) \in Promise
  <2>1. promise \in Promise /\ NoPromise \in Promise /\ issued + 1 \in Nat
    BY CLIAssumption DEF IInv, TypeOK, WorldTypeOK, CLITypeOK, Promise, NoPromise
  <2> QED BY <2>1 DEF Retracted, Promise
<1> QED BY <1>1, <1>2, <1>3, <1>4

\* The arguments and the clock a command starts with have their types.
LEMMA StartCommandIInv ==
  ASSUME IInv, NEW s \in Sessions, StartCommand(s), UNCHANGED tick
  PROVE  IInv'
<1>0. PICK cmd \in Commands :
        \E d \in HoldDurations(cmd), span \in SleepSpans(cmd) :
          /\ sess' = [sess EXCEPT ![s] =
               [IdleSession EXCEPT !.pc = FirstStep(cmd), !.cmd = cmd,
                                   !.now = clock, !.d = d, !.span = span]]
          /\ promise' = Retracted(cmd)
  BY DEF StartCommand
<1>1. PICK d \in HoldDurations(cmd), span \in SleepSpans(cmd) :
        /\ sess' = [sess EXCEPT ![s] =
             [IdleSession EXCEPT !.pc = FirstStep(cmd), !.cmd = cmd,
                                 !.now = clock, !.d = d, !.span = span]]
        /\ promise' = Retracted(cmd)
  BY <1>0
<1> DEFINE x == [IdleSession EXCEPT !.pc = FirstStep(cmd), !.cmd = cmd,
                                    !.now = clock, !.d = d, !.span = span]
<1>2. x \in Session /\ WellFormed(x)
  <2>1. x \in Session
    BY ArgumentTypes, IdleSessionTypes, SessionFields, CLIAssumption
    DEF Session, SessionPCs, AllCommands
  <2>2. x.pc = FirstStep(cmd) /\ x.cmd = cmd /\ x.span = span
    BY IdleSessionTypes DEF Session
  <2> QED BY <2>1, <2>2, ArgumentTypes DEF WellFormed
<1>3. issued' \in 0..MaxCommands /\ promise' \in Promise
  BY <1>1, ArgumentTypes, SessionFields, CLIAssumption DEF StartCommand
<1>4. UNCHANGED <<clock, vmStatus, lastStart, lastActive, storeVars, faults>>
  BY DEF StartCommand, vmVars
<1>5. sess' = [sess EXCEPT ![s] = x]
  BY <1>1
<1> HIDE DEF x
<1> QED BY <1>2, <1>3, <1>4, <1>5, SessionFields, ShellStep

\* The documents the commands save are documents, and the ones that are saved
\* without the choice of clearing hold a span.
LEMMA CommandDocTypes ==
  ASSUME NEW doc \in Document, NEW n \in Nat, NEW d \in Nat
  PROVE  /\ WakeDoc(doc, n, d) \in Document
         /\ KeepAwakeDoc(doc, n, d) \in Document
         /\ ~Empty(KeepAwakeDoc(doc, n, d))
         /\ Set(doc, "hold", KeepAwakeHold(n, d)) \in Document
         /\ \A sp \in Span : /\ Set(doc, "sleep", sp) \in Document
                             /\ ~Empty(Set(doc, "sleep", sp))
<1>1. /\ KeepAwakeHold(n, d) \in Span
      /\ LongerAwakeHold(doc, KeepAwakeHold(n, d)) \in OptionalSpan
  BY SpanTypes, LongerTypes
<1>2. NoSpan \notin Span /\ NoSpan.state = "none"
  BY DEF NoSpan, Span, SpanStates
<1>3. LongerAwakeHold(doc, KeepAwakeHold(n, d)) # NoSpan
  BY <1>1, <1>2 DEF LongerAwakeHold
<1>4. doc.sleep \in OptionalSpan /\ doc.hold \in OptionalSpan /\ NoSpan \in OptionalSpan
  BY DEF Document, OptionalSpan
<1>5. WakeDoc(doc, n, d) \in Document
  BY <1>1, <1>4 DEF WakeDoc, Document
<1>6. KeepAwakeDoc(doc, n, d) \in Document /\ ~Empty(KeepAwakeDoc(doc, n, d))
  BY <1>1, <1>3, <1>4 DEF KeepAwakeDoc, Document, Empty
<1>7. \A sp \in Span : /\ Set(doc, "sleep", sp) \in Document
                       /\ Set(doc, "hold", sp) \in Document
                       /\ ~Empty(Set(doc, "sleep", sp))
  BY <1>2, <1>4 DEF Set, Document, Empty, OptionalSpan
<1> QED BY <1>1, <1>5, <1>6, <1>7

\* What settleAfterWait is to save is a document.
LEMMA SettledDocTypes ==
  ASSUME NEW raw \in Document, NEW x \in Session
  PROVE  SettledDoc(raw, x) \in Document
<1>1. KeepAwakeHold(x.now, x.d) \in Span
  BY SpanTypes DEF Session
<1> QED BY <1>1 DEF SettledDoc, Document, OptionalSpan

\* The steps inside wakeWithRetry give records of sessions.
LEMMA RetryTypes ==
  ASSUME IInv, NEW x \in Session
  PROVE  /\ EnterRetry(x) \in Session /\ WellFormed(EnterRetry(x))
         /\ Awake(x) \in Session /\ WellFormed(Awake(x))
         /\ HeldUntil(x) \in Nat
         /\ x.now < x.deadline => StartWait(x) \in Session /\ WellFormed(StartWait(x))
<1>1. /\ clock \in Nat /\ NoDocument \in Document /\ NoRecord \in Record
  BY DEF IInv, TypeOK, WorldTypeOK, NoDocument, Document, NoRecord, Record,
         OptionalSpan
<1>2. EnterRetry(x) \in Session /\ WellFormed(EnterRetry(x))
  <2>0. clock + Window \in Nat
    BY <1>1, CLIAssumption
  <2>1. EnterRetry(x) \in Session
    BY <1>1, <2>0 DEF EnterRetry, Session, SessionPCs
  <2>2. EnterRetry(x).pc = "status"
    BY DEF EnterRetry, Session
  <2> QED BY <2>1, <2>2 DEF WellFormed
<1>3. Awake(x) \in Session /\ WellFormed(Awake(x))
  <2>1. CASE x.waited
    <3>1. Awake(x) = [x EXCEPT !.pc = "settle", !.now = clock]
      BY <2>1 DEF Awake
    <3>2. Awake(x) \in Session /\ Awake(x).pc = "settle"
      BY <1>1, <3>1 DEF Session, SessionPCs
    <3> QED BY <3>2 DEF WellFormed
  <2>2. CASE ~x.waited
    BY <2>2, IdleSessionTypes DEF Awake
  <2> QED BY <2>1, <2>2
<1>4. HeldUntil(x) \in Nat
  BY DEF HeldUntil, Session, Document, OptionalSpan, Span, NoSpan
<1>5. ASSUME x.now < x.deadline
      PROVE  StartWait(x) \in Session /\ WellFormed(StartWait(x))
  <2>1. clock + Earlier(Interval, x.deadline - x.now) \in Nat
    BY <1>1, <1>5, CLIAssumption DEF Earlier, Session
  <2> QED BY <1>1, <2>1 DEF StartWait, Session, SessionPCs, WellFormed
<1> QED BY <1>2, <1>3, <1>4, <1>5

\* A shell that goes to a step with no condition of its own stays well formed.
LEMMA GotoTypes ==
  ASSUME NEW x \in Session,
         NEW pc \in SessionPCs \ {"load", "save", "refresh", "refreshSave"}
  PROVE  /\ [x EXCEPT !.pc = pc] \in Session
         /\ WellFormed([x EXCEPT !.pc = pc])
<1> DEFINE y == [x EXCEPT !.pc = pc]
<1>1. y \in Session /\ y.pc = pc
  BY DEF Session
<1> QED BY <1>1 DEF WellFormed

\* A write the command may replace by a delete, and one it may not.
LEMMA CommitStep ==
  ASSUME IInv, NEW s \in Sessions, Commit(s),
         sess[s].pc \in {"save", "settleSave"}
  PROVE  Delete \/ \E d \in Document : ~Empty(d) /\ Write(d)
<1>1. sess[s].doc \in Document
  BY SessionFields
<1>2. CASE sess[s].cmd = "wake" \/ sess[s].pc = "settleSave"
  BY <1>1, <1>2 DEF Commit, SaveOrClear
<1>3. CASE ~(sess[s].cmd = "wake" \/ sess[s].pc = "settleSave")
  <2>1. ~Empty(sess[s].doc)
    BY <1>3 DEF IInv, ShellsWellFormed, WellFormed
  <2> QED BY <1>1, <1>3, <2>1 DEF Commit
<1> QED BY <1>2, <1>3

\* The loads of wake, keep-awake and sleep-at.
LEMMA LoadIInv ==
  ASSUME IInv, NEW s \in Sessions, UNCHANGED tick,
         LoadForWake(s) \/ LoadForKeepAwake(s) \/ LoadForSleepAt(s)
  PROVE  IInv'
<1> DEFINE x == sess[s]
           doc == Loaded(s)
<1>1. x \in Session /\ x.now \in Nat /\ x.d \in Nat /\ record \in Record
  BY SessionFields
<1>2. doc \in Document
  BY <1>1, LoadTypes DEF Loaded
<1> HIDE DEF doc
<1>3. CASE LoadForWake(s)
  <2> DEFINE y == [x EXCEPT !.doc = WakeDoc(doc, x.now, x.d)]
  <2>1. y \in Session /\ y.cmd = "wake" /\ y.now = x.now
    BY <1>1, <1>2, <1>3, CommandDocTypes DEF Session, LoadForWake
  <2>2. CASE WakeChanges(doc, x.now, x.d)
    <3> DEFINE z == [y EXCEPT !.pc = "save", !.base = record]
    <3>1. z \in Session /\ z.pc = "save" /\ z.cmd = "wake"
      BY <1>1, <2>1 DEF Session, SessionPCs
    <3>2. WellFormed(z)
      BY <3>1 DEF WellFormed
    <3>3. sess' = [sess EXCEPT ![s] = z] /\ UNCHANGED promise
      BY <1>3, <2>2 DEF LoadForWake, doc
    <3>4. UNCHANGED <<clock, vmStatus, lastStart, lastActive, storeVars, faults, issued>>
      BY <1>3 DEF LoadForWake, vmVars
    <3> HIDE DEF z
    <3> QED BY <3>1, <3>2, <3>3, <3>4, SessionFields, ShellStep
  <2>3. CASE ~WakeChanges(doc, x.now, x.d)
    <3> DEFINE z == EnterRetry(y)
    <3>1. z \in Session /\ WellFormed(z) /\ HeldUntil(y) \in Nat
      BY <2>1, RetryTypes
    <3>2. /\ sess' = [sess EXCEPT ![s] = z]
          /\ promise' = Promised(HeldUntil(y), x.now)
      BY <1>3, <2>3 DEF LoadForWake, doc
    <3>3. UNCHANGED <<clock, vmStatus, lastStart, lastActive, storeVars, faults, issued>>
      BY <1>3 DEF LoadForWake, vmVars
    <3>4. promise' \in Promise
      BY <1>1, <3>1, <3>2, PromisedTypes DEF IInv
    <3> HIDE DEF z
    <3> QED BY <3>1, <3>2, <3>3, <3>4, SessionFields, ShellStep
  <2> QED BY <2>2, <2>3
<1>4. CASE LoadForKeepAwake(s)
  <2> DEFINE z == [x EXCEPT !.pc = "save", !.base = record,
                            !.doc = KeepAwakeDoc(doc, x.now, x.d)]
  <2>1. z \in Session /\ z.pc = "save" /\ z.doc = KeepAwakeDoc(doc, x.now, x.d)
    BY <1>1, <1>2, CommandDocTypes DEF Session, SessionPCs
  <2>2. WellFormed(z)
    BY <1>1, <1>2, <2>1, CommandDocTypes DEF WellFormed
  <2>3. sess' = [sess EXCEPT ![s] = z]
    BY <1>4 DEF LoadForKeepAwake, doc
  <2>4. UNCHANGED <<worldVars, issued>>
    BY <1>4 DEF LoadForKeepAwake
  <2> HIDE DEF z
  <2> QED BY <2>1, <2>2, <2>3, <2>4, SessionFields, ShellStep DEF worldVars, vmVars
<1>5. CASE LoadForSleepAt(s)
  <2> DEFINE z == [x EXCEPT !.pc = "save", !.base = record, !.span = NoSpan,
                            !.doc = Set(doc, "sleep", x.span)]
  <2>1. x.span \in Span
    BY <1>5 DEF LoadForSleepAt, IInv, ShellsWellFormed, WellFormed
  <2>2. /\ Set(doc, "sleep", x.span) \in Document
        /\ ~Empty(Set(doc, "sleep", x.span))
    BY <1>1, <1>2, <2>1, CommandDocTypes
  <2>3. z \in Session /\ z.pc = "save" /\ z.doc = Set(doc, "sleep", x.span)
    BY <1>1, <2>2 DEF Session, SessionPCs, OptionalSpan
  <2>4. WellFormed(z)
    BY <2>2, <2>3 DEF WellFormed
  <2>5. sess' = [sess EXCEPT ![s] = z]
    BY <1>5 DEF LoadForSleepAt, doc
  <2>6. UNCHANGED <<worldVars, issued>>
    BY <1>5 DEF LoadForSleepAt
  <2> HIDE DEF z
  <2> QED BY <2>3, <2>4, <2>5, <2>6, SessionFields, ShellStep DEF worldVars, vmVars
<1> QED BY <1>3, <1>4, <1>5

\* The writes of the commands, answered or not.
LEMMA SaveIInv ==
  ASSUME IInv, NEW s \in Sessions, UNCHANGED tick,
         Save(s) \/ SettleSave(s) \/ LostAnswer(s)
  PROVE  IInv'
<1>1. /\ sess[s] \in Session /\ sess[s].now \in Nat
      /\ EnterRetry(sess[s]) \in Session /\ WellFormed(EnterRetry(sess[s]))
      /\ HeldUntil(sess[s]) \in Nat
  BY SessionFields, RetryTypes
<1>2. Promised(HeldUntil(sess[s]), sess[s].now) \in Promise
  BY <1>1, PromisedTypes DEF IInv
<1>3. CASE Save(s)
  <2>1. Delete \/ \E d \in Document : ~Empty(d) /\ Write(d)
    BY <1>3, CommitStep DEF Save
  <2>2. \/ sess' = [sess EXCEPT ![s] = IdleSession]
        \/ sess' = [sess EXCEPT ![s] = EnterRetry(sess[s])]
    BY <1>3 DEF Save, Return
  <2>3. promise' \in Promise
    BY <1>2, <1>3, SessionFields DEF Save
  <2>4. UNCHANGED <<clock, vmStatus, lastStart, lastActive, faults, issued>>
    BY <1>3 DEF Save, vmVars
  <2> QED BY <1>1, <2>1, <2>2, <2>3, <2>4, IdleSessionTypes, SessionFields, ShellStep
<1>4. CASE SettleSave(s)
  <2>1. Delete \/ \E d \in Document : ~Empty(d) /\ Write(d)
    BY <1>4, CommitStep DEF SettleSave
  <2>2. /\ sess' = [sess EXCEPT ![s] = IdleSession]
        /\ promise' \in Promise
    BY <1>2, <1>4 DEF SettleSave, Return
  <2>3. UNCHANGED <<clock, vmStatus, lastStart, lastActive, faults, issued>>
    BY <1>4 DEF SettleSave, vmVars
  <2> QED BY <2>1, <2>2, <2>3, IdleSessionTypes, SessionFields, ShellStep
<1>5. CASE LostAnswer(s)
  <2>1. Delete \/ \E d \in Document : ~Empty(d) /\ Write(d)
    BY <1>5, CommitStep DEF LostAnswer
  <2>2. /\ sess' = [sess EXCEPT ![s] = IdleSession]
        /\ faults' \in 0..MaxFaults
    BY <1>5, WorldAssumption, SessionFields DEF LostAnswer, Return, Fault
  <2>3. UNCHANGED <<clock, vmStatus, lastStart, lastActive, promise, issued>>
    BY <1>5 DEF LostAnswer, vmVars
  <2> QED BY <2>1, <2>2, <2>3, IdleSessionTypes, SessionFields, ShellStep
<1> QED BY <1>3, <1>4, <1>5

\* The steps of compute.Wake and compute.Sleep, and the commands' last ones.
LEMMA ComputeIInv ==
  ASSUME IInv, NEW s \in Sessions, UNCHANGED tick,
         \/ Status(s) \/ CallWake(s) \/ WakeDone(s) \/ WakeFailed(s)
         \/ SleepStatus(s) \/ CallSuspend(s) \/ SuspendDone(s)
         \/ Clear(s) \/ Stop(s) \/ Retry(s)
  PROVE  IInv'
<1> DEFINE x == sess[s]
           At(pc) == [x EXCEPT !.pc = pc]
           Targets == {"resume", "start", "resuming", "starting", "status",
                       "suspend", "suspending", "clear"}
<1>1. /\ x \in Session
      /\ Awake(x) \in Session /\ WellFormed(Awake(x))
      /\ IdleSession \in Session /\ WellFormed(IdleSession)
  BY SessionFields, RetryTypes, IdleSessionTypes
<1>2. \A pc \in Targets : At(pc) \in Session /\ WellFormed(At(pc))
  <2> SUFFICES ASSUME NEW pc \in Targets
               PROVE  At(pc) \in Session /\ WellFormed(At(pc))
    OBVIOUS
  <2>1. pc \in SessionPCs \ {"load", "save", "refresh", "refreshSave"}
    BY DEF SessionPCs
  <2> QED BY <1>1, <2>1, GotoTypes
<1>3. PICK y \in {IdleSession, Awake(x)} \cup {At(pc) : pc \in Targets} :
        sess' = [sess EXCEPT ![s] = y]
  BY DEF Status, CallWake, WakeDone, WakeFailed, SleepStatus, CallSuspend,
         SuspendDone, Clear, Stop, Retry, Goto, Return, WaitingFor
<1>4. y \in Session /\ WellFormed(y)
  BY <1>1, <1>2
<1>5. /\ vmStatus' \in Statuses
      /\ lastStart' \in Nat \cup {NoTime}
      /\ faults' \in 0..MaxFaults
  BY SessionFields, WorldAssumption
  DEF Status, CallWake, WakeDone, WakeFailed, SleepStatus, CallSuspend,
      SuspendDone, Clear, Stop, Retry, Fault, Statuses, worldVars, vmVars
<1>6. /\ UNCHANGED <<clock, lastActive, promise, issued>>
      /\ UNCHANGED storeVars \/ Delete
  BY DEF Status, CallWake, WakeDone, WakeFailed, SleepStatus, CallSuspend,
         SuspendDone, Clear, Stop, Retry, worldVars, vmVars
<1> QED BY <1>4, <1>3, <1>5, <1>6, SessionFields, ShellStep

\* The steps of a wait for capacity.
LEMMA CapacityIInv ==
  ASSUME IInv, NEW s \in Sessions, UNCHANGED tick,
         CapacityShortage(s) \/ Refresh(s) \/ RefreshSave(s) \/ RefreshFails(s)
  PROVE  IInv'
<1> DEFINE x == sess[s]
<1>1. /\ x \in Session /\ x.now \in Nat /\ x.d \in Nat /\ x.deadline \in Nat
      /\ x.doc \in Document /\ clock \in Nat /\ record \in Record
  BY SessionFields
<1>2. CASE CapacityShortage(s)
  <2> DEFINE w == [x EXCEPT !.now = clock, !.waited = TRUE]
             r == [w EXCEPT !.pc = "refresh"]
  <2>1. UNCHANGED <<clock, lastStart, lastActive, storeVars, faults, promise, issued>>
    BY <1>2 DEF CapacityShortage
  <2>2. vmStatus' \in Statuses
    BY <1>2, SessionFields DEF CapacityShortage, Statuses
  <2>3. sess' = [sess EXCEPT ![s] = IF x.deadline <= clock THEN IdleSession
                                    ELSE IF w.d = 0 THEN StartWait(w) ELSE r]
    BY <1>2 DEF CapacityShortage, WindowOver
  <2>4. w \in Session /\ w.now = clock /\ w.deadline = x.deadline
    BY <1>1 DEF Session
  <2>5. CASE x.deadline <= clock
    <3>1. sess' = [sess EXCEPT ![s] = IdleSession]
      BY <2>3, <2>5
    <3> QED BY <2>1, <2>2, <3>1, IdleSessionTypes, SessionFields, ShellStep
  <2>6. CASE ~(x.deadline <= clock) /\ w.d = 0
    <3>1. sess' = [sess EXCEPT ![s] = StartWait(w)]
      BY <2>3, <2>6
    <3>2. w.now < w.deadline
      BY <1>1, <2>4, <2>6
    <3>3. StartWait(w) \in Session /\ WellFormed(StartWait(w))
      BY <2>4, <3>2, RetryTypes
    <3> HIDE DEF w
    <3> QED BY <2>1, <2>2, <3>1, <3>3, SessionFields, ShellStep
  <2>7. CASE ~(x.deadline <= clock) /\ w.d # 0
    <3>1. sess' = [sess EXCEPT ![s] = r]
      BY <2>3, <2>7
    <3>2. r \in Session /\ r.pc = "refresh" /\ r.now = clock /\ r.deadline = x.deadline
      BY <1>1, <2>4 DEF Session, SessionPCs
    <3>3. WellFormed(r)
      BY <1>1, <2>7, <3>2 DEF WellFormed
    <3> HIDE DEF r
    <3> QED BY <2>1, <2>2, <3>1, <3>2, <3>3, SessionFields, ShellStep
  <2> QED BY <2>5, <2>6, <2>7
<1>3. ASSUME x.pc \in {"refresh", "refreshSave"}
      PROVE  /\ x.now < x.deadline
             /\ StartWait(x) \in Session /\ WellFormed(StartWait(x))
  <2>1. x.now < x.deadline
    BY <1>3 DEF IInv, ShellsWellFormed, WellFormed
  <2> QED BY <1>1, <2>1, RetryTypes
<1>4. CASE Refresh(s)
  <2> DEFINE raw == Load(record)
             z == [x EXCEPT !.pc = "refreshSave", !.base = record,
                            !.doc = Set(raw, "hold", KeepAwakeHold(x.now, x.d))]
  <2>1. UNCHANGED <<clock, vmStatus, lastStart, lastActive, storeVars, faults,
                    promise, issued>>
    BY <1>4 DEF Refresh, worldVars, vmVars
  <2>2. \/ sess' = [sess EXCEPT ![s] = z]
        \/ sess' = [sess EXCEPT ![s] = StartWait(x)]
    BY <1>4 DEF Refresh
  <2>3. raw \in Document
    BY <1>1, LoadTypes
  <2>4. Set(raw, "hold", KeepAwakeHold(x.now, x.d)) \in Document
    BY <1>1, <2>3, CommandDocTypes
  <2>5. z \in Session /\ z.pc = "refreshSave" /\ z.now = x.now /\ z.deadline = x.deadline
    BY <1>1, <2>4 DEF Session, SessionPCs
  <2>6. x.now < x.deadline /\ StartWait(x) \in Session /\ WellFormed(StartWait(x))
    BY <1>3, <1>4 DEF Refresh
  <2>7. WellFormed(z)
    BY <2>5, <2>6 DEF WellFormed
  <2> HIDE DEF z
  <2> QED BY <2>1, <2>2, <2>5, <2>6, <2>7, SessionFields, ShellStep
<1>5. CASE RefreshSave(s) \/ RefreshFails(s)
  <2>1. /\ UNCHANGED <<clock, vmStatus, lastStart, lastActive, promise, issued>>
        /\ sess' = [sess EXCEPT ![s] = StartWait(x)]
    BY <1>5 DEF RefreshSave, RefreshFails, vmVars
  <2>2. faults' \in 0..MaxFaults
    BY <1>5, WorldAssumption, SessionFields DEF RefreshSave, RefreshFails, Fault
  <2>3. \/ UNCHANGED storeVars
        \/ Delete
        \/ \E d \in Document : ~Empty(d) /\ Write(d)
    BY <1>1, <1>5 DEF RefreshSave, RefreshFails, SaveOrClear
  <2>4. StartWait(x) \in Session /\ WellFormed(StartWait(x))
    BY <1>3, <1>5 DEF RefreshSave, RefreshFails
  <2> QED BY <2>1, <2>2, <2>3, <2>4, SessionFields, ShellStep
<1> QED BY <1>2, <1>4, <1>5

\* settleAfterWait, up to its write.
LEMMA SettleIInv ==
  ASSUME IInv, NEW s \in Sessions, UNCHANGED tick, Settle(s)
  PROVE  IInv'
<1> DEFINE x == sess[s]
           z == [x EXCEPT !.pc = "settleSave", !.base = record,
                          !.doc = SettledDoc(Load(record), x)]
<1>1. /\ UNCHANGED <<clock, vmStatus, lastStart, lastActive, storeVars, faults, issued>>
      /\ \/ sess' = [sess EXCEPT ![s] = z] /\ UNCHANGED promise
         \/ /\ sess' = [sess EXCEPT ![s] = IdleSession]
            /\ promise' = Promised(0, x.now)
  BY DEF Settle, Return, vmVars
<1>2. x \in Session /\ x.now \in Nat /\ record \in Record
  BY SessionFields
<1>3. SettledDoc(Load(record), x) \in Document
  BY <1>2, LoadTypes, SettledDocTypes
<1>4. z \in Session /\ z.pc = "settleSave"
  BY <1>2, <1>3 DEF Session, SessionPCs
<1>5. WellFormed(z)
  BY <1>4 DEF WellFormed
<1>6. promise' \in Promise
  <2>1. Promised(0, x.now) \in Promise
    BY <1>2, PromisedTypes DEF IInv
  <2> QED BY <1>1, <2>1, SessionFields
<1> HIDE DEF z
<1> QED BY <1>1, <1>4, <1>5, <1>6, IdleSessionTypes, SessionFields, ShellStep

-----------------------------------------------------------------------------
(* The steps of a tick.                                                    *)

\* A tick's step keeps the invariant: it leaves the record alone or deletes it,
\* and the document it holds is one it read.
LEMMA TickIInv ==
  ASSUME IInv, NEW t \in Ticks, UNCHANGED cliVars,
         TickStep(t) \/ AbortTick(t)
  PROVE  IInv'
<1> DEFINE y == tick[t]
<1>1. /\ y \in Tick /\ y.now \in Nat /\ y.now <= clock
      /\ clock \in Nat /\ record \in Record /\ promise \in Promise
      /\ lastActive \in Nat \cup {NoTime} /\ lastStart \in Nat \cup {NoTime}
      /\ vmStatus \in Statuses /\ faults \in 0..MaxFaults
  BY DEF IInv, TypeOK, WorldTypeOK, ReconcilerTypeOK, SnapshotDated, Tick
<1>2. IdleTick \in Tick /\ IdleTick.now <= clock /\ IdleTick.doc = NoRecord
  <2>1. IdleTick \in Tick
    BY DEF IdleTick, Tick, TickPCs, Actions, Promise, NoPromise, Record, NoRecord,
           OptionalSpan
  <2> QED BY <1>1, <2>1 DEF IdleTick
<1>3. ASSUME NEW z \in Tick, tick' = [tick EXCEPT ![t] = z], z.now <= clock,
             z.doc \in {record, y.doc, NoRecord}, UNCHANGED worldVars
      PROVE  IInv'
  <2>1. UNCHANGED <<clock, vmStatus, lastStart, lastActive, storeVars, faults, promise>>
    BY <1>3 DEF worldVars, vmVars
  <2> QED BY <1>1, <1>3, <2>1, TickStepTypes
<1>4. CASE StartTick(t)
  <2> DEFINE z == [IdleTick EXCEPT !.pc = "getInstance", !.now = clock,
                                   !.under = promise]
  <2>1. z \in Tick /\ z.now <= clock /\ z.doc = NoRecord
    <3>1. z \in Tick /\ z.now = clock /\ z.doc = IdleTick.doc
      BY <1>1, <1>2 DEF Tick, TickPCs
    <3> HIDE DEF z
    <3> QED BY <1>1, <1>2, <3>1
  <2>2. tick' = [tick EXCEPT ![t] = z] /\ UNCHANGED worldVars
    BY <1>4 DEF StartTick
  <2> HIDE DEF z
  <2> QED BY <1>1, <1>3, <2>1, <2>2
<1>5. CASE GetInstance(t)
  <2> DEFINE z == [y EXCEPT !.pc = "readState", !.lastStart = lastStart]
  <2>1. z \in Tick /\ z.now = y.now /\ z.doc = y.doc
    BY <1>1 DEF Tick, TickPCs
  <2>2. /\ tick' = [tick EXCEPT ![t] = z] \/ tick' = [tick EXCEPT ![t] = IdleTick]
        /\ UNCHANGED worldVars
    BY <1>5 DEF GetInstance
  <2> HIDE DEF z
  <2> QED BY <1>1, <1>2, <1>3, <2>1, <2>2
<1>6. CASE ReadState(t)
  <2> DEFINE action == DecideOnState(y.now, record)
             pc == IF action = "scheduled-sleep" THEN "suspendVm"
                   ELSE IF action = "none" THEN "readActivity" ELSE "cleanup"
             z == [y EXCEPT !.doc = record, !.action = action, !.pc = pc]
  <2>1. action \in Actions
    BY DEF DecideOnState, Actions, Reasons
  <2>2. pc \in TickPCs
    BY DEF TickPCs
  <2>3. tick' = [tick EXCEPT ![t] = z] /\ UNCHANGED worldVars
    BY <1>6 DEF ReadState
  <2> HIDE DEF action, pc
  <2>4. z \in Tick /\ z.now = y.now /\ z.doc = record
    BY <1>1, <2>1, <2>2 DEF Tick
  <2> HIDE DEF z
  <2> QED BY <1>1, <1>3, <2>3, <2>4
<1>7. CASE ReadActivity(t)
  <2> DEFINE action == DecideIdle(y.now, ActivityClamp(lastActive, y.now), y.lastStart)
             pc == IF action \in SuspendReasons THEN "suspendVm" ELSE "cleanup"
             z == [y EXCEPT !.lastActive = lastActive, !.action = action, !.pc = pc]
  <2>1. action \in Actions
    BY DEF DecideIdle, Actions, Reasons
  <2>2. pc \in TickPCs
    BY DEF TickPCs
  <2>3. tick' = [tick EXCEPT ![t] = z] /\ UNCHANGED worldVars
    BY <1>7 DEF ReadActivity
  <2> HIDE DEF action, pc
  <2>4. z \in Tick /\ z.now = y.now /\ z.doc = y.doc
    BY <1>1, <2>1, <2>2 DEF Tick
  <2> HIDE DEF z
  <2> QED BY <1>1, <1>3, <2>3, <2>4
<1>8. CASE SuspendVm(t) \/ WaitVmOp(t)
  <2> DEFINE At(pc) == [y EXCEPT !.pc = pc]
  <2>1. \A pc \in {"waitVmOp", "cleanup"} :
          At(pc) \in Tick /\ At(pc).now = y.now /\ At(pc).doc = y.doc
    BY <1>1 DEF Tick, TickPCs
  <2>2. PICK z \in {At("waitVmOp"), At("cleanup"), IdleTick} :
          tick' = [tick EXCEPT ![t] = z]
    BY <1>8 DEF SuspendVm, WaitVmOp
  <2>3. z \in Tick /\ z.now <= clock /\ z.doc \in {y.doc, NoRecord}
    BY <1>1, <1>2, <2>1, <2>2
  <2>4. vmStatus' \in Statuses /\ faults' \in 0..MaxFaults
    BY <1>1, <1>8, WorldAssumption DEF SuspendVm, WaitVmOp, Statuses, Fault
  <2>5. UNCHANGED <<clock, lastStart, lastActive, storeVars, promise>>
    BY <1>8 DEF SuspendVm, WaitVmOp
  <2> HIDE DEF At
  <2> QED BY <2>2, <2>3, <2>4, <2>5, TickStepTypes
<1>9. CASE Cleanup(t) \/ AbortTick(t)
  <2>1. /\ tick' = [tick EXCEPT ![t] = IdleTick]
        /\ UNCHANGED <<clock, vmStatus, lastStart, lastActive, promise>>
        /\ UNCHANGED storeVars \/ Delete
    BY <1>9 DEF Cleanup, AbortTick, vmVars
  <2>2. faults' \in 0..MaxFaults
    BY <1>1, <1>9, WorldAssumption DEF Cleanup, AbortTick, Fault
  <2> QED BY <1>1, <1>2, <2>1, <2>2, TickStepTypes
<1> QED BY <1>4, <1>5, <1>6, <1>7, <1>8, <1>9 DEF TickStep

-----------------------------------------------------------------------------
(* The steps of neither, and the theorems.                                 *)

\* Time, the guest and an operation nobody waits for keep the invariant.
LEMMA WorldIInv ==
  ASSUME IInv, Advance \/ Emit \/ OrphanEnds
  PROVE  IInv'
<1> USE DEF IInv, TypeOK, WorldTypeOK, CLITypeOK, ReconcilerTypeOK
<1>1. /\ clock' \in Nat /\ clock <= clock'
      /\ vmStatus' \in Statuses
      /\ lastActive' \in Nat \cup {NoTime}
  BY WorldAssumption
  DEF Advance, Emit, ReportActivity, OrphanEnds, vmVars, Statuses
<1>2. UNCHANGED <<lastStart, storeVars, faults, promise, cliVars, tick>>
  BY DEF Advance, Emit, ReportActivity, OrphanEnds, vmVars
<1>3. RecordDated' /\ SnapshotDated' /\ NoEmptyDocument' /\ record' \in Record
      /\ commits' \in Nat
  BY <1>1, <1>2, StoreStep
<1>4. ShellsWellFormed'
  BY <1>2 DEF ShellsWellFormed, cliVars
<1> QED BY <1>1, <1>2, <1>3, <1>4 DEF cliVars

\* The invariant is inductive.
LEMMA NextIInv == IInv /\ [Next]_vars => IInv'
<1> SUFFICES ASSUME IInv, [Next]_vars PROVE IInv'
  OBVIOUS
<1>1. CASE Advance \/ Emit \/ OrphanEnds
  BY <1>1, WorldIInv
<1>2. ASSUME NEW s \in Sessions, Command(s) \/ Proceed(s) \/ SessionFails(s)
      PROVE  IInv'
  BY <1>2, StartCommandIInv, LoadIInv, SaveIInv, ComputeIInv, CapacityIInv, SettleIInv
  DEF Command, Proceed, SessionFails, SessionStep, SessionFault
<1>3. ASSUME NEW t \in Ticks, Reconcile(t) \/ TickFails(t)
      PROVE  IInv'
  BY <1>3, TickIInv DEF Reconcile, TickFails
<1>4. CASE UNCHANGED vars
  BY <1>4 DEF vars, worldVars, cliVars, vmVars, storeVars, IInv, TypeOK, WorldTypeOK,
              CLITypeOK, ReconcilerTypeOK, ShellsWellFormed, RecordDated,
              SnapshotDated, NoEmptyDocument
<1> QED BY <1>1, <1>2, <1>3, <1>4 DEF Next

\* In every behaviour, for any number of shells and of executions of the
\* reconciler at once, the dates of the documents are in order and every wait for
\* capacity begins before its deadline.
THEOREM Inductive == Spec => []IInv
BY InitIInv, NextIInv, PTL DEF Spec

\* Every variable keeps its type; among other things a wait never lasts less than
\* no time at all, although it is the difference of two clock readings.
THEOREM TypeCorrect == Spec => []TypeOK
<1>1. IInv => TypeOK
  BY DEF IInv
<1> QED BY <1>1, Inductive, PTL

\* No command ever leaves a document on record that the workflow cannot collect
\* (App.saveOrClear, and the saves that do not go through it).
THEOREM NeverEmpty == Spec => []NoEmptyDocument
<1>1. IInv => NoEmptyDocument
  BY DEF IInv
<1> QED BY <1>1, Inductive, PTL

-----------------------------------------------------------------------------
(* Garbage collection.                                                     *)

\* A shell's step that changes the record changes the shell too.
LEMMA ShellDeletes ==
  ASSUME IInv, NEW s \in Sessions, SessionStep(s) \/ SessionFault(s),
         UNCHANGED sess
  PROVE  UNCHANGED record
<1>1. sess[s] \in Session /\ IdleSession.pc = "idle"
  BY SessionFields DEF IdleSession
<1>2. /\ EnterRetry(sess[s]).pc = "status"
      /\ StartWait(sess[s]).pc = "wait"
  BY <1>1 DEF EnterRetry, StartWait, Session
<1>3. ASSUME NEW x, sess' = [sess EXCEPT ![s] = x]
      PROVE  x = sess[s]
  BY <1>3 DEF IInv, TypeOK, CLITypeOK
<1>4. ~Save(s) /\ ~RefreshSave(s) /\ ~SettleSave(s) /\ ~Clear(s) /\ ~LostAnswer(s)
  <2>1. ~Save(s)
    BY <1>1, <1>2, <1>3 DEF Save, Return
  <2>2. ~RefreshSave(s)
    BY <1>1, <1>2, <1>3 DEF RefreshSave
  <2>3. ~SettleSave(s) /\ ~Clear(s) /\ ~LostAnswer(s)
    BY <1>1, <1>3 DEF SettleSave, Clear, LostAnswer, Return
  <2> QED BY <2>1, <2>2, <2>3
<1> QED
  BY <1>4 DEF SessionStep, SessionFault, LoadForWake, LoadForKeepAwake, LoadForSleepAt,
     Status, CallWake, WakeDone, CapacityShortage, Refresh, Retry, Settle,
     SleepStatus, CallSuspend, SuspendDone, WakeFailed, RefreshFails, Stop,
     worldVars, storeVars

\* A tick deletes only the document it read, and only when its spans had run out
\* by the tick's clock.
LEMMA CleanupDeletes ==
  ASSUME IInv, NEW t \in Ticks, Cleanup(t), record' # record
  PROVE  ~Live(record.sleep, clock) /\ ~Live(record.hold, clock)
<1>1. /\ Collectable(tick[t].doc, tick[t].now)
      /\ record.updateTime = tick[t].doc.updateTime
  BY DEF Cleanup, Precondition, storeVars
<1>2. tick[t].doc = record /\ tick[t].now <= clock
  BY <1>1 DEF IInv, SnapshotDated
<1>3. clock \in Nat /\ tick[t].now \in Nat
      /\ record.sleep \in OptionalSpan /\ record.hold \in OptionalSpan
  BY DEF IInv, TypeOK, WorldTypeOK, ReconcilerTypeOK, Tick, Record
<1>4. ASSUME NEW sp \in OptionalSpan, ~Keep(sp, tick[t].now)
      PROVE  ~Live(sp, clock)
  <2>1. sp.end \in Nat
    BY DEF OptionalSpan, Span, NoSpan
  <2> QED BY <1>2, <1>3, <1>4, <2>1 DEF Keep, Present, Live
<1> QED BY <1>1, <1>2, <1>3, <1>4 DEF Collectable

\* However late a tick's delete comes, and whatever any number of shells and other
\* ticks did since it read the document, it takes away no span that is still to run
\* out: the delete carries the update time of the document that was read, and no
\* two commits share one.
THEOREM CollectionSafe == Spec => CollectsOnlyExpired
<1> DEFINE A == record # NoRecord /\ record' = NoRecord /\ UNCHANGED sess
                  => ~Live(record.sleep, clock) /\ ~Live(record.hold, clock)
<1>1. IInv /\ [Next]_vars => [A]_vars
  <2> SUFFICES ASSUME IInv, Next, record' # record, UNCHANGED sess
               PROVE  ~Live(record.sleep, clock) /\ ~Live(record.hold, clock)
    BY DEF vars, worldVars, storeVars
  <2>1. ~(Advance \/ Emit \/ OrphanEnds)
    BY DEF Advance, Emit, ReportActivity, OrphanEnds, storeVars
  <2>2. ~(\E s \in Sessions : Command(s) \/ Proceed(s) \/ SessionFails(s))
    BY ShellDeletes DEF Command, Proceed, SessionFails, StartCommand, storeVars
  <2>3. PICK t \in Ticks : Reconcile(t) \/ TickFails(t)
    BY <2>1, <2>2 DEF Next
  <2>4. Cleanup(t)
    BY <2>3 DEF Reconcile, TickFails, TickStep, StartTick, GetInstance, ReadState,
                ReadActivity, SuspendVm, WaitVmOp, AbortTick, worldVars, storeVars
  <2> QED BY <2>4, CleanupDeletes
<1>2. []IInv /\ [][Next]_vars => [][A]_vars
  BY <1>1, PTL
<1> QED BY <1>2, Inductive, PTL DEF Spec, CollectsOnlyExpired

-----------------------------------------------------------------------------
(* The verdict of a tick.                                                  *)

\* What the document decides is what the engine decides before it looks at the
\* activity, and the rest is the rest.
LEMMA StagesAgree ==
  ASSUME NEW now \in Nat, NEW doc \in Record,
         NEW active \in Nat \cup {NoTime}, NEW started \in Nat \cup {NoTime}
  PROVE  LET engine == AutoSuspend(now, FromWire(doc.sleep), FromWire(doc.hold),
                                   now \in WorkingHours, active, started) IN
         /\ DecideOnState(now, doc) # "none" => DecideOnState(now, doc) = engine
         /\ DecideOnState(now, doc) = "none" =>
              DecideIdle(now, ActivityClamp(active, now), started) = engine
<1>1. doc.sleep \in OptionalSpan /\ doc.hold \in OptionalSpan
  BY DEF Record
<1>2. ASSUME NEW sp \in OptionalSpan, NEW want \in {"awake", "asleep"}
      PROVE  Active(FromWire(sp), now) /\ FromWire(sp).state = want
               <=> SpanState(sp, now) = want
  BY <1>2 DEF Active, FromWire, SpanState, OptionalSpan, Span, SpanStates, NoSpan
<1>3. /\ Active(FromWire(doc.sleep), now) /\ FromWire(doc.sleep).state = "asleep"
           <=> SpanState(doc.sleep, now) = "asleep"
      /\ Active(FromWire(doc.hold), now) /\ FromWire(doc.hold).state = "awake"
           <=> SpanState(doc.hold, now) = "awake"
  BY <1>1, <1>2
<1>4. Trusted(active, now) = ActivityClamp(active, now)
  BY DEF Trusted, FutureActivity, ActivityClamp
<1> HIDE DEF NoTime
<1> QED BY <1>3, <1>4 DEF AutoSuspend, DecideOnState, DecideIdle, Recent

\* What VerdictInv says of one tick.
Mirrored(y) ==
  /\ y.pc \in {"idle", "getInstance", "readState", "readActivity"} => y.action = "none"
  /\ y.pc = "readActivity" => DecideOnState(y.now, y.doc) = "none"
  /\ y.action # "none" =>
       y.action = AutoSuspend(y.now, FromWire(y.doc.sleep), FromWire(y.doc.hold),
                              y.now \in WorkingHours, y.lastActive, y.lastStart)

\* Each step of a tick keeps its verdict the engine's.
LEMMA TickMirrors ==
  ASSUME IInv, VerdictInv, NEW t \in Ticks, TickStep(t) \/ AbortTick(t)
  PROVE  VerdictInv'
<1> DEFINE y == tick[t]
<1>1. /\ tick \in [Ticks -> Tick]
      /\ y \in Tick /\ y.now \in Nat /\ y.doc \in Record
      /\ y.lastActive \in Nat \cup {NoTime} /\ y.lastStart \in Nat \cup {NoTime}
      /\ record \in Record /\ lastActive \in Nat \cup {NoTime}
  BY DEF IInv, TypeOK, WorldTypeOK, ReconcilerTypeOK, Tick
<1>2. \A u \in Ticks : Mirrored(tick[u])
  BY DEF VerdictInv, DecidedInOrder, MirrorsEngine, Mirrored
<1>3. ASSUME NEW z, tick' = [tick EXCEPT ![t] = z], Mirrored(z)
      PROVE  VerdictInv'
  <2>1. \A u \in Ticks : Mirrored(tick[u])'
    BY <1>1, <1>2, <1>3 DEF Mirrored
  <2> QED BY <2>1 DEF VerdictInv, DecidedInOrder, MirrorsEngine, Mirrored
<1>4. IdleTick.action = "none" /\ IdleTick.pc = "idle"
  BY DEF IdleTick
<1>5. Mirrored(IdleTick)
  BY <1>4 DEF Mirrored
<1>6. CASE StartTick(t)
  <2> DEFINE z == [IdleTick EXCEPT !.pc = "getInstance", !.now = clock,
                                   !.under = promise]
  <2>1. z.action = "none" /\ z.pc = "getInstance"
    BY DEF IdleTick
  <2>2. Mirrored(z)
    BY <2>1 DEF Mirrored
  <2> QED BY <1>3, <1>6, <2>2 DEF StartTick
<1>7. CASE GetInstance(t)
  <2> DEFINE z == [y EXCEPT !.pc = "readState", !.lastStart = lastStart]
  <2>1. z.action = y.action /\ z.pc = "readState"
    BY <1>1 DEF Tick
  <2>2. y.action = "none"
    BY <1>2, <1>7 DEF GetInstance, Mirrored
  <2>3. Mirrored(z)
    BY <2>1, <2>2 DEF Mirrored
  <2> QED BY <1>3, <1>5, <1>7, <2>3 DEF GetInstance
<1>8. CASE ReadState(t)
  <2> DEFINE action == DecideOnState(y.now, record)
             z == [y EXCEPT !.doc = record, !.action = action,
                            !.pc = IF action = "scheduled-sleep" THEN "suspendVm"
                                   ELSE IF action = "none"       THEN "readActivity"
                                   ELSE "cleanup"]
  <2>1. /\ z.action = action /\ z.now = y.now /\ z.doc = record
        /\ z.lastActive = y.lastActive /\ z.lastStart = y.lastStart
        /\ z.pc \in {"suspendVm", "readActivity", "cleanup"}
        /\ z.pc = "readActivity" => action = "none"
    BY <1>1 DEF Tick
  <2>2. ASSUME action # "none"
        PROVE  action = AutoSuspend(y.now, FromWire(record.sleep), FromWire(record.hold),
                                    y.now \in WorkingHours, y.lastActive, y.lastStart)
    <3>1. /\ y.now \in Nat /\ record \in Record
          /\ y.lastActive \in Nat \cup {NoTime} /\ y.lastStart \in Nat \cup {NoTime}
      BY <1>1
    <3> HIDE DEF y
    <3> QED
      BY <2>2, <3>1, StagesAgree
  <2>3. tick' = [tick EXCEPT ![t] = z]
    BY <1>8 DEF ReadState
  <2> HIDE DEF z
  <2>4. Mirrored(z)
    BY <2>1, <2>2 DEF Mirrored
  <2> QED BY <1>3, <2>3, <2>4
<1>9. CASE ReadActivity(t)
  <2> DEFINE action == DecideIdle(y.now, ActivityClamp(lastActive, y.now), y.lastStart)
             z == [y EXCEPT !.lastActive = lastActive, !.action = action,
                            !.pc = IF action \in SuspendReasons THEN "suspendVm"
                                   ELSE "cleanup"]
  <2>1. /\ z.action = action /\ z.now = y.now /\ z.doc = y.doc
        /\ z.lastActive = lastActive /\ z.lastStart = y.lastStart
        /\ z.pc \in {"suspendVm", "cleanup"}
    BY <1>1 DEF Tick
  <2>2. DecideOnState(y.now, y.doc) = "none"
    BY <1>2, <1>9 DEF ReadActivity, Mirrored
  <2>3. action = AutoSuspend(y.now, FromWire(y.doc.sleep), FromWire(y.doc.hold),
                             y.now \in WorkingHours, lastActive, y.lastStart)
    <3>1. /\ y.now \in Nat /\ y.doc \in Record
          /\ lastActive \in Nat \cup {NoTime} /\ y.lastStart \in Nat \cup {NoTime}
      BY <1>1
    <3> HIDE DEF y
    <3> QED
      BY <2>2, <3>1, StagesAgree
  <2>4. tick' = [tick EXCEPT ![t] = z]
    BY <1>9 DEF ReadActivity
  <2> HIDE DEF z
  <2>5. Mirrored(z)
    BY <2>1, <2>3 DEF Mirrored
  <2> QED BY <1>3, <2>4, <2>5
<1>10. CASE SuspendVm(t) \/ WaitVmOp(t)
  <2> DEFINE At(pc) == [y EXCEPT !.pc = pc]
  <2>1. ASSUME NEW pc \in {"waitVmOp", "cleanup"} PROVE Mirrored(At(pc))
    <3>1. /\ At(pc).pc = pc /\ At(pc).action = y.action /\ At(pc).now = y.now
          /\ At(pc).doc = y.doc /\ At(pc).lastActive = y.lastActive
          /\ At(pc).lastStart = y.lastStart
      BY <1>1 DEF Tick
    <3> HIDE DEF At
    <3> QED BY <1>2, <3>1 DEF Mirrored
  <2> QED BY <1>3, <1>5, <1>10, <2>1 DEF SuspendVm, WaitVmOp
<1>11. CASE Cleanup(t) \/ AbortTick(t)
  BY <1>3, <1>5, <1>11 DEF Cleanup, AbortTick
<1> QED BY <1>6, <1>7, <1>8, <1>9, <1>10, <1>11 DEF TickStep

\* The workflow and the Go engine decide alike in every behaviour, whatever the
\* document holds and whatever changes between the workflow's two reads.
THEOREM EngineMirrored == Spec => []MirrorsEngine
<1>1. Init => VerdictInv
  BY DEF Init, ReconcilerInit, IdleTick, VerdictInv, DecidedInOrder, MirrorsEngine
<1>2. IInv /\ VerdictInv /\ [Next]_vars => VerdictInv'
  <2> SUFFICES ASSUME IInv, VerdictInv, [Next]_vars PROVE VerdictInv'
    OBVIOUS
  <2>1. CASE UNCHANGED tick
    BY <2>1 DEF VerdictInv, DecidedInOrder, MirrorsEngine
  <2>2. ASSUME NEW t \in Ticks, TickStep(t) \/ AbortTick(t)
        PROVE  VerdictInv'
    BY <2>2, TickMirrors
  <2>3. UNCHANGED tick \/ \E t \in Ticks : TickStep(t) \/ AbortTick(t)
    BY DEF Next, vars, Advance, Emit, OrphanEnds, Command, Proceed, SessionFails,
           Reconcile, TickFails
  <2> QED BY <2>1, <2>2, <2>3
<1>3. VerdictInv => MirrorsEngine
  BY DEF VerdictInv
<1> QED BY <1>1, <1>2, <1>3, Inductive, PTL DEF Spec
=============================================================================
