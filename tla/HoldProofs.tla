----------------------------- MODULE HoldProofs -----------------------------
(***************************************************************************)
(* What ControlPlane promises of holds and scheduled sleeps, for every     *)
(* value of its constants: what the commands save, for any number of       *)
(* shells; that a reported hold is kept and honoured, for one shell and    *)
(* any number of ticks.                                                    *)
(***************************************************************************)
EXTENDS ControlPlaneProofs

-----------------------------------------------------------------------------
(* The invariants.                                                         *)

Saves == {"save", "refreshSave", "settleSave"}

SleepSteps == {"sleepStatus", "suspend", "suspending", "clear"}

\* The steps a command goes through.
Steps(cmd) ==
  CASE cmd = "none"                  -> {"idle"}
    [] cmd \in {"sleep", "cancel"}   -> SleepSteps
    [] cmd = "sleep-at"              -> {"load", "save"}
    [] cmd \in {"wake", "keep-awake"} -> SessionPCs \ (SleepSteps \cup {"idle"})

\* A command that calls off the sleep of the record it loaded, and says so.
CallsOff(x) ==
  \/ x.cmd = "sleep-at"
  \/ x.base.sleep.start <= x.now
  \/ x.cmd = "keep-awake" /\ x.base.sleep.start < x.now + x.d

\* The hold of the document to be written is one asked for or the one on record,
\* and no shorter than a live one on record.
HoldFits(x) ==
  /\ x.doc.hold.state = "awake" =>
       x.doc.hold \in {KeepAwakeHold(x.now, x.d), x.base.hold}
  /\ x.base.hold.state = "awake" /\ x.now < x.base.hold.end =>
       x.doc.hold.state = "awake" /\ x.doc.hold.end >= x.base.hold.end
  /\ x.pc # "save" /\ x.base.hold = NoSpan => x.doc.hold = NoSpan
  /\ x.pc = "refreshSave" => x.doc.hold # NoSpan
  /\ x.pc = "save" /\ x.cmd # "sleep-at" /\ x.d > 0 =>
       x.doc.hold.state = "awake" /\ x.doc.hold.end >= x.now + x.d

\* Its sleep is one asked for or the one on record, which is missing only if it was
\* called off; what a wake leaves is still to come.
SleepFits(x) ==
  /\ x.base.sleep.state = "asleep" /\ x.now < x.base.sleep.end =>
       x.doc.sleep = x.base.sleep \/ CallsOff(x)
  /\ x.doc.sleep.state = "asleep" /\ x.cmd # "sleep-at" =>
       x.doc.sleep = x.base.sleep
  /\ /\ x.doc.sleep.state = "asleep" /\ x.now < x.doc.sleep.end
     /\ x.cmd # "sleep-at" /\ x.pc # "refreshSave"
     => x.now < x.doc.sleep.start
  /\ x.pc = "refreshSave" => x.doc.sleep = FromWire(x.base.sleep)

\* What is true of the locals of a command, whoever else is at work.
Fits(x) ==
  /\ x.pc \in Steps(x.cmd)
  /\ x.cmd = "keep-awake" => x.d > 0
  /\ x.pc \in Saves => HoldFits(x) /\ SleepFits(x)

\* A hold on record, or in a command's copy of it, has begun.
Begun(sp) == sp.state = "awake" => sp.start <= clock

\* The invariant for any number of shells.
InOrder(x) == Fits(x) /\ x.now <= clock /\ Begun(x.base.hold)

CommandInv == Begun(record.hold) /\ \A s \in Sessions : InOrder(sess[s])

\* Of one shell only: the record is still the one the command loaded, unless a tick
\* has collected it.
Current(x) ==
  x.pc \in Saves =>
    \/ x.base = record
    \/ record = NoRecord /\ ~Live(x.base.sleep, clock) /\ ~Live(x.base.hold, clock)

\* The steps around compute.Wake.
Waking == {"status", "resume", "start", "resuming", "starting",
           "refresh", "refreshSave", "wait"}

\* What a command has taken back stays so until it ends, and what it has promised
\* it has promised before it wakes the VM.
PromiseFits(x) ==
  /\ x.cmd \in {"sleep", "cancel"} => promise.until = 0
  /\ x.cmd \in {"sleep", "cancel", "sleep-at"} => promise.since = NoTime
  /\ x.pc \in Waking /\ ~x.waited /\ x.d > 0 => promise.until >= x.now + x.d

\* A sleep on record that is still to end begins after the last one called off.
SleepsLater ==
  record.sleep.state = "asleep" /\ clock < record.sleep.end =>
    promise.since < record.sleep.start

SamePromise(y) == y.under.epoch = promise.epoch

\* A sleep that is not one the promise of the tick y called off.
After(sp, y) ==
  sp.state = "asleep" /\ Active(sp, y.now) => y.under.since < sp.start

\* A promise grows until it is taken back, and a tick under it meets no sleep that
\* it called off, on record or about to be; a hold that does not stop it has, to the
\* tick, not begun.
TickInOrder(y) ==
  /\ y.under.epoch <= promise.epoch
  /\ SamePromise(y) => /\ y.under.until <= promise.until
                       /\ y.under.since <= promise.since
  /\ SamePromise(y) /\ y.pc \in {"getInstance", "readState"} =>
       /\ After(record.sleep, y)
       /\ \A s \in Sessions : sess[s].pc \in Saves => After(sess[s].base.sleep, y)
  /\ SamePromise(y) /\ y.pc = "readActivity" /\ clock < y.under.until =>
       y.now < y.doc.hold.start
  /\ SamePromise(y) /\ y.pc = "suspendVm" /\ clock < y.under.until =>
       \/ y.action = "scheduled-sleep" /\ y.under.since < y.doc.sleep.start
       \/ y.now < y.doc.hold.start

\* The invariant for one shell and any number of ticks.
PromiseInv ==
  /\ promise.epoch <= issued
  /\ \A s \in Sessions : Current(sess[s]) /\ PromiseFits(sess[s])
  /\ HoldKept
  /\ SleepsLater
  /\ \A t \in Ticks : TickInOrder(tick[t])

-----------------------------------------------------------------------------
(* What the commands save.                                                 *)

\* No span has the state none and no instants to speak of.
LEMMA SpanFields ==
  ASSUME NEW sp \in OptionalSpan
  PROVE  /\ sp.start \in Nat /\ sp.end \in Nat
         /\ sp.state \in {"awake", "asleep"} => sp \in Span /\ sp # NoSpan
         /\ NoSpan.state = "none"
BY DEF OptionalSpan, Span, SpanStates, NoSpan

\* What is left of the spans of a record when it is loaded and pruned.
LEMMA LoadedSpans ==
  ASSUME NEW r \in Record, NEW now \in Nat
  PROVE  LET raw == Load(r)
             active == ActiveDoc(raw, now) IN
         /\ raw.hold \in {r.hold, NoSpan} /\ raw.sleep \in {r.sleep, NoSpan}
         /\ raw.sleep = FromWire(r.sleep)
         /\ r.hold.state = "awake" => raw.hold = r.hold
         /\ r.sleep.state = "asleep" => raw.sleep = r.sleep
         /\ active.hold = NoSpan \/ /\ active.hold = r.hold /\ r.hold.state = "awake"
                                    /\ now < r.hold.end
         /\ active.sleep = NoSpan \/ /\ active.sleep = r.sleep
                                     /\ r.sleep.state = "asleep" /\ now < r.sleep.end
         /\ r.hold.state = "awake" /\ now < r.hold.end => active.hold = r.hold
         /\ r.sleep.state = "asleep" /\ now < r.sleep.end => active.sleep = r.sleep
<1>1. r.hold \in OptionalSpan /\ r.sleep \in OptionalSpan
  BY DEF Record
<1>2. /\ Load(r).hold = FromWire(r.hold) /\ Load(r).sleep = FromWire(r.sleep)
      /\ ActiveDoc(Load(r), now).hold = ActiveSpan(FromWire(r.hold), now, "awake")
      /\ ActiveDoc(Load(r), now).sleep = ActiveSpan(FromWire(r.sleep), now, "asleep")
  BY DEF Load, ActiveDoc
<1>3. ASSUME NEW sp \in OptionalSpan, NEW want \in {"awake", "asleep"}
      PROVE  /\ FromWire(sp) \in {sp, NoSpan}
             /\ sp.state = want => FromWire(sp) = sp
             /\ \/ ActiveSpan(FromWire(sp), now, want) = NoSpan
                \/ /\ ActiveSpan(FromWire(sp), now, want) = sp
                   /\ sp.state = want /\ now < sp.end
             /\ sp.state = want /\ now < sp.end =>
                  ActiveSpan(FromWire(sp), now, want) = sp
  BY <1>3, SpanFields DEF FromWire, ActiveSpan, Expired
<1> QED BY <1>1, <1>2, <1>3

\* What wake saves.
LEMMA WakeFits ==
  ASSUME NEW x \in Session, x.pc = "save", x.cmd = "wake",
         x.doc = WakeDoc(ActiveDoc(Load(x.base), x.now), x.now, x.d)
  PROVE  HoldFits(x) /\ SleepFits(x)
<1> DEFINE doc == ActiveDoc(Load(x.base), x.now)
           asked == KeepAwakeHold(x.now, x.d)
<1>1. /\ x.now \in Nat /\ x.d \in Nat /\ x.base \in Record
      /\ x.base.hold \in OptionalSpan /\ x.base.sleep \in OptionalSpan
  BY DEF Session, Record
<1>2. /\ asked.start = x.now /\ asked.end = x.now + x.d /\ asked.state = "awake"
  BY DEF KeepAwakeHold
<1>3. /\ x.doc.hold = IF x.d > 0 THEN LongerAwakeHold(doc, asked) ELSE doc.hold
      /\ x.doc.sleep = IF Active(doc.sleep, x.now) THEN NoSpan ELSE doc.sleep
  BY DEF WakeDoc
<1>4. /\ doc.hold = NoSpan \/ /\ doc.hold = x.base.hold
                              /\ x.base.hold.state = "awake"
      /\ doc.sleep = NoSpan \/ /\ doc.sleep = x.base.sleep
                               /\ x.base.sleep.state = "asleep"
                               /\ x.now < x.base.sleep.end
      /\ x.base.hold.state = "awake" /\ x.now < x.base.hold.end =>
           doc.hold = x.base.hold
      /\ x.base.sleep.state = "asleep" /\ x.now < x.base.sleep.end =>
           doc.sleep = x.base.sleep
  BY <1>1, LoadedSpans
<1> HIDE DEF doc, asked
<1>5. HoldFits(x)
  <2>1. x.base.hold.end \in Nat /\ NoSpan.state = "none"
    BY <1>1, SpanFields
  <2> QED BY <1>1, <1>2, <1>3, <1>4, <2>1 DEF HoldFits, LongerAwakeHold, asked
<1>6. SleepFits(x)
  <2>1. /\ x.base.sleep.start \in Nat /\ x.base.sleep.end \in Nat
        /\ NoSpan.state = "none"
    BY <1>1, SpanFields
  <2> QED BY <1>1, <1>3, <1>4, <2>1 DEF SleepFits, CallsOff, Active
<1> QED BY <1>5, <1>6

\* What keep-awake saves.
LEMMA KeepAwakeFits ==
  ASSUME NEW x \in Session, x.pc = "save", x.cmd = "keep-awake", x.d > 0,
         x.doc = KeepAwakeDoc(ActiveDoc(Load(x.base), x.now), x.now, x.d)
  PROVE  HoldFits(x) /\ SleepFits(x)
<1> DEFINE doc == ActiveDoc(Load(x.base), x.now)
           asked == KeepAwakeHold(x.now, x.d)
<1>1. /\ x.now \in Nat /\ x.d \in Nat /\ x.base \in Record
      /\ x.base.hold \in OptionalSpan /\ x.base.sleep \in OptionalSpan
  BY DEF Session, Record
<1>2. /\ asked.start = x.now /\ asked.end = x.now + x.d /\ asked.state = "awake"
  BY DEF KeepAwakeHold
<1>3. /\ x.doc.hold = LongerAwakeHold(doc, asked)
      /\ x.doc.sleep = IF doc.sleep # NoSpan /\ asked.end > doc.sleep.start
                         THEN NoSpan ELSE doc.sleep
  BY DEF KeepAwakeDoc
<1>4. /\ doc.hold = NoSpan \/ /\ doc.hold = x.base.hold
                              /\ x.base.hold.state = "awake"
      /\ doc.sleep = NoSpan \/ /\ doc.sleep = x.base.sleep
                               /\ x.base.sleep.state = "asleep"
                               /\ x.now < x.base.sleep.end
      /\ x.base.hold.state = "awake" /\ x.now < x.base.hold.end =>
           doc.hold = x.base.hold
      /\ x.base.sleep.state = "asleep" /\ x.now < x.base.sleep.end =>
           doc.sleep = x.base.sleep
  BY <1>1, LoadedSpans
<1> HIDE DEF doc, asked
<1>5. HoldFits(x)
  <2>1. x.base.hold.end \in Nat /\ NoSpan.state = "none"
    BY <1>1, SpanFields
  <2> QED BY <1>1, <1>2, <1>3, <1>4, <2>1 DEF HoldFits, LongerAwakeHold, asked
<1>6. SleepFits(x)
  <2>1. /\ x.base.sleep.start \in Nat /\ x.base.sleep.end \in Nat
        /\ NoSpan.state = "none"
    BY <1>1, SpanFields
  <2> QED BY <1>1, <1>2, <1>3, <1>4, <2>1 DEF SleepFits, CallsOff
<1> QED BY <1>5, <1>6

\* What sleep-at saves.
LEMMA SleepAtFits ==
  ASSUME NEW x \in Session, x.pc = "save", x.cmd = "sleep-at",
         x.doc.hold = ActiveDoc(Load(x.base), x.now).hold
  PROVE  HoldFits(x) /\ SleepFits(x)
<1>1. x.now \in Nat /\ x.base \in Record /\ x.base.hold \in OptionalSpan
  BY DEF Session, Record
<1>2. /\ x.doc.hold = NoSpan \/ x.doc.hold = x.base.hold
      /\ x.base.hold.state = "awake" /\ x.now < x.base.hold.end =>
           x.doc.hold = x.base.hold
  BY <1>1, LoadedSpans
<1>3. x.base.hold.end \in Nat /\ NoSpan.state = "none"
  BY <1>1, SpanFields
<1> QED BY <1>1, <1>2, <1>3 DEF HoldFits, SleepFits, CallsOff

\* A hold that is set afresh is no shorter than the live one it replaces.
LEMMA FreshHold ==
  ASSUME NEW r \in Record, NEW now \in Nat, NEW d \in Nat,
         FreshHoldApplies(Load(r), ActiveDoc(Load(r), now), now, d)
  PROVE  /\ r.hold # NoSpan
         /\ r.hold.state = "awake" /\ now < r.hold.end => now + d >= r.hold.end
<1>1. /\ Load(r).hold \in {r.hold, NoSpan}
      /\ r.hold.state = "awake" /\ now < r.hold.end =>
           ActiveDoc(Load(r), now).hold = r.hold
  BY LoadedSpans
<1>2. r.hold \in OptionalSpan
  BY DEF Record
<1>3. r.hold.end \in Nat /\ NoSpan.state = "none"
  BY <1>2, SpanFields
<1> QED BY <1>1, <1>3 DEF FreshHoldApplies

\* What a silent refresh saves.
LEMMA RefreshFits ==
  ASSUME NEW x \in Session, x.pc = "refreshSave",
         FreshHoldApplies(Load(x.base), ActiveDoc(Load(x.base), x.now), x.now, x.d),
         x.doc = Set(Load(x.base), "hold", KeepAwakeHold(x.now, x.d))
  PROVE  HoldFits(x) /\ SleepFits(x)
<1> DEFINE asked == KeepAwakeHold(x.now, x.d)
<1>1. /\ x.now \in Nat /\ x.d \in Nat /\ x.base \in Record
      /\ x.base.hold \in OptionalSpan /\ x.base.sleep \in OptionalSpan
  BY DEF Session, Record
<1>2. /\ asked.start = x.now /\ asked.end = x.now + x.d /\ asked.state = "awake"
  BY DEF KeepAwakeHold
<1>3. x.doc.hold = asked /\ x.doc.sleep = Load(x.base).sleep
  BY DEF Set, Load
<1>4. /\ Load(x.base).sleep \in {x.base.sleep, NoSpan}
      /\ Load(x.base).sleep = FromWire(x.base.sleep)
      /\ x.base.sleep.state = "asleep" => Load(x.base).sleep = x.base.sleep
  BY <1>1, LoadedSpans
<1>5. /\ x.base.hold # NoSpan
      /\ x.base.hold.state = "awake" /\ x.now < x.base.hold.end =>
           x.now + x.d >= x.base.hold.end
  BY <1>1, FreshHold
<1>6. NoSpan.state = "none"
  BY <1>1, SpanFields
<1> HIDE DEF asked
<1>7. HoldFits(x)
  BY <1>2, <1>3, <1>5, <1>6 DEF HoldFits, asked
<1>8. SleepFits(x)
  BY <1>3, <1>4, <1>6 DEF SleepFits
<1> QED BY <1>7, <1>8

\* What is saved after a wait.
LEMMA SettleFits ==
  ASSUME NEW x \in Session, x.pc = "settleSave",
         x.doc = SettledDoc(Load(x.base), x)
  PROVE  HoldFits(x) /\ SleepFits(x)
<1> DEFINE asked == KeepAwakeHold(x.now, x.d)
           raw == Load(x.base)
           active == ActiveDoc(raw, x.now)
<1>1. /\ x.now \in Nat /\ x.d \in Nat /\ x.base \in Record
      /\ x.base.hold \in OptionalSpan /\ x.base.sleep \in OptionalSpan
  BY DEF Session, Record
<1>2. /\ asked.start = x.now /\ asked.end = x.now + x.d /\ asked.state = "awake"
  BY DEF KeepAwakeHold
<1>3. /\ x.doc.hold = IF FreshHoldApplies(raw, active, x.now, x.d) THEN asked
                                                                   ELSE raw.hold
      /\ x.doc.sleep = IF CancelsSleep(active, x) THEN NoSpan ELSE raw.sleep
  BY DEF SettledDoc
<1>4. /\ raw.hold \in {x.base.hold, NoSpan} /\ raw.sleep \in {x.base.sleep, NoSpan}
      /\ x.base.hold.state = "awake" => raw.hold = x.base.hold
      /\ x.base.sleep.state = "asleep" => raw.sleep = x.base.sleep
      /\ active.sleep = NoSpan \/ active.sleep = x.base.sleep
      /\ x.base.sleep.state = "asleep" /\ x.now < x.base.sleep.end =>
           active.sleep = x.base.sleep
  BY <1>1, LoadedSpans
<1>5. FreshHoldApplies(raw, active, x.now, x.d) =>
        /\ x.base.hold # NoSpan
        /\ x.base.hold.state = "awake" /\ x.now < x.base.hold.end =>
             x.now + x.d >= x.base.hold.end
  BY <1>1, FreshHold
<1>6. /\ x.base.sleep.start \in Nat /\ x.base.sleep.end \in Nat
      /\ x.base.hold.end \in Nat /\ NoSpan.state = "none"
  BY <1>1, SpanFields
<1> HIDE DEF asked, raw, active
<1>7. HoldFits(x)
  BY <1>1, <1>2, <1>3, <1>4, <1>5, <1>6 DEF HoldFits, asked
<1>8. SleepFits(x)
  BY <1>1, <1>3, <1>4, <1>6 DEF SleepFits, CallsOff, CancelsSleep, Active
<1> QED BY <1>7, <1>8

-----------------------------------------------------------------------------
(* The steps of a shell, for any number of shells.                         *)

\* A command at one of these steps is one that has it.
LEMMA StepOwner ==
  ASSUME NEW x \in Session, Fits(x)
  PROVE  /\ x.pc = "idle" <=> x.cmd = "none"
         /\ x.pc \in SleepSteps <=> x.cmd \in {"sleep", "cancel"}
         /\ x.pc \notin SleepSteps \cup {"idle", "load", "save"} =>
              x.cmd \in {"wake", "keep-awake"}
         /\ x.pc \in {"load", "save"} =>
              x.cmd \in {"wake", "keep-awake", "sleep-at"}
<1>1. x.pc \in Steps(x.cmd) /\ x.cmd \in AllCommands \cup {"none"}
  BY DEF Fits, Session
<1> QED BY <1>1 DEF Steps, SleepSteps, AllCommands

\* An idle shell is in order.
LEMMA IdleInOrder ==
  ASSUME IInv
  PROVE  IdleSession \in Session /\ InOrder(IdleSession)
<1>1. clock \in Nat
  BY DEF IInv, TypeOK, WorldTypeOK
<1>2. /\ IdleSession.pc = "idle" /\ IdleSession.cmd = "none" /\ IdleSession.now = 0
      /\ IdleSession.base.hold.state = "none"
  BY DEF IdleSession, NoRecord, NoSpan
<1>3. IdleSession.pc \in Steps(IdleSession.cmd)
  BY <1>2 DEF Steps
<1> QED BY <1>1, <1>2, <1>3, IdleSessionTypes DEF InOrder, Fits, Begun, Saves

\* A shell that goes from one step of its command to another, neither of which is a
\* save, stays in order; its clock reading may be renewed.
LEMMA MoveInOrder ==
  ASSUME IInv, NEW x \in Session, InOrder(x), NEW y \in Session,
         y.cmd = x.cmd, y.d = x.d, y.now \in {x.now, clock},
         y.base \in {x.base, NoRecord},
         y.pc \in Steps(x.cmd), y.pc \notin Saves
  PROVE  InOrder(y)
<1>1. clock \in Nat /\ NoRecord.hold.state = "none"
  BY DEF IInv, TypeOK, WorldTypeOK, NoRecord, NoSpan
<1> QED BY <1>1 DEF InOrder, Fits, Begun

\* A command begins in order.
LEMMA StartInOrder ==
  ASSUME IInv, NEW s \in Sessions, StartCommand(s)
  PROVE  \E x \in Session : sess' = [sess EXCEPT ![s] = x] /\ InOrder(x)
<1>0. PICK cmd \in Commands :
        \E d \in HoldDurations(cmd), span \in SleepSpans(cmd) :
          sess' = [sess EXCEPT ![s] =
            [IdleSession EXCEPT !.pc = FirstStep(cmd), !.cmd = cmd,
                                !.now = clock, !.d = d, !.span = span]]
  BY DEF StartCommand
<1>1. PICK d \in HoldDurations(cmd), span \in SleepSpans(cmd) :
        sess' = [sess EXCEPT ![s] =
          [IdleSession EXCEPT !.pc = FirstStep(cmd), !.cmd = cmd,
                              !.now = clock, !.d = d, !.span = span]]
  BY <1>0
<1> DEFINE x == [IdleSession EXCEPT !.pc = FirstStep(cmd), !.cmd = cmd,
                                    !.now = clock, !.d = d, !.span = span]
<1>2. x \in Session
  BY ArgumentTypes, IdleSessionTypes, SessionFields, CLIAssumption
  DEF Session, SessionPCs, AllCommands
<1>3. /\ x.pc = FirstStep(cmd) /\ x.cmd = cmd /\ x.now = clock /\ x.d = d
      /\ x.base.hold.state = "none"
  BY DEF IdleSession, NoRecord, NoSpan
<1>4. cmd \in AllCommands /\ clock \in Nat
  BY CLIAssumption DEF IInv, TypeOK, WorldTypeOK
<1>5. FirstStep(cmd) \in Steps(cmd) /\ FirstStep(cmd) \notin Saves
  BY <1>4 DEF FirstStep, Steps, AllCommands, SleepSteps, SessionPCs, Saves
<1>6. cmd = "keep-awake" => d > 0
  BY <1>1, CLIAssumption DEF HoldDurations
<1> HIDE DEF x
<1>7. InOrder(x)
  BY <1>3, <1>4, <1>5, <1>6 DEF InOrder, Fits, Begun
<1> QED BY <1>1, <1>2, <1>7 DEF x

\* A shell that has composed what it is to save is in order.
LEMMA ComposedInOrder ==
  ASSUME IInv, CommandInv, NEW x \in Session, InOrder(x), NEW y \in Session,
         y.cmd = x.cmd, y.d = x.d, y.now = x.now, y.base = record,
         y.pc \in Steps(x.cmd), HoldFits(y), SleepFits(y)
  PROVE  InOrder(y)
BY DEF InOrder, Fits, CommandInv

\* The loads.
LEMMA LoadInOrder ==
  ASSUME IInv, CommandInv, NEW s \in Sessions,
         LoadForWake(s) \/ LoadForKeepAwake(s) \/ LoadForSleepAt(s)
  PROVE  \E x \in Session : sess' = [sess EXCEPT ![s] = x] /\ InOrder(x)
<1> DEFINE x == sess[s]
           doc == ActiveDoc(Load(record), x.now)
<1>1. /\ x \in Session /\ x.now \in Nat /\ x.d \in Nat /\ record \in Record
      /\ InOrder(x) /\ x.pc = "load"
  BY SessionFields DEF CommandInv, LoadForWake, LoadForKeepAwake, LoadForSleepAt
<1>2. doc \in Document /\ Loaded(s) = doc
  BY <1>1, LoadTypes DEF Loaded
<1>3. /\ x.cmd = "keep-awake" => x.d > 0
      /\ x.cmd \in {"wake", "keep-awake"} => {"save", "status"} \subseteq Steps(x.cmd)
      /\ x.cmd = "sleep-at" => "save" \in Steps(x.cmd)
  BY <1>1 DEF InOrder, Fits, Steps, SessionPCs, SleepSteps
<1> HIDE DEF doc
<1>4. CASE LoadForWake(s)
  <2> DEFINE z == [x EXCEPT !.doc = WakeDoc(doc, x.now, x.d)]
  <2>1. /\ z \in Session /\ z.cmd = x.cmd /\ z.now = x.now /\ z.d = x.d
        /\ z.base = x.base /\ z.doc = WakeDoc(doc, x.now, x.d)
    BY <1>1, <1>2, CommandDocTypes DEF Session
  <2>2. CASE WakeChanges(doc, x.now, x.d)
    <3> DEFINE y == [z EXCEPT !.pc = "save", !.base = record]
    <3>1. sess' = [sess EXCEPT ![s] = y]
      BY <1>2, <1>4, <2>2 DEF LoadForWake
    <3> HIDE DEF z
    <3>2. /\ y \in Session /\ y.pc = "save" /\ y.cmd = x.cmd /\ y.now = x.now
          /\ y.d = x.d /\ y.base = record /\ y.doc = z.doc
      BY <1>1, <2>1 DEF Session, SessionPCs
    <3> HIDE DEF y
    <3>3. HoldFits(y) /\ SleepFits(y)
      BY <1>4, <2>1, <3>2, WakeFits DEF LoadForWake, doc
    <3> QED BY <1>1, <1>3, <1>4, <3>1, <3>2, <3>3, ComposedInOrder DEF LoadForWake
  <2>3. CASE ~WakeChanges(doc, x.now, x.d)
    <3>1. sess' = [sess EXCEPT ![s] = EnterRetry(z)]
      BY <1>2, <1>4, <2>3 DEF LoadForWake
    <3> HIDE DEF z
    <3>2. EnterRetry(z) \in Session
      BY <2>1, RetryTypes
    <3>3. /\ EnterRetry(z).pc = "status" /\ EnterRetry(z).cmd = x.cmd
          /\ EnterRetry(z).now = x.now /\ EnterRetry(z).d = x.d
          /\ EnterRetry(z).base = NoRecord
      BY <2>1 DEF EnterRetry, Session
    <3> QED BY <1>1, <1>3, <1>4, <3>1, <3>2, <3>3, MoveInOrder DEF LoadForWake, Saves
  <2> QED BY <2>2, <2>3
<1>5. CASE LoadForKeepAwake(s)
  <2> DEFINE y == [x EXCEPT !.pc = "save", !.base = record,
                            !.doc = KeepAwakeDoc(doc, x.now, x.d)]
  <2>1. /\ y \in Session /\ y.pc = "save" /\ y.cmd = x.cmd /\ y.now = x.now
        /\ y.d = x.d /\ y.base = record /\ y.doc = KeepAwakeDoc(doc, x.now, x.d)
    BY <1>1, <1>2, CommandDocTypes DEF Session, SessionPCs
  <2>2. sess' = [sess EXCEPT ![s] = y]
    BY <1>2, <1>5 DEF LoadForKeepAwake
  <2> HIDE DEF y
  <2>3. HoldFits(y) /\ SleepFits(y)
    BY <1>3, <1>5, <2>1, KeepAwakeFits DEF LoadForKeepAwake, doc
  <2> QED BY <1>1, <1>3, <1>5, <2>1, <2>2, <2>3, ComposedInOrder DEF LoadForKeepAwake
<1>6. CASE LoadForSleepAt(s)
  <2> DEFINE y == [x EXCEPT !.pc = "save", !.base = record, !.span = NoSpan,
                            !.doc = Set(doc, "sleep", x.span)]
  <2>1. x.span \in Span
    BY <1>6 DEF LoadForSleepAt, IInv, ShellsWellFormed, WellFormed
  <2>2. Set(doc, "sleep", x.span) \in Document
    BY <1>1, <1>2, <2>1, CommandDocTypes
  <2>3. Set(doc, "sleep", x.span).hold = doc.hold
    BY <1>2 DEF Set, Document
  <2>4. /\ y \in Session /\ y.pc = "save" /\ y.cmd = x.cmd /\ y.now = x.now
        /\ y.d = x.d /\ y.base = record /\ y.doc.hold = doc.hold
    BY <1>1, <2>2, <2>3 DEF Session, SessionPCs, OptionalSpan
  <2>5. sess' = [sess EXCEPT ![s] = y]
    BY <1>2, <1>6 DEF LoadForSleepAt
  <2> HIDE DEF y
  <2>6. HoldFits(y) /\ SleepFits(y)
    BY <1>6, <2>4, SleepAtFits DEF LoadForSleepAt, doc
  <2> QED BY <1>1, <1>3, <1>6, <2>4, <2>5, <2>6, ComposedInOrder DEF LoadForSleepAt
<1> QED BY <1>4, <1>5, <1>6

\* The records wakeWithRetry goes on with.
LEMMA RetryMoves ==
  ASSUME IInv, NEW x \in Session, InOrder(x), x.cmd \in {"wake", "keep-awake"}
  PROVE  /\ InOrder(EnterRetry(x))
         /\ InOrder(Awake(x))
         /\ x.now < x.deadline => InOrder(StartWait(x))
         /\ \A pc \in SessionPCs \ (SleepSteps \cup Saves \cup {"idle"}) :
              InOrder([x EXCEPT !.pc = pc])
<1>2. Steps(x.cmd) = SessionPCs \ (SleepSteps \cup {"idle"})
  BY DEF Steps
<1>3. {"status", "wait", "settle"} \subseteq SessionPCs \ (SleepSteps \cup Saves \cup {"idle"})
  BY DEF SessionPCs, SleepSteps, Saves
<1>4. InOrder(EnterRetry(x))
  <2>1. EnterRetry(x) \in Session
    BY RetryTypes
  <2>2. /\ EnterRetry(x).pc = "status" /\ EnterRetry(x).cmd = x.cmd
        /\ EnterRetry(x).now = x.now /\ EnterRetry(x).d = x.d
        /\ EnterRetry(x).base = NoRecord
    BY DEF EnterRetry, Session
  <2> QED BY <1>2, <1>3, <2>1, <2>2, MoveInOrder
<1>5. InOrder(Awake(x))
  <2>1. CASE x.waited
    <3>1. Awake(x) = [x EXCEPT !.pc = "settle", !.now = clock]
      BY <2>1 DEF Awake
    <3>2. Awake(x) \in Session
      BY RetryTypes
    <3>3. /\ Awake(x).pc = "settle" /\ Awake(x).cmd = x.cmd
          /\ Awake(x).now = clock /\ Awake(x).d = x.d
          /\ Awake(x).base = x.base
      BY <3>1 DEF Session
    <3> QED BY <1>2, <1>3, <3>2, <3>3, MoveInOrder
  <2>2. CASE ~x.waited
    BY <2>2, IdleInOrder DEF Awake
  <2> QED BY <2>1, <2>2
<1>6. ASSUME x.now < x.deadline PROVE InOrder(StartWait(x))
  <2>1. StartWait(x) \in Session
    BY <1>6, RetryTypes
  <2>2. /\ StartWait(x).pc = "wait" /\ StartWait(x).cmd = x.cmd
        /\ StartWait(x).now = x.now /\ StartWait(x).d = x.d
        /\ StartWait(x).base = NoRecord
    BY DEF StartWait, Session
  <2> QED BY <1>2, <1>3, <2>1, <2>2, MoveInOrder
<1>7. ASSUME NEW pc \in SessionPCs \ (SleepSteps \cup Saves \cup {"idle"})
      PROVE  InOrder([x EXCEPT !.pc = pc])
  <2> DEFINE y == [x EXCEPT !.pc = pc]
  <2>1. /\ y \in Session /\ y.pc = pc /\ y.cmd = x.cmd /\ y.now = x.now
        /\ y.d = x.d /\ y.base = x.base
    BY DEF Session
  <2> HIDE DEF y
  <2>2. InOrder(y)
    BY <1>2, <2>1, MoveInOrder
  <2> QED BY <2>2 DEF y
<1> QED BY <1>4, <1>5, <1>6, <1>7

\* The steps of a wake after its first save, but for the loads in it.
LEMMA WakeInOrder ==
  ASSUME IInv, CommandInv, NEW s \in Sessions,
         \/ Save(s) \/ Status(s) \/ CallWake(s) \/ WakeDone(s) \/ WakeFailed(s)
         \/ RefreshSave(s) \/ RefreshFails(s) \/ Retry(s) \/ SettleSave(s)
  PROVE  \E x \in Session : sess' = [sess EXCEPT ![s] = x] /\ InOrder(x)
<1> DEFINE x == sess[s]
           At(pc) == [x EXCEPT !.pc = pc]
           Targets == {"resume", "start", "resuming", "starting", "status"}
<1>1. x \in Session /\ InOrder(x) /\ InOrder(IdleSession) /\ IdleSession \in Session
  BY SessionFields, IdleInOrder DEF CommandInv
<1>2. /\ EnterRetry(x) \in Session /\ Awake(x) \in Session
      /\ x.now < x.deadline => StartWait(x) \in Session
      /\ \A pc \in Targets : At(pc) \in Session
      /\ x.pc \in {"refresh", "refreshSave"} => x.now < x.deadline
  <2>1. \A pc \in Targets : pc \in SessionPCs \ {"load", "save", "refresh", "refreshSave"}
    BY DEF SessionPCs
  <2>2. x.pc \in {"refresh", "refreshSave"} => x.now < x.deadline
    BY DEF IInv, ShellsWellFormed, WellFormed
  <2> QED BY <1>1, <2>1, <2>2, RetryTypes, GotoTypes
<1>3. Targets \subseteq SessionPCs \ (SleepSteps \cup Saves \cup {"idle"})
  BY DEF SessionPCs, SleepSteps, Saves
<1>4. CASE Save(s)
  <2>1. CASE x.cmd = "sleep-at"
    BY <1>1, <1>4, <2>1 DEF Save, Return
  <2>2. CASE x.cmd # "sleep-at"
    <3>1. sess' = [sess EXCEPT ![s] = EnterRetry(x)] /\ x.pc = "save"
      BY <1>4, <2>2 DEF Save
    <3>2. x.cmd \in {"wake", "keep-awake"}
      BY <1>1, <2>2, <3>1, StepOwner DEF InOrder
    <3>3. InOrder(EnterRetry(x))
      BY <1>1, <3>2, RetryMoves
    <3> QED BY <1>2, <3>1, <3>3
  <2> QED BY <2>1, <2>2
<1>5. CASE Status(s) \/ CallWake(s) \/ WakeDone(s) \/ WakeFailed(s) \/ Retry(s)
  <2>1. x.pc \in {"status", "resume", "start", "resuming", "starting", "wait"}
    BY <1>5 DEF Status, CallWake, WakeDone, WakeFailed, Retry
  <2>0. x.cmd \in {"wake", "keep-awake"}
    BY <1>1, <2>1, StepOwner DEF InOrder, SleepSteps
  <2>2. InOrder(Awake(x)) /\ \A pc \in Targets : InOrder(At(pc))
    BY <1>1, <1>3, <2>0, RetryMoves
  <2>3. PICK y \in {IdleSession, Awake(x)} \cup {At(pc) : pc \in Targets} :
          sess' = [sess EXCEPT ![s] = y]
    BY <1>5 DEF Status, CallWake, WakeDone, WakeFailed, Retry, Goto, Return, WaitingFor
  <2> QED BY <1>1, <1>2, <2>2, <2>3
<1>6. CASE RefreshSave(s) \/ RefreshFails(s)
  <2>1. x.pc \in {"refresh", "refreshSave"} /\ sess' = [sess EXCEPT ![s] = StartWait(x)]
    BY <1>6 DEF RefreshSave, RefreshFails
  <2>0. x.cmd \in {"wake", "keep-awake"}
    BY <1>1, <2>1, StepOwner DEF InOrder, SleepSteps
  <2>2. InOrder(StartWait(x))
    BY <1>1, <1>2, <2>0, <2>1, RetryMoves
  <2> QED BY <1>2, <2>1, <2>2
<1>7. CASE SettleSave(s)
  BY <1>1, <1>7 DEF SettleSave, Return
<1> QED BY <1>4, <1>5, <1>6, <1>7

\* The loads of a wait for capacity, and its beginning.
LEMMA TopUpInOrder ==
  ASSUME IInv, CommandInv, NEW s \in Sessions,
         CapacityShortage(s) \/ Refresh(s) \/ Settle(s)
  PROVE  \E x \in Session : sess' = [sess EXCEPT ![s] = x] /\ InOrder(x)
<1> DEFINE x == sess[s]
           raw == Load(record)
           active == ActiveDoc(raw, x.now)
<1>1. /\ x \in Session /\ InOrder(x) /\ InOrder(IdleSession) /\ IdleSession \in Session
      /\ x.now \in Nat /\ x.d \in Nat /\ x.deadline \in Nat /\ clock \in Nat
      /\ record \in Record /\ raw \in Document
  BY SessionFields, IdleInOrder, LoadTypes DEF CommandInv
<1> HIDE DEF raw, active
<1>2. CASE CapacityShortage(s)
  <2> DEFINE w == [x EXCEPT !.now = clock, !.waited = TRUE]
             r == [w EXCEPT !.pc = "refresh"]
  <2>1. sess' = [sess EXCEPT ![s] = IF x.deadline <= clock THEN IdleSession
                                    ELSE IF w.d = 0 THEN StartWait(w) ELSE r]
    BY <1>2 DEF CapacityShortage, WindowOver
  <2>2. /\ w \in Session /\ w.now = clock /\ w.deadline = x.deadline /\ w.cmd = x.cmd
        /\ w.d = x.d /\ w.base = x.base /\ w.pc = x.pc
    BY <1>1 DEF Session
  <2> HIDE DEF w
  <2>3. x.pc \in {"resume", "start", "resuming", "starting"}
    BY <1>2 DEF CapacityShortage
  <2>4. /\ x.pc \in Steps(x.cmd) /\ x.pc \notin Saves
        /\ x.cmd \in {"wake", "keep-awake"}
    BY <1>1, <2>3, StepOwner DEF InOrder, Fits, SleepSteps, Saves
  <2>5. InOrder(w)
    BY <1>1, <2>2, <2>4, MoveInOrder
  <2>6. r \in Session /\ InOrder(r)
    <3>1. "refresh" \in SessionPCs \ (SleepSteps \cup Saves \cup {"idle"})
      BY DEF SessionPCs, SleepSteps, Saves
    <3>2. InOrder(r)
      BY <2>2, <2>4, <2>5, <3>1, RetryMoves
    <3> QED BY <2>2, <3>1, <3>2 DEF Session
  <2>7. ~(x.deadline <= clock) => StartWait(w) \in Session /\ InOrder(StartWait(w))
    BY <1>1, <2>2, <2>4, <2>5, RetryMoves, RetryTypes
  <2> HIDE DEF r
  <2>8. CASE x.deadline <= clock
    BY <1>1, <2>1, <2>8
  <2>9. CASE ~(x.deadline <= clock) /\ w.d = 0
    <3>1. sess' = [sess EXCEPT ![s] = StartWait(w)]
      BY <2>1, <2>9
    <3> QED BY <2>7, <2>9, <3>1
  <2>10. CASE ~(x.deadline <= clock) /\ w.d # 0
    BY <2>1, <2>6, <2>10
  <2> QED BY <2>8, <2>9, <2>10
<1>3. CASE Refresh(s)
  <2> DEFINE y == [x EXCEPT !.pc = "refreshSave", !.base = record,
                            !.doc = Set(raw, "hold", KeepAwakeHold(x.now, x.d))]
             applies == ~Lasts(active, x.deadline) /\ FreshHoldApplies(raw, active, x.now, x.d)
  <2>1. x.pc = "refresh" /\ x.now < x.deadline
    BY <1>3 DEF Refresh, IInv, ShellsWellFormed, WellFormed
  <2>2. CASE applies
    <3>1. sess' = [sess EXCEPT ![s] = y]
      BY <1>3, <2>2 DEF Refresh, raw, active
    <3>2. Set(raw, "hold", KeepAwakeHold(x.now, x.d)) \in Document
      BY <1>1, CommandDocTypes
    <3>3. /\ y \in Session /\ y.pc = "refreshSave" /\ y.cmd = x.cmd /\ y.now = x.now
          /\ y.d = x.d /\ y.base = record
          /\ y.doc = Set(raw, "hold", KeepAwakeHold(x.now, x.d))
      BY <1>1, <3>2 DEF Session, SessionPCs
    <3> HIDE DEF y
    <3>4. HoldFits(y) /\ SleepFits(y)
      BY <2>2, <3>3, RefreshFits DEF raw, active
    <3>5. y.pc \in Steps(x.cmd)
      BY <1>1, <2>1, <3>3, StepOwner DEF InOrder, Steps, SessionPCs, SleepSteps
    <3> QED BY <1>1, <3>1, <3>3, <3>4, <3>5, ComposedInOrder
  <2>3. CASE ~applies
    <3>1. sess' = [sess EXCEPT ![s] = StartWait(x)]
      BY <1>3, <2>3 DEF Refresh, raw, active
    <3>2. x.cmd \in {"wake", "keep-awake"}
      BY <1>1, <2>1, StepOwner DEF InOrder, SleepSteps
    <3>3. InOrder(StartWait(x)) /\ StartWait(x) \in Session
      BY <1>1, <2>1, <3>2, RetryMoves, RetryTypes
    <3> QED BY <3>1, <3>3
  <2> QED BY <2>2, <2>3
<1>4. CASE Settle(s)
  <2> DEFINE y == [x EXCEPT !.pc = "settleSave", !.base = record,
                            !.doc = SettledDoc(raw, x)]
  <2>1. sess' \in {[sess EXCEPT ![s] = y], [sess EXCEPT ![s] = IdleSession]}
    BY <1>4 DEF Settle, Return, raw, active
  <2>2. /\ y \in Session /\ y.pc = "settleSave" /\ y.cmd = x.cmd /\ y.now = x.now
        /\ y.d = x.d /\ y.base = record /\ y.doc = SettledDoc(raw, x)
    BY <1>1, SettledDocTypes DEF Session, SessionPCs
  <2> HIDE DEF y
  <2>3. SettledDoc(raw, x) = SettledDoc(Load(y.base), y)
    BY <2>2 DEF SettledDoc, CancelsSleep, raw
  <2>4. HoldFits(y) /\ SleepFits(y)
    BY <2>2, <2>3, SettleFits
  <2>5. y.pc \in Steps(x.cmd)
    BY <1>1, <1>4, <2>2, StepOwner DEF Settle, InOrder, Steps, SessionPCs, SleepSteps
  <2>6. InOrder(y)
    BY <1>1, <2>2, <2>4, <2>5, ComposedInOrder
  <2> QED BY <1>1, <2>1, <2>2, <2>6
<1> QED BY <1>2, <1>3, <1>4

\* The steps of sleep and cancel, and the ends of any command.
LEMMA SleepInOrder ==
  ASSUME IInv, CommandInv, NEW s \in Sessions,
         \/ SleepStatus(s) \/ CallSuspend(s) \/ SuspendDone(s) \/ Clear(s)
         \/ Stop(s) \/ LostAnswer(s)
  PROVE  \E x \in Session : sess' = [sess EXCEPT ![s] = x] /\ InOrder(x)
<1> DEFINE x == sess[s]
           At(pc) == [x EXCEPT !.pc = pc]
           Targets == {"suspend", "suspending", "clear"}
<1>1. x \in Session /\ InOrder(x) /\ InOrder(IdleSession) /\ IdleSession \in Session
  BY SessionFields, IdleInOrder DEF CommandInv
<1>2. CASE Clear(s) \/ Stop(s) \/ LostAnswer(s)
  BY <1>1, <1>2 DEF Clear, Stop, LostAnswer, Return
<1>3. CASE SleepStatus(s) \/ CallSuspend(s) \/ SuspendDone(s)
  <2>1. x.pc \in SleepSteps
    BY <1>3 DEF SleepStatus, CallSuspend, SuspendDone, SleepSteps
  <2>2. Steps(x.cmd) = SleepSteps
    BY <1>1, <2>1, StepOwner DEF InOrder, Steps
  <2>3. ASSUME NEW pc \in Targets PROVE At(pc) \in Session /\ InOrder(At(pc))
    <3>1. /\ At(pc) \in Session /\ At(pc).pc = pc /\ At(pc).cmd = x.cmd
          /\ At(pc).now = x.now /\ At(pc).d = x.d /\ At(pc).base = x.base
      BY <1>1 DEF Session, SessionPCs
    <3>2. pc \in SleepSteps /\ pc \notin Saves
      BY DEF SleepSteps, Saves
    <3> HIDE DEF At
    <3> QED BY <1>1, <2>2, <3>1, <3>2, MoveInOrder
  <2>4. PICK y \in {IdleSession} \cup {At(pc) : pc \in Targets} :
          sess' = [sess EXCEPT ![s] = y]
    BY <1>3 DEF SleepStatus, CallSuspend, SuspendDone, Goto, Return
  <2> QED BY <1>1, <2>3, <2>4
<1> QED BY <1>2, <1>3

\* Every step of a shell.
LEMMA ShellInOrder ==
  ASSUME IInv, CommandInv, NEW s \in Sessions,
         StartCommand(s) \/ SessionStep(s) \/ SessionFault(s)
  PROVE  \E x \in Session : sess' = [sess EXCEPT ![s] = x] /\ InOrder(x)
BY StartInOrder, LoadInOrder, WakeInOrder, TopUpInOrder, SleepInOrder
DEF SessionStep, SessionFault

-----------------------------------------------------------------------------
(* What a step does to the record.                                         *)

\* A command writes what it has composed; an empty document is deleted, which
\* leaves the same.
Writes(s) ==
  /\ sess[s].pc \in Saves
  /\ record'.hold = sess[s].doc.hold
  /\ record'.sleep = sess[s].doc.sleep

Clears(s) == sess[s].pc = "clear" /\ record' = NoRecord

\* A commit writes the document of its command.
LEMMA CommitWrites ==
  ASSUME NEW s, SaveOrClear(sess[s].doc) \/ Write(sess[s].doc)
  PROVE  record'.hold = sess[s].doc.hold /\ record'.sleep = sess[s].doc.sleep
<1>1. CASE Empty(sess[s].doc) /\ Delete
  BY <1>1 DEF Empty, Delete, NoRecord
<1>2. CASE Write(sess[s].doc)
  BY <1>2 DEF Write
<1> QED BY <1>1, <1>2 DEF SaveOrClear

\* A shell's step leaves the record alone, writes it or clears it, and the shell
\* leaves the step that did.
LEMMA ShellRecord ==
  ASSUME IInv, NEW s \in Sessions,
         StartCommand(s) \/ SessionStep(s) \/ SessionFault(s)
  PROVE  \/ UNCHANGED record
         \/ (Writes(s) \/ Clears(s)) /\ sess'[s].pc \in {"idle", "status", "wait"}
<1> DEFINE x == sess[s]
<1>1. /\ x \in Session /\ sess \in [Sessions -> Session]
      /\ IdleSession.pc = "idle"
      /\ EnterRetry(x).pc = "status" /\ StartWait(x).pc = "wait"
  BY SessionFields DEF IInv, TypeOK, CLITypeOK, IdleSession, EnterRetry, StartWait, Session
<1>2. ASSUME Save(s) \/ RefreshSave(s) \/ SettleSave(s)
      PROVE  Writes(s) /\ sess'[s].pc \in {"idle", "status", "wait"}
  <2>1. x.pc \in Saves /\ (SaveOrClear(x.doc) \/ Write(x.doc))
    BY <1>2 DEF Save, RefreshSave, SettleSave, Commit, Saves
  <2>2. sess' \in {[sess EXCEPT ![s] = IdleSession], [sess EXCEPT ![s] = EnterRetry(x)],
                   [sess EXCEPT ![s] = StartWait(x)]}
    BY <1>2 DEF Save, RefreshSave, SettleSave, Return
  <2> QED BY <1>1, <2>1, <2>2, CommitWrites DEF Writes
<1>3. ASSUME Clear(s) \/ LostAnswer(s)
      PROVE  (Writes(s) \/ Clears(s)) /\ sess'[s].pc \in {"idle", "status", "wait"}
  <2>1. sess' = [sess EXCEPT ![s] = IdleSession]
    BY <1>3 DEF Clear, LostAnswer, Return
  <2>2. CASE x.pc = "clear"
    BY <1>1, <1>3, <2>1, <2>2 DEF Clear, LostAnswer, Delete, Clears
  <2>3. CASE x.pc # "clear"
    <3>1. x.pc \in Saves /\ (SaveOrClear(x.doc) \/ Write(x.doc))
      BY <1>3, <2>3 DEF Clear, LostAnswer, Commit, Saves
    <3> QED BY <1>1, <2>1, <3>1, CommitWrites DEF Writes
  <2> QED BY <2>2, <2>3
<1>4. ASSUME ~(Save(s) \/ RefreshSave(s) \/ SettleSave(s) \/ Clear(s) \/ LostAnswer(s))
      PROVE  UNCHANGED record
  BY <1>4 DEF SessionStep, SessionFault, StartCommand, LoadForWake, LoadForKeepAwake,
     LoadForSleepAt, Status, CallWake, WakeDone, CapacityShortage, Refresh, Retry, Settle,
     SleepStatus, CallSuspend, SuspendDone, WakeFailed, RefreshFails, Stop,
     worldVars, storeVars
<1> QED BY <1>2, <1>3, <1>4

\* What the cleanup of a tick does.
Collects == /\ record' = NoRecord
            /\ ~Live(record.sleep, clock) /\ ~Live(record.hold, clock)

\* A tick leaves the record alone, or deletes it when it has run out.
LEMMA TickRecord ==
  ASSUME IInv, NEW t \in Ticks, TickStep(t) \/ AbortTick(t)
  PROVE  UNCHANGED record \/ Collects
<1>1. CASE Cleanup(t)
  BY <1>1, CleanupDeletes DEF Collects, Cleanup, Delete, storeVars
<1>2. CASE ~Cleanup(t)
  BY <1>2 DEF TickStep, StartTick, GetInstance, ReadState, ReadActivity, SuspendVm,
              WaitVmOp, AbortTick, worldVars, storeVars
<1> QED BY <1>1, <1>2

\* Every step is one of a shell, of a tick, or of the world.
LEMMA StepOf ==
  ASSUME Next
  PROVE  \/ Advance \/ Emit \/ OrphanEnds
         \/ /\ \E s \in Sessions : StartCommand(s) \/ SessionStep(s) \/ SessionFault(s)
            /\ UNCHANGED tick
         \/ /\ \E t \in Ticks : TickStep(t) \/ AbortTick(t)
            /\ UNCHANGED cliVars
BY DEF Next, Command, Proceed, SessionFails, Reconcile, TickFails

\* What a step does to the record, and to the shells.
LEMMA RecordStep ==
  ASSUME IInv, CommandInv, [Next]_vars
  PROVE  \/ UNCHANGED <<record, sess>>
         \/ Collects /\ UNCHANGED sess
         \/ \E s \in Sessions, x \in Session :
              /\ sess' = [sess EXCEPT ![s] = x] /\ InOrder(x)
              /\ \/ UNCHANGED record
                 \/ (Writes(s) \/ Clears(s)) /\ x.pc \in {"idle", "status", "wait"}
<1>1. CASE Advance \/ Emit \/ OrphanEnds \/ UNCHANGED vars
  BY <1>1 DEF Advance, Emit, ReportActivity, OrphanEnds, vars, worldVars, storeVars, cliVars
<1>2. ASSUME NEW s \in Sessions, StartCommand(s) \/ SessionStep(s) \/ SessionFault(s)
      PROVE  \E x \in Session :
               /\ sess' = [sess EXCEPT ![s] = x] /\ InOrder(x)
               /\ \/ UNCHANGED record
                  \/ (Writes(s) \/ Clears(s)) /\ x.pc \in {"idle", "status", "wait"}
  <2>1. PICK x \in Session : sess' = [sess EXCEPT ![s] = x] /\ InOrder(x)
    BY <1>2, ShellInOrder
  <2>2. sess'[s] = x
    BY <2>1 DEF IInv, TypeOK, CLITypeOK
  <2> QED BY <1>2, <2>1, <2>2, ShellRecord
<1>3. ASSUME NEW t \in Ticks, TickStep(t) \/ AbortTick(t), UNCHANGED cliVars
      PROVE  UNCHANGED <<record, sess>> \/ (Collects /\ UNCHANGED sess)
  BY <1>3, TickRecord DEF cliVars
<1> QED BY <1>1, <1>2, <1>3, StepOf

-----------------------------------------------------------------------------
(* What any number of shells keep to.                                      *)

\* Time does not go back.
LEMMA ClockGrows ==
  ASSUME IInv, [Next]_vars
  PROVE  clock \in Nat /\ clock' \in Nat /\ clock <= clock'
<1>1. clock \in Nat
  BY DEF IInv, TypeOK, WorldTypeOK
<1>2. CASE Advance
  BY <1>1, <1>2 DEF Advance
<1>3. CASE UNCHANGED clock
  BY <1>1, <1>3
<1>4. ASSUME NEW s \in Sessions, StartCommand(s) \/ SessionStep(s) \/ SessionFault(s)
      PROVE  UNCHANGED clock
  BY <1>4 DEF SessionStep, SessionFault, StartCommand, LoadForWake, LoadForKeepAwake,
     LoadForSleepAt, Save, Status, CallWake, WakeDone, CapacityShortage, Refresh,
     RefreshSave, Retry, Settle, SettleSave, SleepStatus, CallSuspend, SuspendDone, Clear,
     WakeFailed, RefreshFails, Stop, LostAnswer, worldVars
<1>5. ASSUME NEW t \in Ticks, TickStep(t) \/ AbortTick(t)
      PROVE  UNCHANGED clock
  BY <1>5 DEF TickStep, StartTick, GetInstance, ReadState, ReadActivity, SuspendVm,
              WaitVmOp, Cleanup, AbortTick, worldVars
<1>6. Emit \/ OrphanEnds \/ UNCHANGED vars => UNCHANGED clock
  BY DEF Emit, ReportActivity, OrphanEnds, vars, worldVars
<1> QED BY <1>2, <1>3, <1>4, <1>5, <1>6, StepOf

\* The document a command writes has a hold that has begun.
LEMMA WrittenBegun ==
  ASSUME IInv, CommandInv, NEW s \in Sessions, Writes(s)
  PROVE  Begun(sess[s].doc.hold)
<1>1. /\ HoldFits(sess[s]) /\ sess[s].now <= clock /\ Begun(sess[s].base.hold)
      /\ sess[s].now \in Nat
  BY SessionFields DEF CommandInv, InOrder, Fits, Writes
<1>2. KeepAwakeHold(sess[s].now, sess[s].d).start = sess[s].now
  BY DEF KeepAwakeHold
<1> QED BY <1>1, <1>2 DEF HoldFits, Begun

\* The invariant for any number of shells is inductive.
LEMMA NextCommandInv ==
  ASSUME IInv, CommandInv, [Next]_vars
  PROVE  CommandInv'
<1>1. clock \in Nat /\ clock' \in Nat /\ clock <= clock'
  BY ClockGrows
<1>2. /\ record.hold \in OptionalSpan
      /\ sess \in [Sessions -> Session]
      /\ NoRecord.hold.state = "none"
      /\ \A s \in Sessions : /\ sess[s].base.hold \in OptionalSpan
                             /\ sess[s].doc.hold \in OptionalSpan
  BY SessionFields DEF IInv, TypeOK, WorldTypeOK, CLITypeOK, Record, Document,
                       NoRecord, NoSpan
<1>3. ASSUME NEW sp \in OptionalSpan, Begun(sp) PROVE Begun(sp)'
  BY <1>1, <1>3, SpanFields DEF Begun
<1>4. ASSUME NEW x \in Session, InOrder(x) PROVE InOrder(x)'
  <2>1. x.now \in Nat /\ x.base.hold \in OptionalSpan
    BY DEF Session, Record
  <2>2. Begun(x.base.hold)'
    BY <1>3, <1>4, <2>1 DEF InOrder
  <2> QED BY <1>1, <1>4, <2>1, <2>2 DEF InOrder
<1>5. Begun(record.hold)'
  <2>1. CASE UNCHANGED record
    <3>1. Begun(record.hold)
      BY DEF CommandInv
    <3>2. record.hold.state = "awake" => record.hold.start <= clock'
      BY <1>2, <1>3, <3>1 DEF Begun
    <3> QED BY <2>1, <3>2 DEF Begun
  <2>2. CASE record' = NoRecord
    BY <1>2, <2>2 DEF Begun
  <2>3. ASSUME NEW s \in Sessions, Writes(s) PROVE Begun(record.hold)'
    <3>1. Begun(sess[s].doc.hold)
      BY <2>3, WrittenBegun
    <3>2. sess[s].doc.hold.state = "awake" => sess[s].doc.hold.start <= clock'
      BY <1>2, <1>3, <3>1 DEF Begun
    <3> QED BY <2>3, <3>2 DEF Begun, Writes
  <2> QED BY <2>1, <2>2, <2>3, RecordStep DEF Collects, Clears
<1>6. ASSUME NEW u \in Sessions PROVE InOrder(sess[u])'
  <2>1. sess[u] \in Session /\ InOrder(sess[u])
    BY <1>2 DEF CommandInv
  <2>2. PICK y \in Session : InOrder(y) /\ sess'[u] = y
    <3>1. CASE UNCHANGED sess
      BY <2>1, <3>1
    <3>2. ASSUME NEW s \in Sessions, NEW x \in Session,
                 sess' = [sess EXCEPT ![s] = x], InOrder(x)
          PROVE  sess'[u] = IF u = s THEN x ELSE sess[u]
      BY <1>2, <3>2
    <3> QED BY <2>1, <3>1, <3>2, RecordStep
  <2>3. InOrder(y)'
    BY <1>4, <2>2
  <2> QED BY <2>2, <2>3 DEF InOrder
<1> QED BY <1>5, <1>6 DEF CommandInv

\* The initial states satisfy it.
LEMMA InitCommandInv == Init => CommandInv
<1> SUFFICES ASSUME Init PROVE CommandInv
  OBVIOUS
<1>1. IInv
  BY InitIInv
<1>2. \A s \in Sessions : InOrder(sess[s])
  BY <1>1, IdleInOrder DEF Init, CLIInit
<1>3. Begun(record.hold)
  BY HoldsAssumption DEF Init, WorldInit, Begun, NoRecord, NoSpan
<1> QED BY <1>2, <1>3 DEF CommandInv

\* In every behaviour each command saves only what fits the document it loaded, for
\* any number of shells.
THEOREM CommandsInOrder == Spec => [](IInv /\ CommandInv)
<1>1. Init => IInv /\ CommandInv
  BY InitIInv, InitCommandInv
<1>2. IInv /\ CommandInv /\ [Next]_vars => (IInv /\ CommandInv)'
  BY NextIInv, NextCommandInv
<1> QED BY <1>1, <1>2, PTL DEF Spec

\* The shell that rewrites the record is the one that writes it.
LEMMA RewritesWrites ==
  ASSUME IInv, CommandInv, [Next]_vars, NEW s \in Sessions, Rewrites(s)
  PROVE  Writes(s)
<1>1. sess[s].pc # "clear" /\ sess[s] # sess'[s] /\ record' # record
  BY DEF Rewrites
<1>2. PICK u \in Sessions, x \in Session :
        /\ sess' = [sess EXCEPT ![u] = x]
        /\ Writes(u) \/ Clears(u)
  BY <1>1, RecordStep
<1>3. u = s
  BY <1>1, <1>2 DEF IInv, TypeOK, CLITypeOK
<1> QED BY <1>1, <1>2, <1>3 DEF Clears

\* For any number of shells, a live hold is lost, or shortened by a save, only
\* to the write of another shell between the load and the save of a command
\* (Save has no precondition), or to sleep and cancel.
THEOREM HoldLostOnlyToARace == Spec => LostOnlyToARace
<1> DEFINE A == \A s \in Sessions :
                  /\ Rewrites(s)
                  /\ sess[s].base = record
                  /\ record.hold.state = "awake"
                  /\ Live(record.hold, clock)
                  => record'.hold.state = "awake" /\ record'.hold.end >= record.hold.end
<1>1. IInv /\ CommandInv /\ [Next]_vars => [A]_vars
  <2> SUFFICES ASSUME IInv, CommandInv, [Next]_vars, NEW s \in Sessions, Rewrites(s),
                      sess[s].base = record, record.hold.state = "awake",
                      Live(record.hold, clock)
               PROVE  record'.hold.state = "awake" /\ record'.hold.end >= record.hold.end
    OBVIOUS
  <2>1. Writes(s)
    BY RewritesWrites
  <2>2. /\ HoldFits(sess[s]) /\ sess[s].now <= clock
        /\ sess[s].now \in Nat /\ clock \in Nat /\ record.hold \in OptionalSpan
    BY <2>1, SessionFields DEF CommandInv, InOrder, Fits, Writes, Record
  <2>3. sess[s].now < record.hold.end
    BY <2>2, SpanFields DEF Live
  <2> QED BY <2>1, <2>2, <2>3 DEF HoldFits, Writes
<1>2. [](IInv /\ CommandInv) /\ [][Next]_vars => [][A]_vars
  BY <1>1, PTL
<1> QED BY <1>2, CommandsInOrder, PTL DEF Spec, LostOnlyToARace

\* For any number of shells, a top-up brings back no hold that is gone and touches
\* no scheduled sleep, but for the write of another shell between the load and the
\* save of a command (applyFreshHold works on what the wait last loaded).
THEOREM TopUpsRespectOthers == Spec => TopUpRespectsOthers
<1> DEFINE A == \A s \in Sessions :
                  Rewrites(s) /\ sess[s].base = record =>
                    /\ sess[s].pc # "save" /\ record.hold = NoSpan => record'.hold = NoSpan
                    /\ sess[s].pc = "refreshSave" =>
                         record'.sleep = FromWire(record.sleep)
<1>1. IInv /\ CommandInv /\ [Next]_vars => [A]_vars
  <2> SUFFICES ASSUME IInv, CommandInv, [Next]_vars, NEW s \in Sessions, Rewrites(s),
                      sess[s].base = record
               PROVE  /\ sess[s].pc # "save" /\ record.hold = NoSpan =>
                           record'.hold = NoSpan
                      /\ sess[s].pc = "refreshSave" =>
                           record'.sleep = FromWire(record.sleep)
    OBVIOUS
  <2>1. Writes(s)
    BY RewritesWrites
  <2>2. HoldFits(sess[s]) /\ SleepFits(sess[s])
    BY <2>1 DEF CommandInv, InOrder, Fits, Writes
  <2> QED BY <2>1, <2>2 DEF HoldFits, SleepFits, Writes
<1>2. [](IInv /\ CommandInv) /\ [][Next]_vars => [][A]_vars
  BY <1>1, PTL
<1> QED BY <1>2, CommandsInOrder, PTL DEF Spec, TopUpRespectsOthers

\* For any number of shells, a scheduled sleep that is still to run out leaves the
\* record only by a command that says so, or by a race: no tick, no top-up and no
\* failed command loses it.
THEOREM SleepLeavesBySayingSo == Spec => SleepCalledOff
<1> DEFINE A == record.sleep.state = "asleep" /\ Live(record.sleep, clock)
                  /\ record'.sleep # record.sleep
                => \E s \in Sessions :
                     /\ sess'[s] # sess[s]
                     /\ \/ sess[s].cmd \in {"sleep", "cancel", "sleep-at"}
                        \/ sess[s].base # record
                        \/ record.sleep.start <= sess[s].now
                        \/ /\ sess[s].cmd = "keep-awake"
                           /\ record.sleep.start < sess[s].now + sess[s].d
<1>1. IInv /\ CommandInv /\ [Next]_vars => [A]_vars
  <2> SUFFICES ASSUME IInv, CommandInv, [Next]_vars, record.sleep.state = "asleep",
                      Live(record.sleep, clock), record'.sleep # record.sleep
               PROVE  A
    OBVIOUS
  <2>1. PICK s \in Sessions, x \in Session :
          /\ sess' = [sess EXCEPT ![s] = x]
          /\ Writes(s) \/ Clears(s)
          /\ x.pc \in {"idle", "status", "wait"}
    BY RecordStep DEF Collects
  <2>2. /\ sess'[s] = x /\ sess[s] \in Session /\ InOrder(sess[s])
        /\ sess[s].now \in Nat /\ clock \in Nat /\ record.sleep \in OptionalSpan
    BY <2>1, SessionFields DEF IInv, TypeOK, CLITypeOK, CommandInv, Record
  <2>3. sess'[s] # sess[s]
    BY <2>1, <2>2 DEF Writes, Clears, Saves
  <2>4. CASE Clears(s)
    BY <2>2, <2>3, <2>4, StepOwner DEF Clears, InOrder, SleepSteps
  <2>5. CASE Writes(s)
    <3>1. SleepFits(sess[s]) /\ sess[s].now <= clock
      BY <2>2, <2>5 DEF InOrder, Fits, Writes
    <3>2. sess[s].now < record.sleep.end
      BY <2>2, <3>1, SpanFields DEF Live
    <3>3. \/ sess[s].base # record
          \/ CallsOff(sess[s])
      BY <2>5, <3>1, <3>2 DEF SleepFits, Writes
    <3> QED BY <2>3, <3>3 DEF CallsOff
  <2> QED BY <2>1, <2>4, <2>5
<1>2. [](IInv /\ CommandInv) /\ [][Next]_vars => [][A]_vars
  BY <1>1, PTL
<1> QED BY <1>2, CommandsInOrder, PTL DEF Spec, SleepCalledOff

-----------------------------------------------------------------------------
(* What a shell's step does to its promise and to itself.                  *)

\* The records wakeWithRetry goes on with, field by field.
LEMMA RetryFields ==
  ASSUME NEW x \in Session
  PROVE  /\ \A y \in {EnterRetry(x), StartWait(x)} :
              /\ y.pc \in {"status", "wait"} /\ y.cmd = x.cmd
              /\ y.now = x.now /\ y.d = x.d /\ y.waited = x.waited
         /\ Awake(x).pc \in {"settle", "idle"} /\ Awake(x).cmd \in {x.cmd, "none"}
         /\ IdleSession.pc = "idle" /\ IdleSession.cmd = "none"
         /\ \A pc : /\ [x EXCEPT !.pc = pc].pc = pc /\ [x EXCEPT !.pc = pc].cmd = x.cmd
                    /\ [x EXCEPT !.pc = pc].now = x.now /\ [x EXCEPT !.pc = pc].d = x.d
                    /\ [x EXCEPT !.pc = pc].waited = x.waited
<1>1. /\ EnterRetry(x).pc = "status" /\ EnterRetry(x).cmd = x.cmd
      /\ EnterRetry(x).now = x.now /\ EnterRetry(x).d = x.d
      /\ EnterRetry(x).waited = x.waited
  BY DEF EnterRetry, Session
<1>2. /\ StartWait(x).pc = "wait" /\ StartWait(x).cmd = x.cmd
      /\ StartWait(x).now = x.now /\ StartWait(x).d = x.d
      /\ StartWait(x).waited = x.waited
  BY DEF StartWait, Session
<1>3. IdleSession.pc = "idle" /\ IdleSession.cmd = "none"
  BY DEF IdleSession
<1>4. Awake(x).pc \in {"settle", "idle"} /\ Awake(x).cmd \in {x.cmd, "none"}
  BY <1>3 DEF Awake, Session
<1>5. \A pc : /\ [x EXCEPT !.pc = pc].pc = pc /\ [x EXCEPT !.pc = pc].cmd = x.cmd
              /\ [x EXCEPT !.pc = pc].now = x.now /\ [x EXCEPT !.pc = pc].d = x.d
              /\ [x EXCEPT !.pc = pc].waited = x.waited
  BY DEF Session
<1> QED BY <1>1, <1>2, <1>3, <1>4, <1>5

\* How a command goes on: to a save with the record it has just loaded, and to the
\* steps around compute.Wake with the hold it began with, until it has waited.
Moves(x, y) ==
  /\ y.cmd \in {x.cmd, "none"}
  /\ y.pc \in Saves => y.base = record
  /\ y.pc \in Waking /\ ~y.waited =>
       /\ x.pc \in Waking \cup {"load", "save"} /\ ~x.waited
       /\ y.now = x.now /\ y.d = x.d

\* Each step of a command moves its shell so.
LEMMA ShellMoves ==
  ASSUME IInv, NEW s \in Sessions, SessionStep(s) \/ SessionFault(s)
  PROVE  Moves(sess[s], sess'[s])
<1> DEFINE x == sess[s]
           y == sess'[s]
<1>1. x \in Session /\ sess \in [Sessions -> Session]
  BY SessionFields DEF IInv, TypeOK, CLITypeOK
<1>2. \A z : sess' = [sess EXCEPT ![s] = z] => y = z
  BY <1>1
<1>3. Moves(x, IdleSession) /\ Moves(x, Awake(x))
  BY <1>1, RetryFields DEF Moves, Saves, Waking
<1>4. x.pc \in Waking \cup {"load", "save"} => Moves(x, EnterRetry(x)) /\ Moves(x, StartWait(x))
  BY <1>1, RetryFields DEF Moves, Saves
<1>5. \A pc \in SessionPCs \ Saves :
        pc \notin Waking \/ x.pc \in Waking => Moves(x, [x EXCEPT !.pc = pc])
  BY <1>1, RetryFields DEF Moves
<1>6. CASE LoadForWake(s)
  <2> DEFINE z == [x EXCEPT !.doc = WakeDoc(Loaded(s), x.now, x.d)]
             w == [z EXCEPT !.pc = "save", !.base = record]
  <2>1. /\ z.cmd = x.cmd /\ z.pc = x.pc /\ z.now = x.now /\ z.d = x.d
        /\ z.waited = x.waited
        /\ w.cmd = x.cmd /\ w.pc = "save" /\ w.base = record
    BY <1>1 DEF Session
  <2>2. y \in {w, EnterRetry(z)} /\ x.pc = "load"
    BY <1>1, <1>6 DEF LoadForWake
  <2>3. /\ EnterRetry(z).pc = "status" /\ EnterRetry(z).cmd = x.cmd
        /\ EnterRetry(z).now = x.now /\ EnterRetry(z).d = x.d
        /\ EnterRetry(z).waited = x.waited
    BY <1>1 DEF EnterRetry, Session
  <2> HIDE DEF z, w
  <2> QED BY <2>1, <2>2, <2>3 DEF Moves, Saves, Waking
<1>7. CASE LoadForKeepAwake(s) \/ LoadForSleepAt(s) \/ Refresh(s) \/ Settle(s)
  <2>1. \/ y.pc \in Saves \ {"refreshSave"} /\ y.cmd = x.cmd /\ y.base = record
        \/ /\ y.pc = "refreshSave" /\ y.cmd = x.cmd /\ y.base = record
           /\ y.now = x.now /\ y.d = x.d /\ y.waited = x.waited /\ x.pc = "refresh"
        \/ y = StartWait(x) /\ x.pc = "refresh"
        \/ y = IdleSession
    <3>1. CASE LoadForKeepAwake(s)
      BY <1>1, <3>1 DEF LoadForKeepAwake, Session, Saves
    <3>2. CASE LoadForSleepAt(s)
      BY <1>1, <3>2 DEF LoadForSleepAt, Session, Saves
    <3>3. CASE Refresh(s)
      BY <1>1, <3>3 DEF Refresh, Session, Saves
    <3>4. CASE Settle(s)
      <4> DEFINE z == [x EXCEPT !.pc = "settleSave", !.base = record,
                                !.doc = SettledDoc(Load(record), x)]
      <4>1. z.pc = "settleSave" /\ z.cmd = x.cmd /\ z.base = record
        BY <1>1 DEF Session
      <4>2. y \in {z, IdleSession}
        BY <1>1, <3>4 DEF Settle, Return
      <4> QED BY <4>1, <4>2 DEF Saves
    <3> QED BY <1>7, <3>1, <3>2, <3>3, <3>4
  <2> QED BY <1>3, <1>4, <2>1 DEF Moves, Saves, Waking
<1>8. CASE CapacityShortage(s)
  <2> DEFINE w == [x EXCEPT !.now = clock, !.waited = TRUE]
             r == [w EXCEPT !.pc = "refresh"]
  <2>1. w.cmd = x.cmd /\ w.waited
    BY <1>1 DEF Session
  <2>2. y \in {IdleSession, StartWait(w), r}
    BY <1>1, <1>8 DEF CapacityShortage
  <2>3. /\ StartWait(w).pc = "wait" /\ StartWait(w).cmd = x.cmd /\ StartWait(w).waited
        /\ r.pc = "refresh" /\ r.cmd = x.cmd /\ r.waited
    BY <1>1 DEF StartWait, Session
  <2> HIDE DEF r, w
  <2> QED BY <1>3, <2>2, <2>3 DEF Moves, Saves
<1>9. CASE \/ Save(s) \/ RefreshSave(s) \/ RefreshFails(s) \/ SettleSave(s) \/ Clear(s)
           \/ Stop(s) \/ LostAnswer(s) \/ WakeFailed(s)
  <2>1. \/ y = IdleSession
        \/ y \in {EnterRetry(x), StartWait(x)} /\ x.pc \in Waking \cup {"save"}
    BY <1>2, <1>9 DEF Save, RefreshSave, RefreshFails, SettleSave, Clear, Stop, LostAnswer,
                      WakeFailed, Return, Waking
  <2> QED BY <1>3, <1>4, <2>1
<1>10. CASE \/ Status(s) \/ CallWake(s) \/ WakeDone(s) \/ Retry(s)
            \/ SleepStatus(s) \/ CallSuspend(s) \/ SuspendDone(s)
  <2>1. \/ y \in {IdleSession, Awake(x)}
        \/ \E pc \in {"suspend", "suspending", "clear"} : y = [x EXCEPT !.pc = pc]
        \/ /\ x.pc \in Waking
           /\ \E pc \in {"resume", "start", "resuming", "starting", "status"} :
                y = [x EXCEPT !.pc = pc]
    BY <1>2, <1>10 DEF Status, CallWake, WakeDone, Retry, SleepStatus, CallSuspend,
                       SuspendDone, Goto, Return, WaitingFor, Waking
  <2> QED BY <1>3, <1>5, <2>1 DEF Saves, Waking, SessionPCs
<1> QED BY <1>6, <1>7, <1>8, <1>9, <1>10 DEF SessionStep, SessionFault

\* A promise a step of a command makes: the record bears it out.
Grants(s) ==
  /\ sess[s].cmd \in {"wake", "keep-awake"}
  /\ \E u \in Nat :
       /\ promise' = Promised(u, sess[s].now)
       /\ clock < u =>
            /\ record'.hold.state = "awake"
            /\ record'.hold.start <= clock
            /\ record'.hold.end >= u
       /\ sess'[s].pc \in Waking /\ sess[s].d > 0 => u >= sess[s].now + sess[s].d
  /\ record'.sleep.state = "asleep" /\ clock < record'.sleep.end =>
       sess[s].now < record'.sleep.start

\* A save that is reported bears out what is reported.
LEMMA SaveGrants ==
  ASSUME IInv, CommandInv, NEW s \in Sessions, Writes(s), UNCHANGED clock,
         sess[s].pc \in {"save", "settleSave"}, sess[s].cmd # "sleep-at",
         sess[s].pc = "settleSave" => sess'[s].pc \notin Waking,
         promise' = Promised(HeldUntil(sess[s]), sess[s].now)
  PROVE  Grants(s)
<1> DEFINE x == sess[s]
<1>1. /\ x \in Session /\ InOrder(x) /\ HoldFits(x) /\ SleepFits(x)
      /\ x.now \in Nat /\ clock \in Nat /\ x.now <= clock
      /\ x.doc.sleep \in OptionalSpan /\ x.doc.hold \in OptionalSpan
      /\ x.pc \in Saves
  BY SessionFields DEF CommandInv, InOrder, Fits, Writes, Document
<1>2. x.cmd \in {"wake", "keep-awake"}
  BY <1>1, StepOwner DEF InOrder, Saves, SleepSteps
<1>3. HeldUntil(x) \in Nat
  BY <1>1, RetryTypes
<1>4. clock < HeldUntil(x) =>
        /\ x.doc.hold.state = "awake" /\ x.doc.hold.start <= clock
        /\ x.doc.hold.end >= HeldUntil(x)
  <2>1. Begun(x.doc.hold) /\ x.doc.hold.end \in Nat
    BY <1>1, WrittenBegun, SpanFields
  <2> QED BY <1>1, <2>1 DEF HeldUntil, Begun
<1>5. x.pc = "save" /\ x.d > 0 => HeldUntil(x) >= x.now + x.d
  BY <1>1 DEF HoldFits, HeldUntil
<1>6. x.doc.sleep.state = "asleep" /\ clock < x.doc.sleep.end => x.now < x.doc.sleep.start
  BY <1>1, SpanFields DEF SleepFits
<1> QED BY <1>2, <1>3, <1>4, <1>5, <1>6 DEF Grants, Writes

\* A wake that finds nothing to save finds on record what it reports.
LEMMA LoadGrants ==
  ASSUME IInv, CommandInv, NEW s \in Sessions, LoadForWake(s), sess'[s].pc # "save"
  PROVE  Grants(s)
<1> DEFINE x == sess[s]
           doc == ActiveDoc(Load(record), x.now)
           z == [x EXCEPT !.doc = WakeDoc(doc, x.now, x.d)]
<1>1. /\ x \in Session /\ sess \in [Sessions -> Session]
      /\ x.now \in Nat /\ x.d \in Nat /\ clock \in Nat /\ x.now <= clock
      /\ record \in Record /\ record.sleep \in OptionalSpan /\ record.hold \in OptionalSpan
      /\ Begun(record.hold) /\ x.cmd = "wake" /\ UNCHANGED record
  BY SessionFields DEF CommandInv, InOrder, Record, IInv, TypeOK, CLITypeOK, LoadForWake,
                       storeVars
<1>2. /\ doc.hold = NoSpan \/ doc.hold = record.hold
      /\ record.sleep.state = "asleep" /\ x.now < record.sleep.end =>
           doc.sleep = record.sleep
  BY <1>1, LoadedSpans
<1>3. /\ ~WakeChanges(doc, x.now, x.d)
      /\ promise' = Promised(HeldUntil(z), x.now)
  <2> DEFINE w == [z EXCEPT !.pc = "save", !.base = record]
  <2>1. w.pc = "save"
    BY <1>1 DEF Session
  <2>2. \/ sess' = [sess EXCEPT ![s] = w]
        \/ /\ ~WakeChanges(doc, x.now, x.d)
           /\ promise' = Promised(HeldUntil(z), x.now)
    BY DEF LoadForWake, Loaded
  <2> HIDE DEF w
  <2> QED BY <1>1, <2>1, <2>2
<1>4. z.d = x.d /\ z.doc.hold = IF x.d > 0 THEN LongerAwakeHold(doc, KeepAwakeHold(x.now, x.d))
                                          ELSE doc.hold
  BY <1>1 DEF Session, WakeDoc
<1>5. /\ record.sleep.start \in Nat /\ record.sleep.end \in Nat
      /\ record.hold.start \in Nat /\ record.hold.end \in Nat
      /\ record.sleep.state = "asleep" => record.sleep # NoSpan
      /\ NoSpan.state = "none"
  BY <1>1, SpanFields
<1>6. KeepAwakeHold(x.now, x.d).end = x.now + x.d
  BY DEF KeepAwakeHold
<1> HIDE DEF z, doc
<1>7. x.d > 0 => /\ doc.hold = record.hold /\ record.hold.state = "awake"
                 /\ z.doc.hold = record.hold /\ record.hold.end > x.now + x.d
  BY <1>2, <1>3, <1>4, <1>5, <1>6 DEF WakeChanges, LongerAwakeHold
<1>8. HeldUntil(z) = IF x.d > 0 THEN record.hold.end ELSE 0
  BY <1>1, <1>4, <1>7 DEF HeldUntil
<1>9. record.sleep.state = "asleep" /\ clock < record.sleep.end => x.now < record.sleep.start
  BY <1>1, <1>2, <1>3, <1>5 DEF WakeChanges, Active
<1> QED BY <1>1, <1>3, <1>5, <1>7, <1>8, <1>9 DEF Grants, Begun

\* A command whose wait has ended and that finds nothing to save calls no sleep off.
LEMMA SettleGrants ==
  ASSUME IInv, CommandInv, NEW s \in Sessions, Settle(s), sess'[s].pc # "settleSave"
  PROVE  Grants(s)
<1> DEFINE x == sess[s]
           active == ActiveDoc(Load(record), x.now)
           z == [x EXCEPT !.pc = "settleSave", !.base = record,
                          !.doc = SettledDoc(Load(record), x)]
<1>1. /\ x \in Session /\ sess \in [Sessions -> Session] /\ InOrder(x)
      /\ x.now \in Nat /\ x.d \in Nat /\ clock \in Nat /\ x.now <= clock
      /\ record \in Record /\ record.sleep \in OptionalSpan
      /\ x.pc = "settle" /\ UNCHANGED record
  BY SessionFields DEF CommandInv, InOrder, Record, IInv, TypeOK, CLITypeOK, Settle, storeVars
<1>2. x.cmd \in {"wake", "keep-awake"}
  BY <1>1, StepOwner DEF InOrder, SleepSteps
<1>3. record.sleep.state = "asleep" /\ x.now < record.sleep.end =>
        active.sleep = record.sleep
  BY <1>1, LoadedSpans
<1>4. z.pc = "settleSave"
  BY <1>1 DEF Session
<1>5. \/ sess' = [sess EXCEPT ![s] = z]
      \/ /\ sess' = [sess EXCEPT ![s] = IdleSession]
         /\ ~CancelsSleep(active, x)
         /\ promise' = Promised(0, x.now)
  BY DEF Settle, Return
<1> HIDE DEF z, active
<1>6. ~CancelsSleep(active, x) /\ promise' = Promised(0, x.now) /\ sess'[s].pc = "idle"
  BY <1>1, <1>4, <1>5 DEF IdleSession
<1>7. record.sleep.state = "asleep" /\ clock < record.sleep.end => x.now < record.sleep.start
  BY <1>1, <1>3, <1>6, SpanFields DEF CancelsSleep, Active
<1> QED BY <1>1, <1>2, <1>6, <1>7 DEF Grants, Waking

\* A step of a command leaves the promise alone, or makes one that is borne out; it
\* does not begin to wake the VM without.
LEMMA ShellPromises ==
  ASSUME IInv, CommandInv, NEW s \in Sessions, SessionStep(s) \/ SessionFault(s)
  PROVE  /\ UNCHANGED <<issued, clock>>
         /\ \/ UNCHANGED promise /\ (sess'[s].pc \in Waking => sess[s].pc \in Waking)
            \/ Grants(s)
<1> DEFINE x == sess[s]
           y == sess'[s]
<1>1. x \in Session /\ sess \in [Sessions -> Session]
  BY SessionFields DEF IInv, TypeOK, CLITypeOK
<1>2. \A z : sess' = [sess EXCEPT ![s] = z] => y = z
  BY <1>1
<1>3. IdleSession.pc \notin Waking
  BY DEF IdleSession, Waking
<1>4. UNCHANGED <<issued, clock>>
  BY DEF SessionStep, SessionFault, LoadForWake, LoadForKeepAwake,
     LoadForSleepAt, Save, Status, CallWake, WakeDone, CapacityShortage, Refresh,
     RefreshSave, Retry, Settle, SettleSave, SleepStatus, CallSuspend, SuspendDone, Clear,
     WakeFailed, RefreshFails, Stop, LostAnswer, worldVars
<1>5. CASE Save(s) \/ SettleSave(s)
  <2>1. Writes(s) /\ x.pc \in {"save", "settleSave"}
    BY <1>5, CommitWrites DEF Save, SettleSave, Commit, Writes, Saves
  <2>2. CASE x.pc = "save" /\ x.cmd = "sleep-at"
    BY <1>2, <1>3, <1>4, <1>5, <2>2 DEF Save, SettleSave, Return
  <2>3. CASE ~(x.pc = "save" /\ x.cmd = "sleep-at")
    <3>1. /\ promise' = Promised(HeldUntil(x), x.now)
          /\ x.pc = "settleSave" => y = IdleSession
      BY <1>2, <1>5, <2>3 DEF Save, SettleSave, Return
    <3>2. x.pc = "settleSave" => x.cmd # "sleep-at"
      BY <1>1, StepOwner DEF CommandInv, InOrder, Fits, Steps, SessionPCs
    <3> QED BY <1>3, <1>4, <2>1, <2>3, <3>1, <3>2, SaveGrants
  <2> QED BY <2>2, <2>3
<1>6. CASE LoadForWake(s)
  <2>1. CASE y.pc # "save"
    BY <1>4, <1>6, <2>1, LoadGrants
  <2>2. CASE y.pc = "save"
    <3>1. EnterRetry([x EXCEPT !.doc = WakeDoc(Loaded(s), x.now, x.d)]).pc = "status"
      BY <1>1 DEF EnterRetry, Session
    <3>2. UNCHANGED promise
      BY <1>2, <1>6, <2>2, <3>1 DEF LoadForWake
    <3> QED BY <1>4, <2>2, <3>2 DEF Waking
  <2> QED BY <2>1, <2>2
<1>7. CASE Settle(s)
  <2>1. CASE y.pc # "settleSave"
    BY <1>4, <1>7, <2>1, SettleGrants
  <2>2. CASE y.pc = "settleSave"
    <3>1. IdleSession.pc = "idle"
      BY DEF IdleSession
    <3>2. UNCHANGED promise
      BY <1>2, <1>7, <2>2, <3>1 DEF Settle, Return
    <3> QED BY <1>4, <2>2, <3>2 DEF Waking
  <2> QED BY <2>1, <2>2
<1>8. CASE ~(Save(s) \/ SettleSave(s) \/ LoadForWake(s) \/ Settle(s))
  <2>1. UNCHANGED promise
    BY <1>8 DEF SessionStep, SessionFault, LoadForKeepAwake,
       LoadForSleepAt, Status, CallWake, WakeDone, CapacityShortage, Refresh,
       RefreshSave, Retry, SleepStatus, CallSuspend, SuspendDone, Clear,
       WakeFailed, RefreshFails, Stop, LostAnswer, worldVars
  <2>2. CASE LoadForKeepAwake(s) \/ LoadForSleepAt(s)
    <3>1. CASE LoadForKeepAwake(s)
      BY <1>1, <1>4, <2>1, <3>1 DEF LoadForKeepAwake, Session, Waking
    <3>2. CASE LoadForSleepAt(s)
      BY <1>1, <1>4, <2>1, <3>2 DEF LoadForSleepAt, Session, Waking
    <3> QED BY <2>2, <3>1, <3>2
  <2>3. CASE Clear(s) \/ Stop(s) \/ LostAnswer(s) \/ WakeFailed(s)
    BY <1>2, <1>3, <1>4, <2>1, <2>3 DEF Clear, Stop, LostAnswer, WakeFailed, Return
  <2>4. CASE SleepStatus(s) \/ CallSuspend(s) \/ SuspendDone(s)
    <3>1. \/ y = IdleSession
          \/ \E pc \in {"suspend", "suspending", "clear"} : y = [x EXCEPT !.pc = pc]
      BY <1>2, <2>4 DEF SleepStatus, CallSuspend, SuspendDone, Goto, Return
    <3>2. y.pc \in {"idle", "suspend", "suspending", "clear"}
      BY <1>1, <3>1 DEF IdleSession, Session
    <3> QED BY <1>4, <2>1, <3>2 DEF Waking
  <2>5. CASE \/ Status(s) \/ CallWake(s) \/ WakeDone(s) \/ CapacityShortage(s) \/ Refresh(s)
             \/ RefreshSave(s) \/ Retry(s) \/ RefreshFails(s)
    BY <1>4, <2>1, <2>5 DEF Status, CallWake, WakeDone, CapacityShortage, Refresh,
       RefreshSave, Retry, RefreshFails, Waking
  <2> QED BY <1>8, <2>2, <2>3, <2>4, <2>5 DEF SessionStep, SessionFault
<1> QED BY <1>5, <1>6, <1>7, <1>8

-----------------------------------------------------------------------------
(* What becomes of a promise.                                              *)

\* The record while a promise stands: what it holds at the instant c keeps it.
HoldStands(r, c) ==
  c < promise.until => /\ r.hold.state = "awake"
                       /\ r.hold.start <= c
                       /\ r.hold.end >= promise.until

SleepStands(r, c) ==
  r.sleep.state = "asleep" /\ c < r.sleep.end => promise.since < r.sleep.start

TicksStand(r) ==
  \A t \in Ticks :
    SamePromise(tick[t]) /\ tick[t].pc \in {"getInstance", "readState"} =>
      After(r.sleep, tick[t])

\* What a promise is made of.
LEMMA PromiseFields ==
  ASSUME IInv
  PROVE  /\ promise.until \in Nat /\ promise.epoch \in Nat
         /\ promise.since \in Nat \cup {NoTime} /\ NoTime = -1
         /\ issued \in Nat /\ clock \in Nat
         /\ \A t \in Ticks : /\ tick[t] \in Tick /\ tick[t].now \in Nat
                             /\ tick[t].under.until \in Nat
                             /\ tick[t].under.since \in Nat \cup {NoTime}
                             /\ tick[t].under.epoch \in Nat
                             /\ tick[t].doc \in Record
<1>1. promise \in Promise /\ issued \in 0..MaxCommands /\ clock \in Nat
      /\ \A t \in Ticks : tick[t] \in Tick
  BY DEF IInv, TypeOK, WorldTypeOK, CLITypeOK, ReconcilerTypeOK
<1> QED BY <1>1, CLIAssumption DEF Promise, NoTime, Tick

\* What a command writes keeps the promise: it works on the record it loaded, or on
\* one that a tick has collected since because it had run out.
LEMMA WrittenStands ==
  ASSUME IInv, CommandInv, PromiseInv, NEW s \in Sessions, Writes(s)
  PROVE  HoldStands(record', clock) /\ SleepStands(record', clock) /\ TicksStand(record')
<1> DEFINE x == sess[s]
<1>1. /\ x \in Session /\ InOrder(x) /\ HoldFits(x) /\ SleepFits(x) /\ x.pc \in Saves
      /\ x.now \in Nat /\ clock \in Nat /\ x.now <= clock
      /\ x.doc.sleep \in OptionalSpan /\ x.doc.hold \in OptionalSpan
      /\ x.base.sleep \in OptionalSpan /\ x.base.hold \in OptionalSpan
  BY SessionFields DEF CommandInv, InOrder, Fits, Writes, Document, Record
<1>2. \/ x.base = record
      \/ record = NoRecord /\ ~Live(x.base.sleep, clock) /\ ~Live(x.base.hold, clock)
  BY <1>1 DEF PromiseInv, Current
<1>3. HoldStands(record, clock) /\ SleepStands(record, clock) /\ PromiseFits(x)
  BY DEF PromiseInv, HoldKept, HoldStands, SleepsLater, SleepStands
<1>4. NoRecord.hold.state = "none" /\ NoRecord.sleep.state = "none" /\ NoSpan.state = "none"
  BY DEF NoRecord, NoSpan
<1>5. record'.hold = x.doc.hold /\ record'.sleep = x.doc.sleep
  BY DEF Writes
<1>6. HoldStands(record', clock)
  <2> SUFFICES ASSUME clock < promise.until
               PROVE  x.doc.hold.state = "awake" /\ x.doc.hold.start <= clock
                      /\ x.doc.hold.end >= promise.until
    BY <1>5 DEF HoldStands
  <2>1. record.hold.state = "awake" /\ record.hold.end >= promise.until
    BY <1>3 DEF HoldStands
  <2>2. x.base = record
    BY <1>2, <1>4, <2>1
  <2>3. /\ x.base.hold.end \in Nat /\ promise.until \in Nat /\ x.doc.hold.end \in Nat
    BY <1>1, SpanFields, PromiseFields
  <2>4. x.doc.hold.state = "awake" /\ x.doc.hold.end >= x.base.hold.end
    BY <1>1, <2>1, <2>2, <2>3 DEF HoldFits
  <2>5. Begun(x.doc.hold)
    BY WrittenBegun
  <2> QED BY <2>1, <2>2, <2>3, <2>4, <2>5 DEF Begun
<1>7. SleepStands(record', clock)
  <2> SUFFICES ASSUME x.doc.sleep.state = "asleep", clock < x.doc.sleep.end
               PROVE  promise.since < x.doc.sleep.start
    BY <1>5 DEF SleepStands
  <2>1. CASE x.cmd = "sleep-at"
    BY <1>1, <1>3, <2>1, SpanFields DEF PromiseFits, NoTime
  <2>2. CASE x.cmd # "sleep-at"
    <3>1. x.doc.sleep = x.base.sleep
      BY <1>1, <2>2 DEF SleepFits
    <3>2. Live(x.base.sleep, clock)
      BY <1>1, <3>1, SpanFields DEF Live
    <3> QED BY <1>2, <1>3, <3>1, <3>2 DEF SleepStands
  <2> QED BY <2>1, <2>2
<1>8. TicksStand(record')
  <2> SUFFICES ASSUME NEW t \in Ticks, SamePromise(tick[t]),
                      tick[t].pc \in {"getInstance", "readState"},
                      x.doc.sleep.state = "asleep", Active(x.doc.sleep, tick[t].now)
               PROVE  tick[t].under.since < x.doc.sleep.start
    BY <1>5 DEF TicksStand, After
  <2>1. TickInOrder(tick[t])
    BY DEF PromiseInv
  <2>2. CASE x.cmd = "sleep-at"
    BY <1>1, <1>3, <2>1, <2>2, SpanFields, PromiseFields DEF PromiseFits, TickInOrder
  <2>3. CASE x.cmd # "sleep-at"
    BY <1>1, <2>1, <2>3 DEF TickInOrder, SleepFits, After
  <2> QED BY <2>2, <2>3
<1> QED BY <1>6, <1>7, <1>8

\* So does every other step.
LEMMA RecordStands ==
  ASSUME IInv, CommandInv, PromiseInv, [Next]_vars
  PROVE  HoldStands(record', clock') /\ SleepStands(record', clock') /\ TicksStand(record')
<1>1. clock \in Nat /\ clock' \in Nat /\ clock <= clock'
  BY ClockGrows
<1>2. HoldStands(record, clock) /\ SleepStands(record, clock) /\ TicksStand(record)
  BY DEF PromiseInv, HoldKept, HoldStands, SleepsLater, SleepStands, TicksStand, TickInOrder
<1>3. NoRecord.hold.state = "none" /\ NoRecord.sleep.state = "none"
  BY DEF NoRecord, NoSpan
<1>4. promise.until \in Nat /\ promise.since \in Nat \cup {NoTime} /\ NoTime = -1
  BY PromiseFields
<1>5. ASSUME NEW r \in Record, HoldStands(r, clock), SleepStands(r, clock)
      PROVE  HoldStands(r, clock') /\ SleepStands(r, clock')
  <2>1. r.hold \in OptionalSpan /\ r.sleep \in OptionalSpan
    BY DEF Record
  <2>2. r.hold.start \in Nat /\ r.hold.end \in Nat /\ r.sleep.end \in Nat
    BY <2>1, SpanFields
  <2> QED BY <1>1, <1>4, <1>5, <2>2 DEF HoldStands, SleepStands
<1>6. record \in Record /\ record' \in Record
  BY NextIInv DEF IInv, TypeOK, WorldTypeOK
<1>7. CASE UNCHANGED record
  BY <1>2, <1>5, <1>6, <1>7
<1>8. CASE record' = NoRecord /\ promise.until <= clock
  BY <1>1, <1>3, <1>4, <1>8 DEF HoldStands, SleepStands, TicksStand, After
<1>9. CASE Collects
  <2>1. promise.until <= clock
    <3>1. record.hold \in OptionalSpan
      BY <1>6 DEF Record
    <3>2. /\ record.hold.end \in Nat
          /\ record.hold.state = "awake" => record.hold # NoSpan
      BY <3>1, SpanFields
    <3> QED BY <1>1, <1>2, <1>4, <1>9, <3>2 DEF HoldStands, Collects, Live
  <2> QED BY <1>8, <1>9, <2>1 DEF Collects
<1>10. ASSUME NEW s \in Sessions, Clears(s)
       PROVE  record' = NoRecord /\ promise.until <= clock
  <2>1. sess[s] \in Session /\ Fits(sess[s]) /\ PromiseFits(sess[s])
    BY SessionFields DEF CommandInv, InOrder, PromiseInv
  <2>2. sess[s].cmd \in {"sleep", "cancel"}
    BY <1>10, <2>1, StepOwner DEF Clears, SleepSteps
  <2> QED BY <1>1, <1>10, <2>1, <2>2 DEF Clears, PromiseFits
<1>11. ASSUME NEW s \in Sessions, Writes(s)
       PROVE  HoldStands(record', clock') /\ SleepStands(record', clock')
              /\ TicksStand(record')
  BY <1>5, <1>6, <1>11, WrittenStands
<1> QED BY <1>7, <1>8, <1>9, <1>10, <1>11, RecordStep

\* A promise that is made anew extends the one that stands.
LEMMA GrantedFields ==
  ASSUME IInv, NEW s \in Sessions, NEW u \in Nat,
         promise' = Promised(u, sess[s].now)
  PROVE  /\ promise'.epoch = promise.epoch
         /\ promise'.until \in {promise.until, u}
         /\ promise'.until >= promise.until /\ promise'.until >= u
         /\ promise'.since \in {promise.since, sess[s].now}
         /\ promise'.since >= promise.since
<1>1. /\ promise'.epoch = promise.epoch
      /\ promise'.until = Later(promise.until, u)
      /\ promise'.since = Later(promise.since, sess[s].now)
  BY SessionFields DEF Promised, Promise
<1>2. sess[s].now \in Nat
  BY SessionFields
<1> QED BY <1>1, <1>2, PromiseFields DEF Later

\* A command takes a promise back under an epoch that no tick has seen.
Retracts ==
  /\ promise'.epoch = issued + 1 /\ issued' = issued + 1
  /\ promise'.until \in {0, promise.until}
  /\ promise'.since = NoTime

\* A step leaves the promise as it is, makes one or takes it back.
LEMMA PromiseStep ==
  ASSUME IInv, CommandInv, [Next]_vars
  PROVE  \/ UNCHANGED promise /\ issued <= issued'
         \/ \E s \in Sessions : Grants(s) /\ UNCHANGED <<clock, issued>>
         \/ Retracts /\ UNCHANGED clock
<1>1. issued \in Nat /\ promise \in Promise
  BY PromiseFields DEF IInv, TypeOK, WorldTypeOK
<1>2. CASE Advance \/ Emit \/ OrphanEnds \/ UNCHANGED vars
  BY <1>1, <1>2 DEF Advance, Emit, ReportActivity, OrphanEnds, vars, worldVars, cliVars
<1>3. ASSUME NEW t \in Ticks, TickStep(t) \/ AbortTick(t), UNCHANGED cliVars
      PROVE  UNCHANGED promise /\ issued <= issued'
  <2>1. UNCHANGED promise
    BY <1>3 DEF TickStep, StartTick, GetInstance, ReadState, ReadActivity, SuspendVm,
                WaitVmOp, Cleanup, AbortTick, worldVars
  <2> QED BY <1>1, <1>3, <2>1 DEF cliVars
<1>4. ASSUME NEW s \in Sessions, SessionStep(s) \/ SessionFault(s)
      PROVE  \/ UNCHANGED promise /\ issued <= issued'
             \/ Grants(s) /\ UNCHANGED <<clock, issued>>
  BY <1>1, <1>4, ShellPromises
<1>5. ASSUME NEW s \in Sessions, StartCommand(s)
      PROVE  \/ UNCHANGED promise /\ issued <= issued'
             \/ Retracts /\ UNCHANGED clock
  <2>1. PICK cmd \in Commands : promise' = Retracted(cmd)
    BY <1>5 DEF StartCommand
  <2>2. issued' = issued + 1 /\ UNCHANGED clock
    BY <1>5 DEF StartCommand
  <2> QED BY <1>1, <2>1, <2>2 DEF Retracted, Retracts, NoPromise, Promise
<1> QED BY <1>2, <1>3, <1>4, <1>5, StepOf

\* While the epoch is the same a promise only grows, and epochs are not used twice.
LEMMA PromiseGrows ==
  ASSUME IInv, CommandInv, PromiseInv, [Next]_vars
  PROVE  /\ promise'.epoch <= issued'
         /\ promise.epoch <= promise'.epoch
         /\ promise'.epoch = promise.epoch =>
              promise.until <= promise'.until /\ promise.since <= promise'.since
<1>1. /\ promise.until \in Nat /\ promise.epoch \in Nat /\ issued \in Nat
      /\ promise.since \in Nat \cup {NoTime} /\ NoTime = -1
      /\ promise.epoch <= issued
  BY PromiseFields DEF PromiseInv
<1>2. promise' \in Promise /\ issued' \in Nat
  BY NextIInv, CLIAssumption DEF IInv, TypeOK, WorldTypeOK, CLITypeOK
<1>3. ASSUME NEW s \in Sessions, Grants(s)
      PROVE  promise'.epoch = promise.epoch /\ promise.until <= promise'.until
             /\ promise.since <= promise'.since
  <2>1. PICK u \in Nat : promise' = Promised(u, sess[s].now)
    BY <1>3 DEF Grants
  <2>2. promise'.until \in Nat /\ promise'.since \in Nat \cup {NoTime}
    BY <1>2 DEF Promise
  <2> QED BY <1>1, <2>1, <2>2, GrantedFields
<1>4. CASE UNCHANGED promise /\ issued <= issued'
  BY <1>1, <1>2, <1>4
<1>5. CASE \E s \in Sessions : Grants(s) /\ UNCHANGED <<clock, issued>>
  BY <1>1, <1>2, <1>3, <1>5
<1>6. CASE Retracts
  BY <1>1, <1>6 DEF Retracts
<1> QED BY <1>4, <1>5, <1>6, PromiseStep

\* HoldKept and SleepsLater are inductive in their company.
LEMMA PromiseKept ==
  ASSUME IInv, CommandInv, PromiseInv, [Next]_vars
  PROVE  HoldKept' /\ SleepsLater'
<1>1. HoldStands(record', clock') /\ SleepStands(record', clock')
  BY RecordStands
<1>2. /\ clock \in Nat /\ clock' \in Nat /\ promise.until \in Nat
      /\ promise.since \in Nat \cup {NoTime} /\ NoTime = -1
  BY ClockGrows, PromiseFields
<1>3. record'.hold \in OptionalSpan /\ record'.sleep \in OptionalSpan
  BY NextIInv DEF IInv, TypeOK, WorldTypeOK, Record
<1>4. record'.hold.end \in Nat /\ record'.sleep.start \in Nat
  BY <1>3, SpanFields
<1>5. CASE UNCHANGED promise
  BY <1>1, <1>5 DEF HoldKept, HoldStands, SleepsLater, SleepStands
<1>6. ASSUME NEW s \in Sessions, Grants(s), UNCHANGED clock
      PROVE  HoldKept' /\ SleepsLater'
  <2>1. PICK u \in Nat :
          /\ promise' = Promised(u, sess[s].now)
          /\ clock < u => /\ record'.hold.state = "awake"
                          /\ record'.hold.start <= clock
                          /\ record'.hold.end >= u
    BY <1>6 DEF Grants
  <2>2. /\ promise'.until \in {promise.until, u}
        /\ promise'.since \in {promise.since, sess[s].now}
    BY <2>1, GrantedFields
  <2>3. HoldKept'
    BY <1>1, <1>6, <2>1, <2>2 DEF HoldKept, HoldStands
  <2>4. SleepsLater'
    BY <1>1, <1>6, <2>2 DEF SleepsLater, SleepStands, Grants
  <2> QED BY <2>3, <2>4
<1>7. CASE Retracts /\ UNCHANGED clock
  <2>1. promise'.until \in {0, promise.until} /\ promise'.since = NoTime
    BY <1>7 DEF Retracts
  <2> QED BY <1>1, <1>2, <1>4, <2>1 DEF HoldKept, HoldStands, SleepsLater
<1> QED BY <1>5, <1>6, <1>7, PromiseStep

-----------------------------------------------------------------------------
(* One shell.                                                              *)

OneShell == \A s, u \in Sessions : s = u

\* A command that has just begun has neither loaded nor promised anything.
LEMMA BegunFits ==
  ASSUME IInv, CommandInv, PromiseInv, NEW s \in Sessions, StartCommand(s)
  PROVE  (Current(sess[s]) /\ PromiseFits(sess[s]))'
<1>1. PICK cmd \in Commands :
        /\ \E d \in HoldDurations(cmd), span \in SleepSpans(cmd) :
             sess' = [sess EXCEPT ![s] =
               [IdleSession EXCEPT !.pc = FirstStep(cmd), !.cmd = cmd,
                                   !.now = clock, !.d = d, !.span = span]]
        /\ promise' = Retracted(cmd)
  BY DEF StartCommand
<1>2. sess'[s].pc \in {"sleepStatus", "clear", "load"} /\ sess'[s].cmd = cmd
  BY <1>1, ArgumentTypes DEF IInv, TypeOK, CLITypeOK, IdleSession
<1>3. /\ cmd \in {"sleep", "cancel"} => promise'.until = 0
      /\ cmd \in {"sleep", "cancel", "sleep-at"} => promise'.since = NoTime
  BY <1>1 DEF Retracted, NoPromise, IInv, TypeOK, WorldTypeOK, Promise
<1> QED BY <1>2, <1>3 DEF Current, PromiseFits, Saves, Waking

\* A command that goes on stays current, and keeps to what it has promised.
LEMMA StepFits ==
  ASSUME IInv, CommandInv, PromiseInv, NEW s \in Sessions,
         SessionStep(s) \/ SessionFault(s), [Next]_vars
  PROVE  (Current(sess[s]) /\ PromiseFits(sess[s]))'
<1> DEFINE x == sess[s]
           y == sess'[s]
<1>1. Moves(x, y)
  BY ShellMoves
<1>2. UNCHANGED record \/ y.pc \in {"idle", "status", "wait"}
  BY ShellRecord
<1>3. PromiseFits(x) /\ x.now \in Nat /\ x.d \in Nat
  BY SessionFields DEF PromiseInv
<1>4. Current(sess[s])'
  BY <1>1, <1>2 DEF Moves, Current, Saves
<1>5. CASE UNCHANGED promise /\ (y.pc \in Waking => x.pc \in Waking)
  <2>1. PromiseFits(sess[s])'
    BY <1>1, <1>3, <1>5 DEF Moves, PromiseFits
  <2> QED BY <1>4, <2>1
<1>6. CASE Grants(s)
  <2>1. PICK u \in Nat :
          /\ promise' = Promised(u, x.now)
          /\ y.pc \in Waking /\ x.d > 0 => u >= x.now + x.d
    BY <1>6 DEF Grants
  <2>2. promise'.until >= u /\ promise'.until \in Nat
    BY <2>1, GrantedFields, NextIInv, PromiseFields DEF IInv, TypeOK, WorldTypeOK, Promise
  <2>3. x.cmd \in {"wake", "keep-awake"}
    BY <1>6 DEF Grants
  <2>4. PromiseFits(sess[s])'
    BY <1>1, <1>3, <2>1, <2>2, <2>3 DEF Moves, PromiseFits
  <2> QED BY <1>4, <2>4
<1> QED BY <1>5, <1>6, ShellPromises

\* What anybody else does leaves the command current.
LEMMA OthersFit ==
  ASSUME IInv, CommandInv, PromiseInv, UNCHANGED <<sess, promise>>, NEW s \in Sessions,
         clock' \in Nat, clock <= clock', UNCHANGED record \/ Collects
  PROVE  (Current(sess[s]) /\ PromiseFits(sess[s]))'
<1>1. /\ Current(sess[s]) /\ PromiseFits(sess[s]) /\ clock \in Nat
      /\ sess[s].base.sleep \in OptionalSpan /\ sess[s].base.hold \in OptionalSpan
  BY SessionFields DEF PromiseInv, Record
<1>2. \A sp \in OptionalSpan : ~Live(sp, clock) => ~Live(sp, clock')
  BY <1>1, SpanFields DEF Live
<1>3. PromiseFits(sess[s])'
  BY <1>1 DEF PromiseFits
<1>4. Current(sess[s])'
  BY <1>1, <1>2 DEF Current, Collects
<1> QED BY <1>3, <1>4

\* Every step leaves the one shell current.
LEMMA ShellsFit ==
  ASSUME OneShell, IInv, CommandInv, PromiseInv, [Next]_vars, NEW s \in Sessions
  PROVE  (Current(sess[s]) /\ PromiseFits(sess[s]))'
<1>1. clock' \in Nat /\ clock <= clock'
  BY ClockGrows
<1>2. CASE Advance \/ Emit \/ OrphanEnds \/ UNCHANGED vars
  <2>1. UNCHANGED <<sess, promise, record>>
    BY <1>2 DEF Advance, Emit, ReportActivity, OrphanEnds, vars, worldVars, storeVars, cliVars
  <2> QED BY <1>1, <2>1, OthersFit
<1>3. ASSUME NEW t \in Ticks, TickStep(t) \/ AbortTick(t), UNCHANGED cliVars
      PROVE  (Current(sess[s]) /\ PromiseFits(sess[s]))'
  <2>1. UNCHANGED <<sess, promise>>
    BY <1>3 DEF TickStep, StartTick, GetInstance, ReadState, ReadActivity, SuspendVm,
                WaitVmOp, Cleanup, AbortTick, worldVars, cliVars
  <2>2. UNCHANGED record \/ Collects
    BY <1>3, TickRecord
  <2> QED BY <1>1, <2>1, <2>2, OthersFit
<1>4. ASSUME NEW u \in Sessions, StartCommand(u) \/ SessionStep(u) \/ SessionFault(u)
      PROVE  (Current(sess[s]) /\ PromiseFits(sess[s]))'
  <2>1. u = s
    BY DEF OneShell
  <2> QED BY <1>4, <2>1, BegunFits, StepFits
<1> QED BY <1>2, <1>3, <1>4, StepOf

-----------------------------------------------------------------------------
(* The ticks.                                                              *)

\* What a command is about to save rests on the record it rested on before, or on
\* the record there is.
LEMMA SavesRest ==
  ASSUME IInv, CommandInv, [Next]_vars, NEW s \in Sessions, sess'[s].pc \in Saves
  PROVE  sess'[s] = sess[s] \/ sess'[s].base = record
<1>1. CASE UNCHANGED sess
  BY <1>1
<1>2. ASSUME NEW u \in Sessions, StartCommand(u) \/ SessionStep(u) \/ SessionFault(u)
      PROVE  sess'[s] = sess[s] \/ sess'[s].base = record
  <2>1. CASE u # s
    <3>1. PICK x \in Session : sess' = [sess EXCEPT ![u] = x]
      BY <1>2, ShellInOrder
    <3> QED BY <2>1, <3>1 DEF IInv, TypeOK, CLITypeOK
  <2>2. CASE u = s /\ StartCommand(s)
    <3>1. PICK cmd \in Commands :
            \E d \in HoldDurations(cmd), span \in SleepSpans(cmd) :
               sess' = [sess EXCEPT ![s] =
                 [IdleSession EXCEPT !.pc = FirstStep(cmd), !.cmd = cmd,
                                     !.now = clock, !.d = d, !.span = span]]
      BY <2>2 DEF StartCommand
    <3>2. sess'[s].pc \in {"sleepStatus", "clear", "load"}
      BY <3>1, ArgumentTypes DEF IInv, TypeOK, CLITypeOK, IdleSession
    <3> QED BY <3>2 DEF Saves
  <2>3. CASE u = s /\ (SessionStep(s) \/ SessionFault(s))
    BY <2>3, ShellMoves DEF Moves
  <2> QED BY <1>2, <2>1, <2>2, <2>3
<1>3. Advance \/ Emit \/ OrphanEnds \/ UNCHANGED cliVars \/ UNCHANGED vars => UNCHANGED sess
  BY DEF Advance, Emit, OrphanEnds, vars, cliVars
<1> QED BY <1>1, <1>2, <1>3, StepOf

\* A tick that makes no step stays in order whatever the others do.
LEMMA TickKept ==
  ASSUME IInv, CommandInv, PromiseInv, [Next]_vars, NEW t \in Ticks, tick'[t] = tick[t]
  PROVE  TickInOrder(tick[t])'
<1> DEFINE y == tick[t]
<1>1. /\ TickInOrder(y) /\ y.under.epoch \in Nat /\ y.under.until \in Nat
      /\ y.under.since \in Nat \cup {NoTime} /\ NoTime = -1
      /\ promise.epoch \in Nat /\ promise.until \in Nat
      /\ promise.since \in Nat \cup {NoTime}
  BY PromiseFields DEF PromiseInv
<1>2. /\ promise.epoch <= promise'.epoch
      /\ promise'.epoch = promise.epoch =>
           promise.until <= promise'.until /\ promise.since <= promise'.since
  BY PromiseGrows
<1>3. clock \in Nat /\ clock' \in Nat /\ clock <= clock'
  BY ClockGrows
<1>4. /\ promise'.epoch \in Nat /\ promise'.until \in Nat
      /\ promise'.since \in Nat \cup {NoTime}
  BY NextIInv DEF IInv, TypeOK, WorldTypeOK, Promise
<1>5. y.under.epoch <= promise'.epoch
  BY <1>1, <1>2, <1>4 DEF TickInOrder
<1>6. y.under.epoch = promise'.epoch => SamePromise(y) /\ promise'.epoch = promise.epoch
  BY <1>1, <1>2, <1>4 DEF TickInOrder, SamePromise
<1>7. y.under.epoch = promise'.epoch =>
        y.under.until <= promise'.until /\ y.under.since <= promise'.since
  BY <1>1, <1>2, <1>4, <1>6 DEF TickInOrder
<1>8. ASSUME y.under.epoch = promise'.epoch, y.pc \in {"getInstance", "readState"}
      PROVE  /\ After(record'.sleep, y)
             /\ \A s \in Sessions : sess'[s].pc \in Saves => After(sess'[s].base.sleep, y)
  <2>1. After(record'.sleep, y)
    BY <1>6, <1>8, RecordStands DEF TicksStand
  <2>2. After(record.sleep, y)
    BY <1>1, <1>6, <1>8 DEF TickInOrder
  <2>3. \A s \in Sessions : sess[s].pc \in Saves => After(sess[s].base.sleep, y)
    BY <1>1, <1>6, <1>8 DEF TickInOrder
  <2> QED BY <2>1, <2>2, <2>3, SavesRest
<1>9. ASSUME y.under.epoch = promise'.epoch, clock' < y.under.until
      PROVE  /\ y.pc = "readActivity" => y.now < y.doc.hold.start
             /\ y.pc = "suspendVm" =>
                  \/ y.action = "scheduled-sleep" /\ y.under.since < y.doc.sleep.start
                  \/ y.now < y.doc.hold.start
  BY <1>1, <1>3, <1>6, <1>9 DEF TickInOrder
<1> QED BY <1>5, <1>7, <1>8, <1>9 DEF TickInOrder, SamePromise, After

\* A tick that goes on without reading the document keeps what it has read.
LEMMA TickGoesOn ==
  ASSUME NEW y \in Tick, TickInOrder(y), NEW z \in Tick,
         z.now = y.now, z.under = y.under,
         \/ z.pc \notin {"getInstance", "readState", "readActivity", "suspendVm"}
         \/ y.pc = "getInstance" /\ z.pc = "readState"
         \/ y.pc = "readActivity" /\ z.pc = "suspendVm" /\ z.doc = y.doc
  PROVE  TickInOrder(z)
BY DEF TickInOrder, SamePromise, After

\* An execution that has not begun is in order.
LEMMA IdleTickInOrder == ASSUME IInv PROVE TickInOrder(IdleTick)
<1>1. /\ IdleTick.pc = "idle" /\ IdleTick.under.epoch = 0 /\ IdleTick.under.until = 0
      /\ IdleTick.under.since = NoTime
  BY DEF IdleTick, NoPromise
<1> QED BY <1>1, PromiseFields DEF TickInOrder

\* A tick begins under the promise that stands, with no sleep on record, or about to
\* be, that the promise has called off.
LEMMA StartTickInOrder ==
  ASSUME IInv, PromiseInv
  PROVE  TickInOrder([IdleTick EXCEPT !.pc = "getInstance", !.now = clock,
                                      !.under = promise])
<1> DEFINE z == [IdleTick EXCEPT !.pc = "getInstance", !.now = clock, !.under = promise]
<1>1. z.pc = "getInstance" /\ z.now = clock /\ z.under = promise
  BY DEF IdleTick
<1> HIDE DEF z
<1>2. /\ record.sleep \in OptionalSpan /\ clock \in Nat
      /\ \A s \in Sessions : sess[s].base.sleep \in OptionalSpan
  BY SessionFields, PromiseFields DEF IInv, TypeOK, WorldTypeOK, Record
<1>3. After(record.sleep, z)
  BY <1>1, <1>2, SpanFields DEF PromiseInv, SleepsLater, After, Active
<1>4. ASSUME NEW s \in Sessions, sess[s].pc \in Saves
      PROVE  After(sess[s].base.sleep, z)
  BY <1>1, <1>2, <1>3, <1>4, SpanFields DEF PromiseInv, Current, After, Active, Live
<1>5. TickInOrder(z)
  BY <1>1, <1>3, <1>4, PromiseFields DEF TickInOrder, SamePromise
<1> QED BY <1>5 DEF z

\* A tick that reads the document under a promise finds the hold on record, and no
\* sleep that the promise has called off.
LEMMA ReadStateInOrder ==
  ASSUME IInv, PromiseInv, NEW t \in Ticks, tick[t].pc = "readState",
         NEW z \in Tick, z.now = tick[t].now, z.under = tick[t].under, z.doc = record,
         z.action = DecideOnState(z.now, record),
         z.pc = IF z.action = "scheduled-sleep" THEN "suspendVm"
                ELSE IF z.action = "none" THEN "readActivity" ELSE "cleanup"
  PROVE  TickInOrder(z)
<1> DEFINE y == tick[t]
<1>1. /\ TickInOrder(y) /\ HoldKept /\ y.now \in Nat /\ clock \in Nat
      /\ y.under.until \in Nat /\ promise.until \in Nat
      /\ record.sleep \in OptionalSpan /\ record.hold \in OptionalSpan
  BY PromiseFields DEF PromiseInv, IInv, TypeOK, WorldTypeOK, Record
<1>2. y.now <= clock
  BY DEF IInv, SnapshotDated
<1>3. /\ record.hold.start \in Nat /\ record.hold.end \in Nat
      /\ record.hold.state = "awake" => record.hold # NoSpan
  BY <1>1, SpanFields
<1>4. z.pc = "suspendVm" => z.action = "scheduled-sleep"
  OBVIOUS
<1>5. z.pc = "readActivity" => z.action = "none"
  OBVIOUS
<1>6. ASSUME SamePromise(z), z.pc = "suspendVm"
      PROVE  z.under.since < z.doc.sleep.start
  <2>1. After(record.sleep, y)
    BY <1>1, <1>6 DEF TickInOrder, SamePromise
  <2>2. record.sleep.state = "asleep" /\ Active(record.sleep, y.now)
    BY <1>4, <1>6 DEF DecideOnState, SpanState, Active
  <2> QED BY <2>1, <2>2 DEF After
<1>7. ASSUME SamePromise(z), z.pc = "readActivity", clock < z.under.until
      PROVE  z.now < z.doc.hold.start
  <2>1. record.hold.state = "awake" /\ clock < record.hold.end
    BY <1>1, <1>3, <1>7 DEF TickInOrder, SamePromise, HoldKept
  <2>2. SpanState(record.hold, y.now) # "awake"
    BY <1>5, <1>7 DEF DecideOnState
  <2> QED BY <1>1, <1>2, <1>3, <2>1, <2>2 DEF SpanState
<1>8. z.under.epoch <= promise.epoch /\ (SamePromise(z) => /\ z.under.until <= promise.until
                                                           /\ z.under.since <= promise.since)
  BY <1>1 DEF TickInOrder, SamePromise
<1>9. z.pc \in {"suspendVm", "readActivity", "cleanup"}
  OBVIOUS
<1> QED BY <1>4, <1>6, <1>7, <1>8, <1>9 DEF TickInOrder

\* Each step of a tick keeps it in order.
LEMMA TickStepInOrder ==
  ASSUME IInv, CommandInv, PromiseInv, NEW t \in Ticks, TickStep(t) \/ AbortTick(t),
         UNCHANGED cliVars
  PROVE  TickInOrder(tick[t])'
<1> DEFINE y == tick[t]
<1>1. /\ tick \in [Ticks -> Tick] /\ y \in Tick /\ TickInOrder(y) /\ clock \in Nat
      /\ lastStart \in Nat \cup {NoTime} /\ lastActive \in Nat \cup {NoTime}
      /\ record \in Record
  BY DEF IInv, TypeOK, WorldTypeOK, ReconcilerTypeOK, PromiseInv
<1>2. UNCHANGED <<sess, promise, clock>>
  BY DEF TickStep, StartTick, GetInstance, ReadState, ReadActivity, SuspendVm,
         WaitVmOp, Cleanup, AbortTick, worldVars, cliVars
<1>3. ASSUME NEW z, tick' = [tick EXCEPT ![t] = z], TickInOrder(z), UNCHANGED record
      PROVE  TickInOrder(tick[t])'
  <2>1. tick'[t] = z
    BY <1>1, <1>3
  <2> QED BY <1>2, <1>3, <2>1 DEF TickInOrder, SamePromise, After
<1>4. CASE StartTick(t)
  BY <1>3, <1>4, StartTickInOrder DEF StartTick, worldVars, storeVars
<1>5. CASE GetInstance(t)
  <2> DEFINE z == [y EXCEPT !.pc = "readState", !.lastStart = lastStart]
  <2>1. z \in Tick /\ z.now = y.now /\ z.under = y.under /\ z.pc = "readState"
    BY <1>1 DEF Tick, TickPCs
  <2>2. tick' \in {[tick EXCEPT ![t] = z], [tick EXCEPT ![t] = IdleTick]}
        /\ y.pc = "getInstance" /\ UNCHANGED record
    BY <1>5 DEF GetInstance, worldVars, storeVars
  <2> HIDE DEF z
  <2>3. TickInOrder(z)
    BY <1>1, <2>1, <2>2, TickGoesOn
  <2> QED BY <1>3, <2>2, <2>3, IdleTickInOrder
<1>6. CASE ReadState(t)
  <2> DEFINE action == DecideOnState(y.now, record)
             z == [y EXCEPT !.doc = record, !.action = action,
                            !.pc = IF action = "scheduled-sleep" THEN "suspendVm"
                                   ELSE IF action = "none"       THEN "readActivity"
                                   ELSE "cleanup"]
  <2>1. action \in Actions
    BY DEF DecideOnState, Actions, Reasons
  <2>2. z \in Tick /\ z.now = y.now /\ z.under = y.under /\ z.doc = record
        /\ z.action = action
        /\ z.pc = IF action = "scheduled-sleep" THEN "suspendVm"
                  ELSE IF action = "none" THEN "readActivity" ELSE "cleanup"
    BY <1>1, <2>1 DEF Tick, TickPCs
  <2>3. tick' = [tick EXCEPT ![t] = z] /\ y.pc = "readState" /\ UNCHANGED record
    BY <1>6 DEF ReadState, worldVars, storeVars
  <2> HIDE DEF z
  <2>4. TickInOrder(z)
    BY <2>2, <2>3, ReadStateInOrder
  <2> QED BY <1>3, <2>3, <2>4
<1>7. CASE ReadActivity(t)
  <2> DEFINE action == DecideIdle(y.now, ActivityClamp(lastActive, y.now), y.lastStart)
             z == [y EXCEPT !.lastActive = lastActive, !.action = action,
                            !.pc = IF action \in SuspendReasons THEN "suspendVm"
                                   ELSE "cleanup"]
  <2>1. action \in Actions
    BY DEF DecideIdle, Actions, Reasons
  <2>2. z \in Tick /\ z.now = y.now /\ z.under = y.under /\ z.doc = y.doc
        /\ z.pc \in {"suspendVm", "cleanup"}
    BY <1>1, <2>1 DEF Tick, TickPCs
  <2>3. tick' = [tick EXCEPT ![t] = z] /\ y.pc = "readActivity" /\ UNCHANGED record
    BY <1>7 DEF ReadActivity, worldVars, storeVars
  <2> HIDE DEF z
  <2>4. TickInOrder(z)
    BY <1>1, <2>2, <2>3, TickGoesOn
  <2> QED BY <1>3, <2>3, <2>4
<1>8. CASE SuspendVm(t) \/ WaitVmOp(t)
  <2> DEFINE At(pc) == [y EXCEPT !.pc = pc]
  <2>1. ASSUME NEW pc \in {"waitVmOp", "cleanup"} PROVE TickInOrder(At(pc))
    <3>1. At(pc) \in Tick /\ At(pc).now = y.now /\ At(pc).under = y.under /\ At(pc).pc = pc
      BY <1>1 DEF Tick, TickPCs
    <3> HIDE DEF At
    <3> QED BY <1>1, <3>1, TickGoesOn
  <2>2. UNCHANGED record
    BY <1>8 DEF SuspendVm, WaitVmOp, storeVars
  <2> QED BY <1>3, <1>8, <2>1, <2>2, IdleTickInOrder DEF SuspendVm, WaitVmOp
<1>9. CASE Cleanup(t) \/ AbortTick(t)
  <2>1. tick'[t] = IdleTick
    BY <1>1, <1>9 DEF Cleanup, AbortTick
  <2>2. IdleTick.pc = "idle" /\ TickInOrder(IdleTick)
    BY IdleTickInOrder DEF IdleTick
  <2> QED BY <1>2, <2>1, <2>2 DEF TickInOrder, SamePromise
<1> QED BY <1>4, <1>5, <1>6, <1>7, <1>8, <1>9 DEF TickStep

\* So does every step.
LEMMA TicksInOrder ==
  ASSUME IInv, CommandInv, PromiseInv, [Next]_vars, NEW t \in Ticks
  PROVE  TickInOrder(tick[t])'
<1>1. CASE UNCHANGED tick
  BY <1>1, TickKept
<1>2. ASSUME NEW u \in Ticks, TickStep(u) \/ AbortTick(u), UNCHANGED cliVars
      PROVE  TickInOrder(tick[t])'
  <2>1. CASE u = t
    BY <1>2, <2>1, TickStepInOrder
  <2>2. CASE u # t
    <3>1. \E z : tick' = [tick EXCEPT ![u] = z]
      BY <1>2 DEF TickStep, StartTick, GetInstance, ReadState, ReadActivity, SuspendVm,
                  WaitVmOp, Cleanup, AbortTick
    <3>2. tick'[t] = tick[t]
      BY <2>2, <3>1 DEF IInv, TypeOK, ReconcilerTypeOK
    <3> QED BY <3>2, TickKept
  <2> QED BY <2>1, <2>2
<1>3. Advance \/ Emit \/ OrphanEnds \/ UNCHANGED vars => UNCHANGED tick
  BY DEF Advance, Emit, OrphanEnds, vars
<1> QED BY <1>1, <1>2, <1>3, StepOf

\* The invariant for one shell is inductive.
LEMMA NextPromiseInv ==
  ASSUME OneShell, IInv, CommandInv, PromiseInv, [Next]_vars
  PROVE  PromiseInv'
<1>1. (promise.epoch <= issued)'
  BY PromiseGrows
<1>2. HoldKept' /\ SleepsLater'
  BY PromiseKept
<1>3. (\A s \in Sessions : Current(sess[s]) /\ PromiseFits(sess[s]))'
  BY ShellsFit
<1>4. (\A t \in Ticks : TickInOrder(tick[t]))'
  BY TicksInOrder
<1> QED BY <1>1, <1>2, <1>3, <1>4 DEF PromiseInv

\* The initial states satisfy it.
LEMMA InitPromiseInv == Init => PromiseInv
<1> SUFFICES ASSUME Init PROVE PromiseInv
  OBVIOUS
<1>1. IInv
  BY InitIInv
<1>2. /\ promise.until = 0 /\ promise.since = NoTime /\ promise.epoch = 0
      /\ issued = 0 /\ clock = 0 /\ record.sleep.state = "none"
  BY DEF Init, WorldInit, CLIInit, NoPromise, NoRecord, NoSpan
<1>3. IdleSession.pc = "idle" /\ IdleSession.cmd = "none"
  BY DEF IdleSession
<1>4. \A s \in Sessions : Current(sess[s]) /\ PromiseFits(sess[s])
  BY <1>3 DEF Init, CLIInit, Current, PromiseFits, Saves, Waking
<1>5. \A t \in Ticks : TickInOrder(tick[t])
  BY <1>1, IdleTickInOrder DEF Init, ReconcilerInit
<1>6. HoldKept /\ SleepsLater
  BY <1>2 DEF HoldKept, SleepsLater
<1> QED BY <1>2, <1>4, <1>5, <1>6 DEF PromiseInv

\* With one shell and any number of ticks, every state bears out what the shell has
\* last reported.
THEOREM PromisesInOrder == OneShell /\ Spec => [](IInv /\ CommandInv /\ PromiseInv)
<1> SUFFICES ASSUME OneShell PROVE Spec => [](IInv /\ CommandInv /\ PromiseInv)
  OBVIOUS
<1>1. Init => IInv /\ CommandInv /\ PromiseInv
  BY InitIInv, InitCommandInv, InitPromiseInv
<1>2. IInv /\ CommandInv /\ PromiseInv /\ [Next]_vars => (IInv /\ CommandInv /\ PromiseInv)'
  BY NextIInv, NextCommandInv, NextPromiseInv
<1> QED BY <1>1, <1>2, PTL DEF Spec

\* A hold that the shell reported stays on record for as long as it reported, until
\* the shell itself takes it back: no tick, top-up, garbage collection or failure
\* shortens or loses it.
THEOREM ReportedHoldKept == OneShell /\ Spec => []HoldKept
<1>1. PromiseInv => HoldKept
  BY DEF PromiseInv
<1> QED BY <1>1, PromisesInOrder, PTL

\* A tick that began under the reported hold suspends the VM only for a sleep that
\* came into effect later, or when it read its clock before, and the document after,
\* the hold was replaced; any number of ticks may be under way.
THEOREM ReportedHoldHonoured == OneShell /\ Spec => []PromiseHonoured
<1>1. IInv /\ PromiseInv => PromiseHonoured
  <2> SUFFICES ASSUME IInv, PromiseInv, NEW t \in Ticks, tick[t].pc = "suspendVm",
                      UnderPromise(t)
               PROVE  SleepSincePromise(t) \/ tick[t].doc.hold.start > tick[t].now
    BY DEF PromiseHonoured
  <2>1. TickInOrder(tick[t])
    BY DEF PromiseInv
  <2>2. /\ tick[t].under.since \in Nat \cup {NoTime} /\ NoTime = -1 /\ tick[t].now \in Nat
        /\ tick[t].doc.sleep \in OptionalSpan /\ tick[t].doc.hold \in OptionalSpan
    BY PromiseFields DEF Record
  <2>3. tick[t].doc.sleep.start \in Nat /\ tick[t].doc.hold.start \in Nat
    BY <2>2, SpanFields
  <2> QED BY <2>1, <2>2, <2>3 DEF TickInOrder, SamePromise, UnderPromise, SleepSincePromise
<1> QED BY <1>1, PromisesInOrder, PTL

\* The VM is resumed or started only once the hold that protects it is on record and
\* reported (App.Wake and App.KeepAwake save, then wake).
THEOREM NeverWokenUnprotected == OneShell /\ Spec => []WokenUnderHold
<1>1. PromiseInv => WokenUnderHold
  BY DEF PromiseInv, PromiseFits, WokenUnderHold, Waking
<1> QED BY <1>1, PromisesInOrder, PTL
=============================================================================
