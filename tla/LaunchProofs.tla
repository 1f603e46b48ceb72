---------------------------- MODULE LaunchProofs ----------------------------
(***************************************************************************)
(* The commands that hand over, for every configuration, every set of      *)
(* failures of a wake, any timeouts and any number of changes of the VM.   *)
(***************************************************************************)
EXTENDS Launch, TLAPS, FiniteSetTheorems

Commands == {"up", "ssh", "forward", "doctor", "doctor_wake"}

Doctors == {"doctor", "doctor_wake"}

PCs == {"load", "parse", "wake", "refused", "probe", "ended", "pause", "diagnose",
        "handover", "local", "instance", "activity", "reach", "remote", "exec", "exit"}

Probed == {"none", "refused", "timedout"}

Ends == {"none", "config", "args", "port", "nocapacity", "wake", "cancelled", "timeout",
         "notfound", "checks"}

Levels == {"none", "PASS", "FAIL", "WARN", "SKIP"}

Fields == {"pc", "cmd", "err", "cancelled", "connect", "wait", "deadline", "startedAt",
           "wakeAt", "waitErr", "tryErr", "lastErr", "hint", "seen", "level", "own",
           "inTime", "tried", "woken"}

IsProcess(q) ==
  /\ Fields \subseteq DOMAIN q
  /\ q.pc \in PCs /\ q.cmd \in Commands /\ q.err \in Ends /\ q.cancelled \in BOOLEAN
  /\ {q.connect, q.wait, q.deadline, q.startedAt, q.wakeAt} \subseteq Nat
  /\ q.waitErr \in {"none", "cancelled", "deadline"}
  /\ {q.lastErr, q.own, q.inTime} \subseteq Probed /\ q.tryErr \in Probed \cup {"killed"}
  /\ q.hint \in BOOLEAN /\ q.tried \in BOOLEAN /\ q.woken \in BOOLEAN
  /\ q.seen \in {"none", "RUNNING", "SUSPENDED"}
  /\ q.level \in [Checks -> Levels]

TypeOK ==
  /\ clock \in Nat
  /\ upSince \in {NotUp} \cup Nat
  /\ vm \in {"RUNNING", "SUSPENDED"}
  /\ IsProcess(p)

-----------------------------------------------------------------------------
\* Nothing happens to the clock before the wait, and the process begins with the
\* configuration it was called with.
Fresh ==
  /\ p.pc = "load" => input \in Invocations
  /\ p.pc \in {"load", "parse", "wake"} =>
       clock = 0 /\ ~p.tried /\ ~p.woken /\ p.waitErr = "none"
  /\ p.pc \in {"parse", "wake"} => p.wait > 0
  /\ p.pc = "refused" => p.tried /\ ~p.woken /\ p.waitErr = "none"

\* The wait ends with the deadline or with the context of the command.
Waits ==
  /\ InWait =>
       /\ p.tried /\ ~p.woken
       /\ p.waitErr = "cancelled" => p.cancelled
       /\ p.startedAt <= clock /\ clock <= p.deadline
  /\ p.pc = "pause" => clock <= p.wakeAt
  /\ p.pc = "diagnose" => p.tried /\ ~p.woken /\ p.waitErr = "deadline"
  /\ p.waitErr = "deadline" => clock = p.deadline

\* A VM that is up is found by the second probe from now, unless time runs out first.
Found ==
  /\ p.pc = "probe" /\ p.waitErr = "none" =>
       /\ clock <= p.startedAt + p.connect
       /\ upSince # NotUp => p.startedAt <= upSince + p.connect + WaitInterval
  /\ p.pc = "ended" /\ p.waitErr = "none" /\ upSince # NotUp =>
       clock <= upSince + p.connect
  /\ p.pc = "pause" /\ p.waitErr = "none" =>
       /\ p.wakeAt <= clock + WaitInterval
       /\ upSince # NotUp => p.wakeAt <= upSince + p.connect + WaitInterval
  /\ (InWait \/ p.pc = "diagnose") /\ p.waitErr = "deadline" /\ upSince # NotUp =>
       p.deadline <= upSince + 2 * p.connect + WaitInterval

\* The hint is given once, after the wait.
Hinted ==
  p.hint => /\ p.waitErr = "deadline" /\ ~p.woken
            /\ p.pc \in {"local", "instance", "activity", "reach", "remote", "exit"}

\* What the wait remembers of its probes.  No other probe follows one that ends at the
\* deadline: the pause after it outlasts the wait.
Causes ==
  /\ p.pc \in {"load", "parse", "wake"} =>
       p.lastErr = "none" /\ p.own = "none" /\ p.inTime = "none"
  /\ p.pc = "probe" /\ p.waitErr = "none" => p.lastErr = p.own /\ p.own = p.inTime
  /\ p.pc = "ended" /\ p.waitErr = "none" =>
       /\ p.tryErr = p.own
       /\ IF clock < p.deadline THEN p.own = p.inTime ELSE p.lastErr = p.inTime
  /\ p.pc = "pause" /\ p.waitErr = "none" =>
       p.lastErr = p.own /\ (p.own = p.inTime \/ p.wakeAt > p.deadline)
  /\ (InWait \/ p.pc = "diagnose") /\ p.waitErr = "deadline" =>
       p.lastErr \in {p.own, p.inTime}

\* Which command is where.
Roles ==
  /\ p.pc = "parse" => p.cmd = "forward"
  /\ p.pc \in {"wake", "refused", "probe", "ended", "pause", "diagnose",
             "handover"} =>
       p.cmd # "doctor"
  /\ p.pc = "handover" => p.woken
  /\ p.pc \in {"local", "instance", "activity", "reach", "remote"} => p.cmd \in Doctors

\* The checks doctor has answered so far.
Checked ==
  /\ p.pc \in {"load", "parse", "wake", "refused", "probe", "ended", "pause",
               "diagnose", "handover", "local"} => p.level["config"] = "none"
  /\ p.pc \in {"local", "instance", "activity", "reach", "remote"} =>
       (p.tried /\ ~p.woken => p.level["wake"] = "FAIL")
  /\ p.pc \in {"instance", "activity", "reach", "remote"} => p.level["local"] # "none"
  /\ p.pc \in {"activity", "reach", "remote"} => p.level["instance"] # "none"
  /\ p.pc \in {"reach", "remote"} => p.level["activity"] # "none"
  /\ p.pc = "remote" => p.level["ssh"] = "PASS"

LaunchInv ==
  TypeOK /\ Fresh /\ Waits /\ Found /\ Hinted /\ Causes /\ Roles /\ Checked /\ DoctorAnswers

-----------------------------------------------------------------------------
USE DEF PCs, Commands, Doctors, Probed, Ends, Levels, NotUp, Fields, InWait

\* The timeouts of a configuration that is accepted are positive.
LEMMA ParsedTimes ==
  ASSUME NEW raw, Decoded(raw), Accepts(raw)
  PROVE  Parsed(raw).connect \in Nat \ {0} /\ Parsed(raw).wait \in Nat \ {0}
<1>1. \A key : Key(key, Int) => key = <<>> \/ key[1] \in Int
  BY DEF Key
<1> QED
  BY <1>1, ConfigAssumption DEF Decoded, Accepts, Validate, Parsed, Given

\* The invariant holds initially.
LEMMA InitLaunch == Init => LaunchInv
<1> SUFFICES ASSUME Init PROVE LaunchInv
  OBVIOUS
<1>1. TypeOK
  BY DEF Init, TypeOK, IsProcess, Process
<1>2. Fresh /\ Waits /\ Found /\ Hinted /\ Causes /\ Roles
  BY DEF Init, Process, Fresh, Waits, Found, Hinted, Causes, Roles
<1>3. Checked /\ DoctorAnswers
  BY DEF Init, Process, Checked, DoctorAnswers, Checks
<1> QED
  BY <1>1, <1>2, <1>3 DEF LaunchInv

-----------------------------------------------------------------------------
(* The type.                                                               *)

\* Reporting a check and moving on leave a process.
LEMMA ReportedType ==
  ASSUME NEW q, IsProcess(q), NEW check \in Checks, NEW level \in Levels
  PROVE  IsProcess(Reported(q, check, level))
  BY DEF Reported, IsProcess

\* So does moving on.
LEMMA MovedType ==
  ASSUME NEW q, IsProcess(q), NEW pc \in PCs
  PROVE  IsProcess([q EXCEPT !.pc = pc])
  BY DEF IsProcess

\* So does ending.
LEMMA EndedType ==
  ASSUME NEW q, IsProcess(q), NEW err \in Ends, Exits(q, err)
  PROVE  IsProcess(p')
  BY DEF IsProcess, Exits

\* Every step keeps the type.
LEMMA TypeNext ==
  ASSUME LaunchInv, [Next]_vars
  PROVE  TypeOK'
<1> USE DEF WorldStays
<1>1. TypeOK /\ Fresh
  BY DEF LaunchInv
<1>2. "config" \in Checks /\ "wake" \in Checks /\ "local" \in Checks
      /\ "instance" \in Checks /\ "activity" \in Checks /\ "ssh" \in Checks
      /\ "remote" \in Checks /\ "integration" \in Checks /\ "emitter" \in Checks
  BY DEF Checks
<1>3. CASE UNCHANGED vars
  BY <1>1, <1>3 DEF vars, TypeOK
<1>4. CASE LoadConfig
  <2>1. Accepts(input.config) =>
          /\ Parsed(input.config).connect \in Nat /\ Parsed(input.config).wait \in Nat
    BY <1>1, <1>4, ParsedTimes, LaunchAssumption DEF Fresh, LoadConfig
  <2>2. IsProcess(Reported(p, "config", "FAIL"))
    BY <1>1, <1>2, ReportedType DEF TypeOK
  <2>3. CASE ~Accepts(input.config)
    BY <1>1, <1>4, <2>2, <2>3, EndedType DEF LoadConfig, TypeOK
  <2>4. CASE Accepts(input.config)
    <3> DEFINE q == [p EXCEPT !.connect = Parsed(input.config).connect,
                              !.wait = Parsed(input.config).wait]
    <3>1. IsProcess(q)
      BY <1>1, <2>1, <2>4 DEF TypeOK, IsProcess
    <3>2. \E pc \in PCs : p' = [q EXCEPT !.pc = pc]
      BY <1>4, <2>4 DEF LoadConfig
    <3> HIDE DEF q
    <3>3. IsProcess(p')
      <4>1. PICK pc \in PCs : p' = [q EXCEPT !.pc = pc]
        BY <3>2
      <4>2. IsProcess([q EXCEPT !.pc = pc])
        BY <3>1, MovedType
      <4> QED
        BY <4>1, <4>2
    <3> QED
      BY <1>1, <1>4, <3>3 DEF LoadConfig, TypeOK
  <2> QED
    BY <2>3, <2>4
<1>5. CASE ParseArguments
  BY <1>1, <1>5, EndedType, MovedType DEF ParseArguments, TypeOK
<1>6. CASE Wake
  BY <1>1, <1>6 DEF Wake, TypeOK, IsProcess
<1>7. CASE WakeFails
  BY <1>1, <1>7 DEF WakeFails, TypeOK, IsProcess
<1>8. CASE WakeRefused \/ WaitOver
  <2>1. /\ IsProcess(Reported(p, "wake", "FAIL"))
        /\ IsProcess([Reported(p, "wake", "FAIL") EXCEPT !.pc = "local"])
        /\ IsProcess([p EXCEPT !.pc = "diagnose"])
    BY <1>1, <1>2, ReportedType, MovedType DEF TypeOK
  <2>2. \A err \in Ends : Leaves(err) => IsProcess(p')
    BY <1>1, <2>1, EndedType DEF Leaves, TypeOK
  <2> QED
    BY <1>1, <1>8, <2>1, <2>2 DEF WakeRefused, WaitOver, TypeOK
<1>9. CASE ProbeSucceeds \/ TimerFires
  <2>1. CASE ProbeSucceeds
    BY <1>1, <2>1 DEF ProbeSucceeds, TypeOK, IsProcess
  <2>2. CASE TimerFires
    BY <1>1, <2>2 DEF TimerFires, TypeOK, IsProcess
  <2> QED
    BY <1>9, <2>1, <2>2
<1>10. CASE ProbeFails \/ ProbeKilled \/ Pause
  <2>1. CASE ProbeFails
    BY <1>1, <2>1 DEF ProbeFails, TypeOK, IsProcess
  <2>2. CASE ProbeKilled
    BY <1>1, <2>2 DEF ProbeKilled, TypeOK, IsProcess
  <2>3. CASE Pause
    <3>1. LastError \in Probed
      BY <1>1, <2>3 DEF Pause, LastError, LaunchInv, Causes, TypeOK, IsProcess
    <3> QED
      BY <1>1, <2>3, <3>1, LaunchAssumption DEF Pause, Interval, TypeOK, IsProcess
  <2> QED
    BY <1>10, <2>1, <2>2, <2>3
<1>11. CASE Diagnose
  <2>1. IsProcess(Reported(p, "wake", "FAIL"))
    BY <1>1, <1>2, ReportedType DEF TypeOK
  <2>2. \A hint \in BOOLEAN :
          /\ IsProcess([Reported(p, "wake", "FAIL") EXCEPT !.pc = "local", !.hint = hint])
          /\ IsProcess([p EXCEPT !.hint = hint])
    BY <1>1, <2>1 DEF TypeOK, IsProcess
  <2> QED
    BY <1>1, <1>11, <2>2, EndedType DEF Diagnose, TypeOK
<1>12. CASE HandOver
  BY <1>1, <1>12, MovedType, EndedType DEF HandOver, TypeOK
<1>13. CASE CheckLocal \/ CheckInstance \/ CheckActivity
  <2>1. \A check \in Checks, level \in Levels : IsProcess(Reported(p, check, level))
    BY <1>1, ReportedType DEF TypeOK
  <2>2. CASE CheckLocal
    BY <1>1, <1>2, <2>1, <2>2, ReportedType, MovedType DEF CheckLocal, TypeOK
  <2>3. CASE CheckInstance
    <3>1. \A q : IsProcess(q) => IsProcess([q EXCEPT !.pc = "activity", !.seen = vm])
      BY <1>1 DEF IsProcess, TypeOK
    <3> QED
      BY <1>1, <1>2, <2>1, <2>3, <3>1, MovedType DEF CheckInstance, Answers, TypeOK
  <2>4. CASE CheckActivity
    BY <1>1, <1>2, <2>1, <2>4, MovedType DEF CheckActivity, Answers, TypeOK
  <2> QED
    BY <1>13, <2>2, <2>3, <2>4
<1>14. CASE CheckReachable \/ CheckRemote
  <2>1. \A level \in Levels : IsProcess(Reported(p, "ssh", level))
    BY <1>1, <1>2, ReportedType DEF TypeOK
  <2>2. \A q : IsProcess(q) /\ Concludes(q) => IsProcess(p')
    BY EndedType DEF Concludes
  <2>3. \A r, i, e \in Levels :
          IsProcess(Reported(Reported(Reported(p, "remote", r), "integration", i),
                             "emitter", e))
    BY <1>1, <1>2, ReportedType DEF TypeOK
  <2> QED
    BY <1>1, <1>14, <2>1, <2>2, <2>3, MovedType
       DEF CheckReachable, CheckRemote, Answers, TypeOK
<1>15. CASE Advance \/ DeadlineFires \/ Interrupt \/ WorldMoves
  <2>1. CASE Advance
    BY <1>1, <2>1 DEF Advance, TypeOK, IsProcess
  <2>2. CASE Interrupt
    BY <1>1, <2>2 DEF Interrupt, TypeOK, IsProcess
  <2>3. CASE WorldMoves
    BY <1>1, <2>3 DEF WorldMoves, TypeOK
  <2>4. CASE DeadlineFires
    BY <1>1, <2>4 DEF DeadlineFires, TypeOK, IsProcess
  <2> QED
    BY <1>15, <2>1, <2>2, <2>3, <2>4
<1> QED
  BY <1>3, <1>4, <1>5, <1>6, <1>7, <1>8, <1>9, <1>10, <1>11, <1>12, <1>13, <1>14, <1>15
     DEF Next, Proceed

-----------------------------------------------------------------------------
(* The steps, in the fields of the process.                                *)

\* What most steps leave alone: all but the place, the error and what was reported.
Kept ==
  /\ p'.cmd = p.cmd /\ p'.cancelled = p.cancelled
  /\ p'.connect = p.connect /\ p'.wait = p.wait /\ p'.deadline = p.deadline
  /\ p'.startedAt = p.startedAt /\ p'.wakeAt = p.wakeAt
  /\ p'.waitErr = p.waitErr /\ p'.lastErr = p.lastErr
  /\ p'.own = p.own /\ p'.inTime = p.inTime
  /\ p'.tried = p.tried /\ p'.woken = p.woken

\* Moving on changes the place alone.
LEMMA MoveFields ==
  ASSUME IsProcess(p), NEW pc, p' = [p EXCEPT !.pc = pc]
  PROVE  /\ Kept /\ p'.pc = pc /\ p'.err = p.err /\ p'.hint = p.hint /\ p'.seen = p.seen
         /\ p'.level = p.level
  BY DEF Kept, IsProcess

\* Ending changes the place and the error.
LEMMA EndFields ==
  ASSUME IsProcess(p), NEW err, Exits(p, err)
  PROVE  /\ Kept /\ p'.pc = "exit" /\ p'.err = err /\ p'.hint = p.hint
         /\ p'.seen = p.seen /\ p'.level = p.level
  BY DEF Kept, IsProcess, Exits

\* An answer changes the place and the level of the check.
LEMMA AnswerFields ==
  ASSUME IsProcess(p), NEW check, NEW level, NEW pc, Answers(check, level, pc)
  PROVE  /\ Kept /\ p'.pc = pc /\ p'.err = p.err /\ p'.hint = p.hint /\ p'.seen = p.seen
         /\ p'.level = [p.level EXCEPT ![check] = level]
  BY DEF Kept, IsProcess, Answers, Reported

\* doctor ends with an error exactly when a check of it failed.
LEMMA ConcludeFields ==
  ASSUME IsProcess(p), NEW check, NEW level, Concludes(Reported(p, check, level))
  PROVE  /\ Kept /\ p'.pc = "exit" /\ p'.hint = p.hint /\ p'.seen = p.seen
         /\ p'.level = [p.level EXCEPT ![check] = level]
         /\ p'.err = IF \E c \in Checks : p'.level[c] = "FAIL" THEN "checks" ELSE "none"
  BY DEF Kept, IsProcess, Concludes, Reported, Exits

\* A failed wake ends a command, but for a doctor that was not interrupted.
LEMMA LeaveFields ==
  ASSUME IsProcess(p), NEW err, Leaves(err)
  PROVE  /\ Kept /\ p'.hint = p.hint /\ p'.seen = p.seen
         /\ \/ /\ p.cmd = "doctor_wake" /\ ~p.cancelled /\ p'.pc = "local"
               /\ p'.err = p.err
               /\ p'.level = [p.level EXCEPT !["wake"] = "FAIL"]
            \/ /\ ~(p.cmd = "doctor_wake" /\ ~p.cancelled)
               /\ p'.pc = "exit" /\ p'.err = err /\ p'.level = p.level
<1>1. CASE p.cmd = "doctor_wake" /\ ~p.cancelled
  <2>1. Answers("wake", "FAIL", "local")
    BY <1>1 DEF Leaves, Answers
  <2> QED
    BY <1>1, <2>1, AnswerFields
<1>2. CASE ~(p.cmd = "doctor_wake" /\ ~p.cancelled)
  BY <1>2, EndFields DEF Leaves
<1> QED
  BY <1>1, <1>2

-----------------------------------------------------------------------------
(* Each step keeps the invariant.                                          *)

\* Every command begins with its configuration, and doctor reports a bad one.
LEMMA LoadKeeps ==
  ASSUME LaunchInv, LoadConfig
  PROVE  LaunchInv'
<1> USE DEF LaunchInv
<1>1. TypeOK'
  BY TypeNext DEF Next, Proceed
<1>2. CASE Accepts(input.config)
  <2>1. Parsed(input.config).wait \in Nat \ {0}
    BY <1>2, ParsedTimes, LaunchAssumption DEF LoadConfig, Fresh
  <2>2. /\ p'.cmd = p.cmd /\ p'.cancelled = p.cancelled /\ p'.wait > 0
        /\ p'.waitErr = p.waitErr /\ p'.lastErr = p.lastErr
        /\ p'.own = p.own /\ p'.inTime = p.inTime
        /\ p'.tried = p.tried /\ p'.woken = p.woken /\ p'.level = p.level
        /\ p'.hint = p.hint /\ p'.deadline = p.deadline
        /\ p'.pc = CASE p.cmd = "forward" -> "parse"
                     [] p.cmd = "doctor"  -> "local"
                     [] OTHER             -> "wake"
    <3> DEFINE q == [p EXCEPT !.connect = Parsed(input.config).connect,
                              !.wait = Parsed(input.config).wait]
    <3>1. /\ q.cmd = p.cmd /\ q.cancelled = p.cancelled
          /\ q.wait = Parsed(input.config).wait
          /\ q.waitErr = p.waitErr /\ q.lastErr = p.lastErr
          /\ q.own = p.own /\ q.inTime = p.inTime
          /\ q.tried = p.tried /\ q.woken = p.woken /\ q.level = p.level
          /\ q.hint = p.hint /\ q.deadline = p.deadline /\ "pc" \in DOMAIN q
      BY DEF TypeOK, IsProcess
    <3>2. p' = [q EXCEPT !.pc = CASE p.cmd = "forward" -> "parse"
                                  [] p.cmd = "doctor"  -> "local"
                                  [] OTHER             -> "wake"]
      BY <1>2 DEF LoadConfig
    <3> HIDE DEF q
    <3> QED
      BY <2>1, <3>1, <3>2
  <2>3. (Fresh /\ Waits /\ Found /\ Hinted /\ Causes /\ Roles)'
    BY <2>2 DEF LoadConfig, WorldStays, TypeOK, IsProcess, Fresh, Waits, Found, Hinted,
                Causes, Roles
  <2>4. (Checked /\ DoctorAnswers)'
    BY <2>2 DEF LoadConfig, TypeOK, IsProcess, Fresh, Checked, DoctorAnswers
  <2> QED
    BY <1>1, <2>3, <2>4
<1>3. CASE ~Accepts(input.config)
  <2>1. /\ p'.pc = "exit" /\ p'.cmd = p.cmd /\ p'.lastErr = p.lastErr
        /\ p'.own = p.own /\ p'.inTime = p.inTime
        /\ p'.waitErr = p.waitErr /\ p'.hint = p.hint /\ p'.woken = p.woken
        /\ p'.deadline = p.deadline
        /\ IF p.cmd \in Doctors THEN p'.err = "checks" /\ p'.level["config"] = "FAIL"
                                ELSE p'.err = "config"
    <3>1. CASE p.cmd \in Doctors
      <4> DEFINE q == Reported(p, "config", "FAIL")
      <4>1. /\ q.cmd = p.cmd /\ q.lastErr = p.lastErr
            /\ q.own = p.own /\ q.inTime = p.inTime
            /\ q.waitErr = p.waitErr /\ q.hint = p.hint /\ q.woken = p.woken
            /\ q.deadline = p.deadline /\ q.level["config"] = "FAIL"
            /\ {"pc", "err"} \subseteq DOMAIN q
        BY DEF TypeOK, IsProcess, Reported, Checks
      <4>2. Exits(q, "checks")
        BY <1>3, <3>1 DEF LoadConfig
      <4> HIDE DEF q
      <4> QED
        BY <3>1, <4>1, <4>2 DEF Exits
    <3>2. CASE p.cmd \notin Doctors
      BY <1>3, <3>2, EndFields DEF LoadConfig, TypeOK, Kept
    <3> QED
      BY <3>1, <3>2
  <2>2. (Fresh /\ Waits /\ Found /\ Hinted /\ Causes /\ Roles /\ Checked)'
    BY <2>1 DEF LoadConfig, WorldStays, Fresh, Waits, Found, Hinted, Causes, Roles, Checked
  <2>3. DoctorAnswers'
    BY <2>1 DEF DoctorAnswers
  <2> QED
    BY <1>1, <2>2, <2>3
<1> QED
  BY <1>2, <1>3

\* forward looks at its arguments before it wakes the VM.
LEMMA ParseKeeps ==
  ASSUME LaunchInv, ParseArguments
  PROVE  LaunchInv'
<1> USE DEF LaunchInv
<1>1. TypeOK'
  BY TypeNext DEF Next, Proceed
<1>2. /\ Kept /\ p'.hint = p.hint /\ p'.level = p.level
      /\ p'.pc \in {"exit", "wake"}
  BY MoveFields, EndFields DEF ParseArguments, TypeOK
<1>3. (Fresh /\ Waits /\ Found /\ Hinted /\ Causes /\ Roles)'
  BY <1>2 DEF ParseArguments, WorldStays, Kept, TypeOK, IsProcess, Fresh, Waits, Found,
              Hinted, Causes, Roles
<1>4. (Checked /\ DoctorAnswers)'
  BY <1>2 DEF ParseArguments, Kept, TypeOK, IsProcess, Checked, DoctorAnswers, Roles
<1> QED
  BY <1>1, <1>3, <1>4

\* The wait begins when the VM is awake.
LEMMA WakeKeeps ==
  ASSUME LaunchInv, Wake
  PROVE  LaunchInv'
<1> USE DEF LaunchInv
<1>1. TypeOK'
  BY TypeNext DEF Next, Proceed
<1>2. /\ p'.pc = "probe" /\ p'.tried /\ p'.woken = p.woken /\ p'.cmd = p.cmd
      /\ p'.deadline = clock + p.wait /\ p'.startedAt = clock /\ p'.hint = p.hint
      /\ p'.waitErr = IF p.cancelled THEN "cancelled" ELSE "none"
      /\ p'.cancelled = p.cancelled /\ p'.level = p.level /\ p'.connect = p.connect
      /\ p'.lastErr = p.lastErr /\ p'.own = p.own /\ p'.inTime = p.inTime
  BY DEF Wake, TypeOK, IsProcess
<1>3. (Fresh /\ Waits /\ Hinted /\ Causes /\ Roles)'
  BY <1>2 DEF Wake, TypeOK, IsProcess, Fresh, Waits, Hinted, Causes, Roles
<1>4. Found'
  BY <1>1, <1>2, LaunchAssumption DEF Wake, TypeOK, IsProcess, Fresh, Found
<1>5. (Checked /\ DoctorAnswers)'
  BY <1>2 DEF Wake, TypeOK, IsProcess, Checked, DoctorAnswers
<1> QED
  BY <1>1, <1>3, <1>4, <1>5

\* A wake may fail.
LEMMA WakeFailsKeeps ==
  ASSUME LaunchInv, WakeFails
  PROVE  LaunchInv'
<1> USE DEF LaunchInv
<1>1. TypeOK'
  BY TypeNext DEF Next
<1>2. /\ p'.pc = "refused" /\ p'.tried /\ p'.woken = p.woken /\ p'.cmd = p.cmd
      /\ p'.deadline = p.deadline /\ p'.hint = p.hint /\ p'.waitErr = p.waitErr
      /\ p'.level = p.level /\ p'.lastErr = p.lastErr
      /\ p'.own = p.own /\ p'.inTime = p.inTime
  BY DEF WakeFails, TypeOK, IsProcess
<1>3. (Fresh /\ Waits /\ Found /\ Hinted /\ Causes /\ Roles)'
  BY <1>2 DEF WakeFails, WorldStays, TypeOK, IsProcess, Fresh, Waits, Found, Hinted,
              Causes, Roles
<1>4. (Checked /\ DoctorAnswers)'
  BY <1>2 DEF WakeFails, Checked, DoctorAnswers
<1> QED
  BY <1>1, <1>3, <1>4

\* A wake that failed and a wait that is over end in the ways of Leaves.
LEMMA LeavesKeeps ==
  ASSUME LaunchInv, WakeRefused \/ WaitOver
  PROVE  LaunchInv'
<1> USE DEF LaunchInv
<1>1. TypeOK' /\ IsProcess(p)
  BY TypeNext DEF Next, Proceed, TypeOK
<1>2. p.tried /\ ~p.woken /\ ~p.hint /\ p.cmd # "doctor" /\ UNCHANGED clock
      /\ p.level["config"] = "none"
  BY DEF WakeRefused, WaitOver, WorldStays, Fresh, Waits, Hinted, Roles, Checked
<1>3. CASE \E err \in {"nocapacity", "wake", "cancelled"} :
             Leaves(err) /\ (err = "cancelled" => p.cancelled)
  <2>1. PICK err \in {"nocapacity", "wake", "cancelled"} :
          Leaves(err) /\ (err = "cancelled" => p.cancelled)
    BY <1>3
  <2>2. /\ Kept /\ p'.hint = p.hint /\ p'.seen = p.seen
        /\ \/ /\ p.cmd = "doctor_wake" /\ ~p.cancelled /\ p'.pc = "local"
              /\ p'.level = [p.level EXCEPT !["wake"] = "FAIL"]
           \/ /\ ~(p.cmd = "doctor_wake" /\ ~p.cancelled)
              /\ p'.pc = "exit" /\ p'.level = p.level
    BY <1>1, <2>1, LeaveFields
  <2>3. (Fresh /\ Waits /\ Found /\ Hinted /\ Causes /\ Roles)'
    BY <1>2, <2>2 DEF Kept, Fresh, Waits, Found, Hinted, Causes, Roles
  <2>4. (Checked /\ DoctorAnswers)'
    BY <1>1, <1>2, <2>2 DEF Kept, IsProcess, Checked, DoctorAnswers, Checks
  <2> QED
    BY <1>1, <2>3, <2>4
<1>4. CASE WaitOver /\ p'= [p EXCEPT !.pc = "diagnose"] /\ TimedOut
  <2>1. Kept /\ p'.pc = "diagnose" /\ p'.hint = p.hint /\ p'.level = p.level
    BY <1>1, <1>4, MoveFields
  <2>2. (Fresh /\ Waits /\ Found /\ Hinted /\ Causes /\ Roles)'
    BY <1>2, <1>4, <2>1 DEF Kept, Fresh, Waits, Found, Hinted, Causes, Roles, WaitOver,
       WorldStays, TimedOut
  <2>3. (Checked /\ DoctorAnswers)'
    BY <1>2, <2>1 DEF Kept, Checked, DoctorAnswers
  <2> QED
    BY <1>1, <2>2, <2>3
<1> QED
  BY <1>1, <1>3, <1>4 DEF WakeRefused, WaitOver, Waits, TimedOut, IsProcess

\* A probe that succeeds ends the wait well.
LEMMA ProbeSucceedsKeeps ==
  ASSUME LaunchInv, ProbeSucceeds
  PROVE  LaunchInv'
<1> USE DEF LaunchInv
<1>1. TypeOK'
  BY TypeNext DEF Next, Proceed
<1>2. /\ p'.pc = "handover" /\ p'.woken /\ p'.cmd = p.cmd
      /\ p'.deadline = p.deadline /\ p'.hint = p.hint /\ p'.waitErr = p.waitErr
      /\ p'.level = p.level /\ p'.lastErr = p.lastErr
      /\ p'.own = p.own /\ p'.inTime = p.inTime
  BY DEF ProbeSucceeds, TypeOK, IsProcess
<1>3. (Fresh /\ Waits /\ Found /\ Hinted /\ Causes /\ Roles)'
  BY <1>2 DEF ProbeSucceeds, WorldStays, Fresh, Waits, Found, Hinted, Causes, Roles
<1>4. (Checked /\ DoctorAnswers)'
  BY <1>2 DEF ProbeSucceeds, Checked, DoctorAnswers
<1> QED
  BY <1>1, <1>3, <1>4

\* A probe that fails by itself has ended in time for the next to find the VM.
LEMMA FailsKeeps ==
  ASSUME LaunchInv, ProbeFails \/ ProbeKilled
  PROVE  LaunchInv'
<1> USE DEF LaunchInv
<1>1. TypeOK' /\ TypeOK /\ IsProcess(p)
  BY TypeNext DEF Next, Proceed, TypeOK
<1>2. /\ p'.pc = "ended" /\ p'.woken = p.woken /\ p'.cmd = p.cmd /\ p'.tried = p.tried
      /\ p'.cancelled = p.cancelled /\ p'.startedAt = p.startedAt
      /\ p'.connect = p.connect /\ p'.deadline = p.deadline /\ p'.hint = p.hint
      /\ p'.waitErr = p.waitErr /\ p'.level = p.level /\ p'.lastErr = p.lastErr
      /\ IF p.waitErr = "none"
           THEN /\ p'.tryErr = p'.own
                /\ p'.inTime = IF clock < p.deadline THEN p'.own ELSE p.inTime
           ELSE p'.own = p.own /\ p'.inTime = p.inTime
  <2>1. CASE ProbeFails
    <3>1. PICK err \in {"refused", "timedout"} :
            p' = [p EXCEPT !.pc = "ended", !.tryErr = err, !.own = err,
                           !.inTime = IF clock < p.deadline THEN err ELSE @]
      BY <2>1 DEF ProbeFails
    <3> QED
      BY <1>1, <2>1, <3>1 DEF ProbeFails, IsProcess
  <2>2. CASE ProbeKilled
    BY <1>1, <2>2 DEF ProbeKilled, IsProcess
  <2> QED
    BY <2>1, <2>2
<1>3. Causes'
  BY <1>1, <1>2 DEF ProbeFails, ProbeKilled, WorldStays, Waits, Causes,
     TypeOK, IsProcess
<1>4. (Fresh /\ Waits /\ Hinted /\ Roles)'
  BY <1>1, <1>2 DEF ProbeFails, ProbeKilled, WorldStays, Fresh, Waits, Hinted, Roles
<1>5. Found'
  BY <1>1, <1>2, LaunchAssumption DEF ProbeFails, ProbeKilled, WorldStays, TypeOK,
     IsProcess, Waits, Found
<1>6. (Checked /\ DoctorAnswers)'
  BY <1>2 DEF ProbeFails, ProbeKilled, Checked, DoctorAnswers
<1> QED
  BY <1>1, <1>3, <1>4, <1>5, <1>6

\* The error of a probe is kept unless the context has ended, and the pause follows.
LEMMA PauseKeeps ==
  ASSUME LaunchInv, Pause
  PROVE  LaunchInv'
<1> USE DEF LaunchInv
<1>1. TypeOK' /\ TypeOK /\ IsProcess(p)
  BY TypeNext DEF Next, Proceed, TypeOK
<1>2. /\ p'.pc = "pause" /\ p'.wakeAt = clock + WaitInterval /\ p'.woken = p.woken
      /\ p'.cmd = p.cmd /\ p'.tried = p.tried
      /\ p'.cancelled = p.cancelled /\ p'.startedAt = p.startedAt
      /\ p'.connect = p.connect /\ p'.deadline = p.deadline /\ p'.hint = p.hint
      /\ p'.waitErr = p.waitErr /\ p'.level = p.level
      /\ p'.own = p.own /\ p'.inTime = p.inTime /\ p'.lastErr = LastError
  BY <1>1 DEF Pause, Interval, IsProcess
<1>3. Causes'
  BY <1>1, <1>2, LaunchAssumption DEF Pause, LastError, WorldStays, Waits, Causes,
     TypeOK, IsProcess
<1>4. (Fresh /\ Waits /\ Hinted /\ Roles)'
  BY <1>1, <1>2, LaunchAssumption DEF Pause, WorldStays, TypeOK, Fresh, Waits,
     Hinted, Roles
<1>5. Found'
  BY <1>1, <1>2, LaunchAssumption DEF Pause, WorldStays, TypeOK, IsProcess, Waits,
     Found
<1>6. (Checked /\ DoctorAnswers)'
  BY <1>2 DEF Pause, Checked, DoctorAnswers
<1> QED
  BY <1>1, <1>3, <1>4, <1>5, <1>6

\* The next probe begins as the pause ends.
LEMMA TimerKeeps ==
  ASSUME LaunchInv, TimerFires
  PROVE  LaunchInv'
<1> USE DEF LaunchInv
<1>1. TypeOK' /\ IsProcess(p)
  BY TypeNext DEF Next, Proceed, TypeOK
<1>2. /\ p'.pc = "probe" /\ p'.startedAt = clock /\ p'.lastErr = p.lastErr
      /\ p'.own = p.own /\ p'.inTime = p.inTime /\ p'.wakeAt = p.wakeAt
      /\ p'.woken = p.woken /\ p'.cmd = p.cmd /\ p'.tried = p.tried
      /\ p'.cancelled = p.cancelled /\ p'.connect = p.connect
      /\ p'.deadline = p.deadline /\ p'.hint = p.hint /\ p'.waitErr = p.waitErr
      /\ p'.level = p.level
  BY <1>1 DEF TimerFires, IsProcess
<1>3. (Fresh /\ Waits /\ Hinted /\ Causes /\ Roles)'
  BY <1>1, <1>2 DEF TimerFires, WorldStays, TypeOK,
     IsProcess, Fresh, Waits, Hinted, Causes, Roles
<1>4. Found'
  BY <1>1, <1>2 DEF TimerFires, WorldStays, TypeOK, IsProcess, Waits, Found
<1>5. (Checked /\ DoctorAnswers)'
  BY <1>2 DEF TimerFires, Checked, DoctorAnswers
<1> QED
  BY <1>1, <1>3, <1>4, <1>5

\* The hint is given after the whole wait alone.
LEMMA DiagnoseKeeps ==
  ASSUME LaunchInv, Diagnose
  PROVE  LaunchInv'
<1> USE DEF LaunchInv
<1>1. TypeOK' /\ IsProcess(p)
  BY TypeNext DEF Next, Proceed, TypeOK
<1>2. PICK hint \in BOOLEAN :
        IF p.cmd = "doctor_wake" /\ ~p.cancelled
          THEN p' = [Reported(p, "wake", "FAIL") EXCEPT !.pc = "local", !.hint = hint]
          ELSE Exits([p EXCEPT !.hint = hint], "timeout")
  BY DEF Diagnose
<1>3. /\ Kept
      /\ \/ /\ p.cmd = "doctor_wake" /\ ~p.cancelled /\ p'.pc = "local"
            /\ p'.level = [p.level EXCEPT !["wake"] = "FAIL"]
         \/ /\ ~(p.cmd = "doctor_wake" /\ ~p.cancelled)
            /\ p'.pc = "exit" /\ p'.level = p.level
  <2>1. CASE p.cmd = "doctor_wake" /\ ~p.cancelled
    <3> DEFINE q == Reported(p, "wake", "FAIL")
    <3>1. /\ q.cmd = p.cmd /\ q.cancelled = p.cancelled
          /\ q.connect = p.connect /\ q.wait = p.wait /\ q.deadline = p.deadline
          /\ q.startedAt = p.startedAt /\ q.wakeAt = p.wakeAt
          /\ q.waitErr = p.waitErr /\ q.lastErr = p.lastErr
          /\ q.own = p.own /\ q.inTime = p.inTime
          /\ q.tried = p.tried /\ q.woken = p.woken
          /\ q.level = [p.level EXCEPT !["wake"] = "FAIL"]
          /\ {"pc", "hint"} \subseteq DOMAIN q
      BY <1>1 DEF IsProcess, Reported
    <3>2. p' = [q EXCEPT !.pc = "local", !.hint = hint]
      BY <1>2, <2>1
    <3> HIDE DEF q
    <3> QED
      BY <2>1, <3>1, <3>2 DEF Kept
  <2>2. CASE ~(p.cmd = "doctor_wake" /\ ~p.cancelled)
    <3> DEFINE q == [p EXCEPT !.hint = hint]
    <3>1. /\ q.cmd = p.cmd /\ q.cancelled = p.cancelled
          /\ q.connect = p.connect /\ q.wait = p.wait /\ q.deadline = p.deadline
          /\ q.startedAt = p.startedAt /\ q.wakeAt = p.wakeAt
          /\ q.waitErr = p.waitErr /\ q.lastErr = p.lastErr
          /\ q.own = p.own /\ q.inTime = p.inTime
          /\ q.tried = p.tried /\ q.woken = p.woken /\ q.level = p.level
          /\ {"pc", "err"} \subseteq DOMAIN q
      BY <1>1 DEF IsProcess
    <3>2. Exits(q, "timeout")
      BY <1>2, <2>2
    <3> HIDE DEF q
    <3> QED
      BY <2>2, <3>1, <3>2 DEF Exits, Kept
  <2> QED
    BY <2>1, <2>2
<1>4. p.tried /\ ~p.woken /\ p.cmd # "doctor" /\ UNCHANGED clock
      /\ p.level["config"] = "none" /\ p.waitErr = "deadline"
  BY DEF Diagnose, WorldStays, Waits, Roles, Checked
<1>5. (Fresh /\ Waits /\ Found /\ Hinted /\ Causes /\ Roles)'
  BY <1>3, <1>4 DEF Kept, Fresh, Waits, Found, Hinted, Causes, Roles
<1>6. (Checked /\ DoctorAnswers)'
  BY <1>1, <1>3, <1>4 DEF Kept, IsProcess, Checked, DoctorAnswers, Checks
<1> QED
  BY <1>1, <1>5, <1>6

\* Only a wait that went well hands over.
LEMMA HandOverKeeps ==
  ASSUME LaunchInv, HandOver
  PROVE  LaunchInv'
<1> USE DEF LaunchInv
<1>1. TypeOK' /\ IsProcess(p)
  BY TypeNext DEF Next, Proceed, TypeOK
<1>2. /\ Kept /\ p'.hint = p.hint /\ p'.level = p.level
      /\ IF p.cmd = "doctor_wake" THEN p'.pc = "local" ELSE p'.pc \in {"exec", "exit"}
  BY <1>1, MoveFields, EndFields DEF HandOver
<1>3. (Fresh /\ Waits /\ Found /\ Hinted /\ Causes /\ Roles)'
  BY <1>2 DEF HandOver, WorldStays, Kept, Fresh, Waits, Found, Hinted, Causes, Roles
<1>4. (Checked /\ DoctorAnswers)'
  BY <1>1, <1>2 DEF HandOver, Kept, IsProcess, Roles, Checked, DoctorAnswers
<1> QED
  BY <1>1, <1>3, <1>4

\* The parts of the invariant that the checks of doctor do not touch.
LEMMA ChecksKeep ==
  ASSUME LaunchInv, Kept, p'.hint = p.hint, UNCHANGED clock,
         p.pc \in {"local", "instance", "activity", "reach", "remote"},
         p'.pc \in {"instance", "activity", "reach", "remote", "exit"}
  PROVE  (Fresh /\ Waits /\ Found /\ Hinted /\ Causes /\ Roles)'
BY DEF LaunchInv, Kept, Fresh, Waits, Found, Hinted, Causes, Roles

\* The checks of the host come first.
LEMMA CheckLocalKeeps ==
  ASSUME LaunchInv, CheckLocal
  PROVE  LaunchInv'
<1> USE DEF LaunchInv
<1>1. TypeOK' /\ IsProcess(p)
  BY TypeNext DEF Next, Proceed, TypeOK
<1>2. PICK level \in {"PASS", "FAIL"} :
        p' = [Reported(Reported(p, "config", "PASS"), "local", level)
                EXCEPT !.pc = "instance"]
  BY DEF CheckLocal
<1>3. /\ Kept /\ p'.hint = p.hint /\ p'.pc = "instance"
      /\ p'.level = [[p.level EXCEPT !["config"] = "PASS"] EXCEPT !["local"] = level]
  BY <1>1, <1>2 DEF Kept, IsProcess, Reported
<1>4. (Fresh /\ Waits /\ Found /\ Hinted /\ Causes /\ Roles)'
  BY <1>3, ChecksKeep DEF CheckLocal, WorldStays
<1>5. (Checked /\ DoctorAnswers)'
  BY <1>1, <1>3 DEF CheckLocal, Kept, IsProcess, Checked, DoctorAnswers, Checks
<1> QED
  BY <1>1, <1>4, <1>5

\* The instance is checked next.
LEMMA CheckInstanceKeeps ==
  ASSUME LaunchInv, CheckInstance
  PROVE  LaunchInv'
<1> USE DEF LaunchInv
<1>1. TypeOK' /\ IsProcess(p)
  BY TypeNext DEF Next, Proceed, TypeOK
<1>2. /\ Kept /\ p'.hint = p.hint /\ p'.pc = "activity"
      /\ \E level \in {"PASS", "FAIL"} :
           p'.level = [p.level EXCEPT !["instance"] = level]
  <2>1. CASE Answers("instance", "FAIL", "activity")
    BY <1>1, <2>1, AnswerFields
  <2>2. CASE p' = [Reported(p, "instance", "PASS") EXCEPT !.pc = "activity", !.seen = vm]
    BY <1>1, <2>2 DEF Kept, IsProcess, Reported
  <2> QED
    BY <2>1, <2>2 DEF CheckInstance
<1>3. (Fresh /\ Waits /\ Found /\ Hinted /\ Causes /\ Roles)'
  BY <1>2, ChecksKeep DEF CheckInstance, WorldStays
<1>4. (Checked /\ DoctorAnswers)'
  BY <1>1, <1>2 DEF CheckInstance, Kept, IsProcess, Checked, DoctorAnswers, Checks
<1> QED
  BY <1>1, <1>3, <1>4

\* Then the activity.
LEMMA CheckActivityKeeps ==
  ASSUME LaunchInv, CheckActivity
  PROVE  LaunchInv'
<1> USE DEF LaunchInv
<1>1. TypeOK' /\ IsProcess(p)
  BY TypeNext DEF Next, Proceed, TypeOK
<1>2. /\ Kept /\ p'.hint = p.hint /\ p'.pc = "reach"
      /\ \E level \in {"SKIP", "PASS", "WARN"} :
           p'.level = [p.level EXCEPT !["activity"] = level]
  <2>1. PICK level \in {"SKIP", "PASS", "WARN"} : Answers("activity", level, "reach")
    BY DEF CheckActivity
  <2> QED
    BY <1>1, <2>1, AnswerFields
<1>3. (Fresh /\ Waits /\ Found /\ Hinted /\ Causes /\ Roles)'
  BY <1>2, ChecksKeep DEF CheckActivity, WorldStays
<1>4. (Checked /\ DoctorAnswers)'
  BY <1>1, <1>2 DEF CheckActivity, Kept, IsProcess, Checked, DoctorAnswers, Checks
<1> QED
  BY <1>1, <1>3, <1>4

\* A VM read as RUNNING that does not answer is a failure.
LEMMA CheckReachableKeeps ==
  ASSUME LaunchInv, CheckReachable
  PROVE  LaunchInv'
<1> USE DEF LaunchInv
<1>1. TypeOK' /\ IsProcess(p)
  BY TypeNext DEF Next, Proceed, TypeOK
<1>2. /\ Kept /\ p'.hint = p.hint /\ p'.seen = p.seen
      /\ \/ p'.pc = "remote" /\ p'.level = [p.level EXCEPT !["ssh"] = "PASS"]
         \/ /\ p'.pc = "exit"
            /\ p'.level = [p.level EXCEPT !["ssh"] =
                             IF p.seen # "RUNNING" THEN "SKIP" ELSE "FAIL"]
            /\ p'.err = IF \E c \in Checks : p'.level[c] = "FAIL" THEN "checks" ELSE "none"
  <2>1. CASE Answers("ssh", "PASS", "remote")
    BY <1>1, <2>1, AnswerFields
  <2>2. CASE Concludes(Reported(p, "ssh", "SKIP")) /\ p.seen # "RUNNING"
    BY <1>1, <2>2, ConcludeFields
  <2>3. CASE Concludes(Reported(p, "ssh", "FAIL")) /\ p.seen = "RUNNING"
    BY <1>1, <2>3, ConcludeFields
  <2> QED
    BY <2>1, <2>2, <2>3 DEF CheckReachable
<1>3. (Fresh /\ Waits /\ Found /\ Hinted /\ Causes /\ Roles)'
  BY <1>2, ChecksKeep DEF CheckReachable, WorldStays
<1>4. Checked'
  BY <1>1, <1>2 DEF CheckReachable, Kept, IsProcess, Checked, Checks
<1>5. DoctorAnswers'
  <2>1. CASE p'.pc = "remote"
    BY <2>1 DEF DoctorAnswers
  <2>2. CASE p'.pc = "exit"
    <3>1. \A c \in {"local", "instance", "activity", "ssh"} : p'.level[c] # "none"
      BY <1>1, <1>2, <2>2 DEF CheckReachable, IsProcess, Checked, Checks
    <3>2. p.tried /\ ~p.woken => p'.level["wake"] = "FAIL"
      BY <1>1, <1>2, <2>2 DEF CheckReachable, IsProcess, Checked, Checks
    <3>3. p.seen = "RUNNING" => p'.level["ssh"] = "FAIL"
      BY <1>1, <1>2, <2>2 DEF IsProcess, Checks
    <3> QED
      BY <1>2, <2>2, <3>1, <3>2, <3>3 DEF DoctorAnswers, Kept, Checks
  <2> QED
    BY <1>2, <2>1, <2>2
<1> QED
  BY <1>1, <1>3, <1>4, <1>5

\* The remote checks follow an SSH that works, and hide no failure of a wake.
LEMMA CheckRemoteKeeps ==
  ASSUME LaunchInv, CheckRemote
  PROVE  LaunchInv'
<1> USE DEF LaunchInv
<1>1. TypeOK' /\ IsProcess(p)
  BY TypeNext DEF Next, Proceed, TypeOK
<1>2. PICK remote \in {"PASS", "FAIL"}, integration \in {"PASS", "WARN"},
           emitter \in {"PASS", "WARN"} :
        Concludes(Reported(Reported(Reported(p, "remote", remote),
                                    "integration", integration), "emitter", emitter))
  BY DEF CheckRemote
<1> DEFINE q == Reported(Reported(Reported(p, "remote", remote),
                                  "integration", integration), "emitter", emitter)
<1>3. /\ q.cmd = p.cmd /\ q.cancelled = p.cancelled
      /\ q.connect = p.connect /\ q.wait = p.wait /\ q.deadline = p.deadline
      /\ q.startedAt = p.startedAt /\ q.wakeAt = p.wakeAt
      /\ q.waitErr = p.waitErr /\ q.lastErr = p.lastErr
      /\ q.own = p.own /\ q.inTime = p.inTime
      /\ q.tried = p.tried /\ q.woken = p.woken /\ q.hint = p.hint
      /\ {"pc", "err"} \subseteq DOMAIN q
      /\ \A c \in Checks \ {"remote", "integration", "emitter"} : q.level[c] = p.level[c]
  BY <1>1 DEF IsProcess, Reported
<1>4. Concludes(q)
  BY <1>2
<1> HIDE DEF q
<1>5. /\ Kept /\ p'.hint = p.hint /\ p'.pc = "exit"
      /\ \A c \in Checks \ {"remote", "integration", "emitter"} : p'.level[c] = p.level[c]
      /\ p'.err = IF \E c \in Checks : p'.level[c] = "FAIL" THEN "checks" ELSE "none"
  BY <1>3, <1>4 DEF Kept, Concludes, Exits
<1>6. (Fresh /\ Waits /\ Found /\ Hinted /\ Causes /\ Roles)'
  BY <1>5, ChecksKeep DEF CheckRemote, WorldStays
<1>7. Checked'
  BY <1>5 DEF Checked
<1>8. DoctorAnswers'
  <2>1. {"local", "instance", "activity", "ssh", "wake"}
          \subseteq Checks \ {"remote", "integration", "emitter"}
    BY DEF Checks
  <2>2. \A c \in {"local", "instance", "activity", "ssh"} : p'.level[c] # "none"
    BY <1>5, <2>1 DEF CheckRemote, Checked
  <2>3. p.tried /\ ~p.woken => \E c \in Checks : p'.level[c] = "FAIL"
    BY <1>5, <2>1 DEF CheckRemote, Checked, Checks
  <2>4. p'.level["ssh"] = "PASS"
    BY <1>5, <2>1 DEF CheckRemote, Checked
  <2> QED
    BY <1>5, <2>2, <2>3, <2>4 DEF DoctorAnswers, Kept
<1> QED
  BY <1>1, <1>6, <1>7, <1>8

\* Time passes in the wait, up to its deadline.
LEMMA AdvanceKeeps ==
  ASSUME LaunchInv, Advance
  PROVE  LaunchInv'
<1> USE DEF LaunchInv
<1>1. TypeOK' /\ TypeOK /\ IsProcess(p)
  BY TypeNext DEF Next, TypeOK
<1>2. (Fresh /\ Waits /\ Hinted /\ Causes /\ Roles)'
  BY <1>1 DEF Advance, TypeOK, IsProcess, Fresh, Waits, Hinted, Causes, Roles
<1>3. Found'
  BY <1>1, LaunchAssumption DEF Advance, TypeOK, IsProcess, Waits, Found
<1>4. (Checked /\ DoctorAnswers)'
  BY DEF Advance, Checked, DoctorAnswers
<1> QED
  BY <1>1, <1>2, <1>3, <1>4

\* The deadline ends the context of the wait, wherever the wait is.
LEMMA DeadlineKeeps ==
  ASSUME LaunchInv, DeadlineFires
  PROVE  LaunchInv'
<1> USE DEF LaunchInv
<1>1. TypeOK' /\ TypeOK /\ IsProcess(p)
  BY TypeNext DEF Next, TypeOK
<1>2. /\ p'.pc = p.pc /\ p'.lastErr = p.lastErr
      /\ p'.own = p.own /\ p'.inTime = p.inTime /\ p'.wakeAt = p.wakeAt
      /\ p'.startedAt = p.startedAt
      /\ p'.woken = p.woken /\ p'.cmd = p.cmd /\ p'.tried = p.tried
      /\ p'.cancelled = p.cancelled /\ p'.connect = p.connect /\ p'.wait = p.wait
      /\ p'.deadline = p.deadline /\ p'.hint = p.hint /\ p'.level = p.level
      /\ p'.waitErr = "deadline"
  BY <1>1 DEF DeadlineFires, IsProcess
<1>3. clock = p.deadline /\ UNCHANGED clock
  BY <1>1 DEF DeadlineFires, WorldStays, Waits, TypeOK, IsProcess
<1>4. (Fresh /\ Waits /\ Hinted /\ Causes /\ Roles)'
  BY <1>1, <1>2, <1>3 DEF DeadlineFires, TypeOK, IsProcess, Fresh, Waits, Hinted,
     Causes, Roles
<1>5. Found'
  BY <1>1, <1>2, <1>3, LaunchAssumption DEF DeadlineFires, WorldStays, TypeOK,
     IsProcess, Waits, Found
<1>6. (Checked /\ DoctorAnswers)'
  BY <1>2 DEF DeadlineFires, Checked, DoctorAnswers
<1> QED
  BY <1>1, <1>4, <1>5, <1>6

\* Ctrl-C ends a wait that is under way and changes no more.
LEMMA InterruptKeeps ==
  ASSUME LaunchInv, Interrupt
  PROVE  LaunchInv'
<1> USE DEF LaunchInv
<1>1. TypeOK' /\ TypeOK /\ IsProcess(p)
  BY TypeNext DEF Next, TypeOK
<1>2. /\ p'.pc = p.pc /\ p'.lastErr = p.lastErr
     
      /\ p'.own = p.own /\ p'.inTime = p.inTime /\ p'.wakeAt = p.wakeAt
      /\ p'.startedAt = p.startedAt /\ p'.woken = p.woken /\ p'.cmd = p.cmd /\ p'.tried = p.tried
      /\ p'.cancelled /\ p'.connect = p.connect /\ p'.wait = p.wait
      /\ p'.deadline = p.deadline /\ p'.hint = p.hint /\ p'.level = p.level
      /\ p'.waitErr = IF InWait /\ p.waitErr = "none" THEN "cancelled" ELSE p.waitErr
      /\ p'.tryErr = p.tryErr
  BY <1>1 DEF Interrupt, IsProcess
<1>3. (Fresh /\ Waits /\ Hinted /\ Causes /\ Roles)'
  BY <1>1, <1>2 DEF Interrupt, WorldStays, TypeOK, IsProcess, Fresh, Waits, Hinted,
     Causes, Roles
<1>4. Found'
  BY <1>2 DEF Interrupt, WorldStays, Waits, Found
<1>5. (Checked /\ DoctorAnswers)'
  BY <1>2 DEF Interrupt, Ended, Checked, DoctorAnswers
<1> QED
  BY <1>1, <1>3, <1>4, <1>5

\* A VM that comes up while a command waits has just come up.
LEMMA WorldKeeps ==
  ASSUME LaunchInv, WorldMoves
  PROVE  LaunchInv'
<1> USE DEF LaunchInv
<1>1. TypeOK' /\ TypeOK
  BY TypeNext DEF Next
<1>2. (Fresh /\ Waits /\ Hinted /\ Causes /\ Roles /\ Checked /\ DoctorAnswers)'
  BY DEF WorldMoves, Fresh, Waits, Hinted, Causes, Roles, Checked, DoctorAnswers
<1>3. Found'
  BY <1>1, LaunchAssumption DEF WorldMoves, TypeOK, IsProcess, Waits, Found
<1> QED
  BY <1>1, <1>2, <1>3

\* Every step keeps the invariant.
LEMMA NextKeeps == LaunchInv /\ [Next]_vars => LaunchInv'
<1> SUFFICES ASSUME LaunchInv, [Next]_vars PROVE LaunchInv'
  OBVIOUS
<1>1. CASE UNCHANGED vars
  BY <1>1 DEF vars, LaunchInv, TypeOK, Fresh, Waits, Found, Hinted, Causes, Roles,
              Checked, DoctorAnswers
<1>2. CASE Next
  BY <1>2, LoadKeeps, ParseKeeps, WakeKeeps, WakeFailsKeeps, LeavesKeeps,
     ProbeSucceedsKeeps, FailsKeeps, PauseKeeps, TimerKeeps, DiagnoseKeeps, HandOverKeeps,
     CheckLocalKeeps, CheckInstanceKeeps, CheckActivityKeeps, CheckReachableKeeps,
     CheckRemoteKeeps, AdvanceKeeps, DeadlineKeeps, InterruptKeeps, WorldKeeps
     DEF Next, Proceed
<1> QED
  BY <1>1, <1>2

-----------------------------------------------------------------------------
(* What the commands promise.                                              *)

\* In every run the process is where the invariant puts it.
THEOREM Inductive == Spec => []LaunchInv
  BY InitLaunch, NextKeeps, PTL DEF Spec

\* The error of a wait that timed out is that of the last probe that failed by itself, or
\* of the last that did so before the deadline.
THEOREM TheCauseIsKept == Spec => []CauseKept
<1>1. LaunchInv => CauseKept
  BY DEF LaunchInv, Waits, Causes, CauseKept
<1> QED
  BY <1>1, Inductive, PTL

\* The wait gives up on no VM that answered long enough before its deadline.
THEOREM AVMThatIsUpIsFound == Spec => []UpInTimeIsFound
<1>1. LaunchInv => UpInTimeIsFound
  BY LaunchAssumption DEF LaunchInv, Waits, Found, UpInTimeIsFound, TypeOK, IsProcess
<1> QED
  BY <1>1, Inductive, PTL

\* The hint follows a wait that ran to its deadline, and no other failure.
THEOREM TheHintFollowsTheWait == Spec => []HintFollowsTheWait
<1>1. LaunchInv => HintFollowsTheWait
  BY DEF LaunchInv, Waits, Hinted, HintFollowsTheWait
<1> QED
  BY <1>1, Inductive, PTL

\* doctor answers every check and never hides a wake or an SSH that failed.
THEOREM DoctorKeepsItsWord == Spec => []DoctorAnswers
<1>1. LaunchInv => DoctorAnswers
  BY DEF LaunchInv
<1> QED
  BY <1>1, Inductive, PTL

-----------------------------------------------------------------------------
(* The two readers of the configuration.                                   *)

\* A key is absent or has one value.
LEMMA KeyCases ==
  ASSUME NEW key, NEW values, Key(key, values)
  PROVE  key = <<>> \/ key[1] \in values
BY DEF Key

\* The windows have the same times on both sides.
LEMMA TimesAgree ==
  ASSUME NEW t \in Seq(Int)
  PROVE  /\ Hhmm(t) <=> ParseDayTime(t) >= 0
         /\ Hhmm(t) => ParseDayTime(t) = t[1] * 60 + t[2]
<1>1. CASE Hhmm(t)
  <2>1. \A h \in 0..23, m \in 0..59 : 60 * h + m >= 0 /\ 60 * h + m = h * 60 + m
    OBVIOUS
  <2> QED
    BY <1>1, <2>1 DEF Hhmm, ParseDayTime
<1>2. CASE ~Hhmm(t)
  BY <1>2 DEF Hhmm, ParseDayTime
<1> QED
  BY <1>1, <1>2

\* Both sides take the same window for switched on.
LEMMA WindowOn ==
  ASSUME NEW raw, Decoded(raw)
  PROVE  TfEnabled(raw) <=> Active(raw.hours)
BY DEF TfEnabled, Active, Try, Given

\* A whole number of minutes is what the decoder makes of it.
LEMMA WholeMinutes ==
  ASSUME NEW h \in Int, h % 2 = 0
  PROVE  DecodeInt(h) \in Int /\ h = 2 * DecodeInt(h)
<1>1. CASE h >= 0
  BY <1>1 DEF DecodeInt
<1>2. CASE h < 0
  <2>1. -h \in Int /\ (-h) % 2 = 0 /\ -h = 2 * ((-h) \div 2)
    BY <1>2
  <2> QED
    BY <1>2, <2>1 DEF DecodeInt
<1> QED
  BY <1>1, <1>2

\* The idle timeout of a file with whole minutes, absent or given.
LEMMA IdleAgrees ==
  ASSUME NEW raw, Decoded(raw), TfIdle(raw) % 2 = 0
  PROVE  /\ TfIdle(raw) \in Int /\ IdleTimeoutOf(raw) \in Int
         /\ TfIdle(raw) = 2 * IdleTimeoutOf(raw)
<1>1. CASE raw.idle = <<>>
  BY <1>1 DEF TfIdle, IdleTimeoutOf, Try
<1>2. CASE raw.idle # <<>>
  <2>1. raw.idle[1] \in Int
    BY <1>2, KeyCases DEF Decoded
  <2> QED
    BY <1>2, <2>1, WholeMinutes DEF TfIdle, IdleTimeoutOf, Try
<1> QED
  BY <1>1, <1>2

\* The same days protect on both sides.
LEMMA DaysAgree ==
  ASSUME NEW raw, TfEnabled(raw), raw.hours # <<>>, KnownDays(raw.hours[1].days),
         raw.hours[1].days # <<>>
  PROVE  TfDays(raw) = Weekdays(raw.hours[1].days)
BY DEF TfDays, Weekdays, KnownDays

\* Both sides fill in the same default.
LEMMA DefaultsAgree == \A key, default : OrDefault(key, default) = Coalesced(key, default)
  BY DEF OrDefault, Coalesced, Given, Try

\* The parts of a window that is switched on.
LEMMA WindowParts ==
  ASSUME NEW raw, Decoded(raw), TfEnabled(raw)
  PROVE  /\ raw.hours # <<>>
         /\ Active(raw.hours)
         /\ raw.hours[1].start \in Seq(Int) /\ raw.hours[1].end \in Seq(Int)
         /\ raw.hours[1].days \in Seq(STRING)
BY WindowOn DEF Decoded, TfEnabled

\* The preconditions on the times are those of New.
LEMMA WindowAgrees ==
  ASSUME NEW raw, Decoded(raw), LoadLocation(raw.timezone)
  PROVE  /\ Build(raw).ok <=> (TfEnabled(raw) => TimesOk(raw) /\ TfStart(raw) < TfEnd(raw))
         /\ Build(raw).ok => TfStart(raw) = Build(raw).start /\ TfEnd(raw) = Build(raw).end
         /\ Build(raw).enabled <=> TfEnabled(raw)
<1> DEFINE start == raw.hours[1].start
           end   == raw.hours[1].end
<1>1. CASE TfEnabled(raw)
  <2>1. /\ Hhmm(start) <=> ParseDayTime(start) >= 0
        /\ Hhmm(start) => ParseDayTime(start) = start[1] * 60 + start[2]
        /\ Hhmm(end) <=> ParseDayTime(end) >= 0
        /\ Hhmm(end) => ParseDayTime(end) = end[1] * 60 + end[2]
    BY <1>1, WindowParts, TimesAgree
  <2>2. TimesOk(raw) => TfStart(raw) = ParseDayTime(start) /\ TfEnd(raw) = ParseDayTime(end)
    BY <1>1, <2>1, WindowParts DEF TimesOk, TfStart, TfEnd, TfMinutes
  <2>3. /\ Build(raw).start = ParseDayTime(start) /\ Build(raw).end = ParseDayTime(end)
        /\ Build(raw).ok <=> /\ ParseDayTime(start) >= 0 /\ ParseDayTime(end) >= 0
                             /\ ParseDayTime(start) < ParseDayTime(end)
        /\ Build(raw).enabled
    BY <1>1, WindowParts DEF Build
  <2> HIDE DEF start, end
  <2>4. TimesOk(raw) <=> ParseDayTime(start) >= 0 /\ ParseDayTime(end) >= 0
    BY <2>1 DEF TimesOk, start, end
  <2> QED
    BY <1>1, <2>2, <2>3, <2>4
<1>2. CASE ~TfEnabled(raw)
  <2>1. ~Active(raw.hours)
    BY <1>2, WindowOn
  <2>2. Build(raw).ok /\ ~Build(raw).enabled /\ Build(raw).start = -1 /\ Build(raw).end = -1
    BY <2>1 DEF Build
  <2>3. TfStart(raw) = -1 /\ TfEnd(raw) = -1
    BY <1>2 DEF TfStart, TfEnd, TfMinutes
  <2> QED
    BY <1>2, <2>2, <2>3
<1> QED
  BY <1>1, <1>2

\* What both readers accept, they read alike.
LEMMA SidesAgreeOnAll ==
  ASSUME NEW raw, Decoded(raw)
  PROVE  SidesAgree(raw)
<1> SUFFICES ASSUME Accepts(raw), TfAccepts(raw)
             PROVE  LET c == Parsed(raw)
                        w == c.window IN
                    /\ TfIdle(raw) = 2 * c.idle
                    /\ TfStart(raw) = w.start /\ TfEnd(raw) = w.end
                    /\ TfDays(raw) = IF w.enabled /\ w.days = {} THEN 0..6 ELSE w.days
                    /\ c.database = Coalesced(raw.database, "(default)")
                    /\ c.collection = Coalesced(raw.collection, "workbox")
                    /\ c.document = Coalesced(raw.document, raw.name)
                    /\ c.sshTarget = Coalesced(raw.sshTarget, raw.hostname)
  BY Zenon DEF SidesAgree
<1>1. TfIdle(raw) = 2 * IdleTimeoutOf(raw)
  BY IdleAgrees DEF TfAccepts, WholeAndLong
<1>2. Build(raw).ok /\ LoadLocation(raw.timezone)
  BY DEF Accepts, Validate, Build
<1>3. TfStart(raw) = Build(raw).start /\ TfEnd(raw) = Build(raw).end
  BY <1>2, WindowAgrees
<1>4. TfDays(raw) = IF Build(raw).enabled /\ Build(raw).days = {} THEN 0..6
                    ELSE Build(raw).days
  <2>1. CASE TfEnabled(raw)
    <3> DEFINE days == raw.hours[1].days
    <3>1. Build(raw).enabled /\ Build(raw).days = Weekdays(days)
      BY <2>1, WindowParts DEF Build
    <3>2. KnownDays(days)
      BY <2>1, WindowParts DEF Accepts, Validate
    <3>3. CASE days = <<>>
      <4>1. Weekdays(days) = {}
        BY <3>3 DEF Weekdays
      <4> QED
        BY <2>1, <3>1, <3>3, <4>1 DEF TfDays
    <3>4. CASE days # <<>>
      <4>1. Weekdays(days) # {}
        <5>1. days \in Seq(STRING)
          BY <2>1, WindowParts
        <5>2. 1 \in DOMAIN days
          BY <3>4, <5>1
        <5> QED
          BY <5>2 DEF Weekdays
      <4> QED
        BY <2>1, <3>1, <3>2, <3>4, <4>1, WindowParts, DaysAgree
    <3> QED
      BY <3>3, <3>4
  <2>2. CASE ~TfEnabled(raw)
    BY <2>2, WindowOn DEF Build, TfDays
  <2> QED
    BY <2>1, <2>2
<1>5. \A key, default : OrDefault(key, default) = Coalesced(key, default)
  BY DefaultsAgree
<1>6. /\ Parsed(raw).idle = IdleTimeoutOf(raw) /\ Parsed(raw).window = Build(raw)
      /\ Parsed(raw).database = OrDefault(raw.database, "(default)")
      /\ Parsed(raw).collection = OrDefault(raw.collection, "workbox")
      /\ Parsed(raw).document = OrDefault(raw.document, raw.name)
      /\ Parsed(raw).sshTarget = OrDefault(raw.sshTarget, raw.hostname)
  BY Zenon DEF Parsed
<1> QED
  BY <1>1, <1>3, <1>4, <1>5, <1>6, Zenon

\* The range of the idle timeout is the same on both sides.
LEMMA IdleRange ==
  ASSUME NEW raw, Decoded(raw), TfIdle(raw) % 2 = 0
  PROVE  IdleInRange(IdleTimeoutOf(raw)) <=> WholeAndLong(TfIdle(raw))
BY IdleAgrees DEF IdleInRange, WholeAndLong

\* A schedule one side refuses, the other refuses too.
LEMMA RefusedAlikeOnAll ==
  ASSUME NEW raw, Decoded(raw)
  PROVE  RefusedAlike(raw)
<1> SUFFICES ASSUME LoadLocation(raw.timezone), raw.legacy # "null", TfIdle(raw) % 2 = 0,
                    raw.blank = {}, raw.bootGB > 0, raw.dataGB > 0,
                    Given(raw.swap, 0) >= 0, Given(raw.connect, 1) > 0,
                    Given(raw.wait, 1) > 0
             PROVE  Accepts(raw) <=> TfAccepts(raw)
  BY DEF RefusedAlike
<1> QED
  BY WindowAgrees, IdleRange DEF Decoded, Accepts, Validate, TfAccepts

-----------------------------------------------------------------------------
\* Whatever the file says, the two readers agree on it.
THEOREM TheReadersAgree == Spec => []ReadersAgree
<1>1. LaunchInv => ReadersAgree
  BY SidesAgreeOnAll, LaunchAssumption DEF LaunchInv, Fresh, ReadersAgree
<1> QED
  BY <1>1, Inductive, PTL

\* Whatever the file says, the two readers refuse the same schedules.
THEOREM TheReadersRefuseAlike == Spec => []ReadersRefuseAlike
<1>1. LaunchInv => ReadersRefuseAlike
  BY RefusedAlikeOnAll, LaunchAssumption DEF LaunchInv, Fresh, ReadersRefuseAlike, Decoded
<1> QED
  BY <1>1, Inductive, PTL
-----------------------------------------------------------------------------
(* Loops over lists: induction over their rounds, with a set of rounds for *)
(* the schema.  A set of numbers up to n that holds 0 and with a number    *)
(* the next one holds them all: adding 1 would map those below a missing   *)
(* one one-to-one into all of them but 0.                                  *)

\* Induction up to a number, for a set of numbers.
LEMMA Induction ==
  ASSUME NEW n \in Nat, NEW S, 0 \in S, \A i \in 1..n : i - 1 \in S => i \in S
  PROVE  0..n \subseteq S
<1> SUFFICES ASSUME NEW k \in 0..n, k \notin S PROVE FALSE
  OBVIOUS
<1> DEFINE T == S \cap (0..(k - 1))
           U == T \ {0}
           f == [x \in T |-> x + 1]
<1>1. IsFiniteSet(0..(k - 1))
  BY FS_Interval
<1>2. T \in SUBSET (0..(k - 1))
  OBVIOUS
<1>3. IsFiniteSet(T)
  BY <1>1, <1>2, FS_Subset
<1>4. k > 0 /\ 0 \in T
  OBVIOUS
<1>5. IsFiniteSet(U) /\ Cardinality(U) = Cardinality(T) - 1 /\ Cardinality(T) \in Nat
  BY <1>3, <1>4, FS_RemoveElement, FS_CardinalityType
<1>6. \A x \in T : x + 1 \in U
  OBVIOUS
<1>7. f \in [T -> U] /\ \A x, y \in T : f[x] = f[y] => x = y
  <2>1. f \in [T -> U]
    BY <1>6
  <2>2. \A x \in T : f[x] = x + 1 /\ x \in Int
    OBVIOUS
  <2> QED
    BY <2>1, <2>2
<1> HIDE DEF f, T, U
<1>9. f \in Injection(T, U)
  BY <1>7 DEF Injection, IsInjective
<1>8. Cardinality(T) <= Cardinality(U)
  BY <1>5, <1>9, FS_Injection
<1> QED
  BY <1>5, <1>8

\* The body of a loop of n rounds that begins with a, as a function of the round and
\* of what the round before it left, and the values it runs through.
IsBody(body, n, a, values) == a \in values /\ body \in [(1..n) \X values -> values]

IsRun(g, n, a, body, values) ==
  /\ g \in [0..n -> values] /\ g[0] = a
  /\ \A i \in 1..n : g[i] = body[<<i, g[i - 1]>>]

\* What a loop computes exists.
LEMMA Recursion ==
  ASSUME NEW n \in Nat, NEW a, NEW body, NEW values, IsBody(body, n, a, values)
  PROVE  \E g : IsRun(g, n, a, body, values)
<1> USE DEF IsBody
<1> DEFINE Upto(k, g) == IsRun(g, k, a, body, values)
           S == {k \in 0..n : \E g : Upto(k, g)}
<1>1. 0 \in S
  <2> DEFINE z == [i \in 0..0 |-> a]
  <2>1. z \in [0..0 -> values] /\ z[0] = a /\ 1..0 = {}
    OBVIOUS
  <2> HIDE DEF z
  <2>2. Upto(0, z)
    BY <2>1 DEF IsRun
  <2> HIDE DEF Upto
  <2>3. \E g : Upto(0, g)
    BY <2>2
  <2> QED
    BY <2>3
<1>2. ASSUME NEW k \in 1..n, k - 1 \in S PROVE k \in S
  <2>1. PICK g : Upto(k - 1, g)
    BY <1>2
  <2> DEFINE h == [i \in 0..k |-> IF i = k THEN body[<<k, g[k - 1]>>] ELSE g[i]]
  <2>2. g[k - 1] \in values
    BY <2>1 DEF IsRun
  <2>3. body[<<k, g[k - 1]>>] \in values
    BY <2>2
  <2>4. h \in [0..k -> values]
    BY <2>1, <2>3 DEF IsRun
  <2>5. h[0] = a /\ h[k] = body[<<k, g[k - 1]>>] /\ \A i \in 0..(k - 1) : h[i] = g[i]
    BY <2>1 DEF IsRun
  <2> HIDE DEF h
  <2>6. ASSUME NEW i \in 1..k PROVE h[i] = body[<<i, h[i - 1]>>]
    <3>1. i - 1 \in 0..(k - 1)
      OBVIOUS
    <3>2. h[i - 1] = g[i - 1]
      BY <2>5, <3>1
    <3>3. CASE i = k
      BY <2>5, <3>2, <3>3
    <3>4. CASE i # k
      <4>1. i \in 1..(k - 1) /\ i \in 0..(k - 1)
        BY <3>4
      <4>2. g[i] = body[<<i, g[i - 1]>>]
        BY <2>1, <4>1 DEF IsRun
      <4>3. h[i] = g[i]
        BY <2>5, <4>1
      <4> QED
        BY <3>2, <4>2, <4>3
    <3> QED
      BY <3>3, <3>4
  <2>7. Upto(k, h)
    BY <2>4, <2>5, <2>6 DEF IsRun
  <2> HIDE DEF Upto
  <2>8. \E g1 : Upto(k, g1)
    BY <2>7
  <2> QED
    BY <2>8
<1> HIDE DEF S
<1>3. 0..n \subseteq S
  BY <1>1, <1>2, Induction
<1> HIDE DEF Upto
<1>4. \E g : Upto(n, g)
  BY <1>3 DEF S
<1> QED
  BY <1>4 DEF Upto

\* What a list of a set holds is of the set.
LEMMA ElementOf ==
  ASSUME NEW T, NEW s \in Seq(T), NEW i \in DOMAIN s
  PROVE  s[i] \in T
OBVIOUS

\* Appending keeps what was there.
LEMMA Appended ==
  ASSUME NEW T, NEW s \in Seq(T), NEW x \in T
  PROVE  /\ Append(s, x) \in Seq(T) /\ Len(Append(s, x)) = Len(s) + 1
         /\ Append(s, x)[Len(s) + 1] = x /\ \A i \in 1..Len(s) : Append(s, x)[i] = s[i]
OBVIOUS

\* A set of positions that is not empty has a first one.
LEMMA Least ==
  ASSUME NEW n \in Nat, NEW I \in SUBSET (1..n), I # {}
  PROVE  \E m \in I : \A j \in I : m <= j
<1> SUFFICES ASSUME \A m \in I : \E j \in I : ~(m <= j) PROVE FALSE
  OBVIOUS
<1> DEFINE S == {k \in 0..n : \A j \in I : j > k}
<1>1. 0 \in S
  OBVIOUS
<1>2. ASSUME NEW k \in 1..n, k - 1 \in S PROVE k \in S
  <2>1. \A j \in I : j >= k
    BY <1>2
  <2>2. k \notin I
    BY <2>1
  <2> QED
    BY <2>1, <2>2
<1> HIDE DEF S
<1>3. 0..n \subseteq S
  BY <1>1, <1>2, Induction
<1>4. n \in S
  BY <1>3
<1>5. PICK j : j \in I
  OBVIOUS
<1>6. j > n
  BY <1>4, <1>5 DEF S
<1> QED
  BY <1>5, <1>6

\* One field of every record of a list.
LEMMA Column ==
  ASSUME NEW T, NEW s \in Seq(T), NEW V, NEW values,
         values = [i \in DOMAIN s |-> values[i]],
         \A i \in DOMAIN s : values[i] \in V
  PROVE  values \in Seq(V) /\ Len(values) = Len(s) /\ DOMAIN s = 1..Len(values)
OBVIOUS

-----------------------------------------------------------------------------
\* What ParseForwards computes, round by round.
LEMMA ForwardRounds ==
  ASSUME NEW specs \in Seq(Seq(Int))
  PROVE  \E r :
            /\ r[0] = [ok |-> TRUE, forwards |-> <<>>]
            /\ \A i \in 1..Len(specs) : r[i] = Extended(r[i - 1], specs[i])
            /\ ParseForwards(specs) = r[Len(specs)]
<1> DEFINE Results == [ok : BOOLEAN, forwards : Seq([local : Port, remote : Port])]
           start == [ok |-> TRUE, forwards |-> <<>>]
           len == Len(specs)
           round == [x \in (1..len) \X Results |-> Extended(x[2], specs[x[1]])]
           Rounds(r) == r = [i \in 0..len |-> IF i = 0 THEN start
                                              ELSE Extended(r[i - 1], specs[i])]
<1>1. len \in Nat /\ start \in Results
  OBVIOUS
<1>2. \A spec \in Seq(Int) :
         ParseForward(spec) # Invalid => ParseForward(spec) \in [local : Port, remote : Port]
  BY DEF ParseForward, Invalid, Last
<1>3. \A i \in 1..len, t \in Results : Extended(t, specs[i]) \in Results
  BY <1>2 DEF Extended
<1>4. round \in [(1..len) \X Results -> Results]
  BY <1>3
<1>5. \A i \in 1..len, t \in Results : round[<<i, t>>] = Extended(t, specs[i])
  OBVIOUS
<1>6. ParseForwards(specs) = (CHOOSE r : Rounds(r))[len]
  BY DEF ParseForwards, start
<1> HIDE DEF round, Results, start, len
<1>7. IsBody(round, len, start, Results)
  BY <1>1, <1>4 DEF IsBody
<1>8. PICK g : IsRun(g, len, start, round, Results)
  <2> HIDE DEF Rounds
  <2> QED
    BY <1>1, <1>7, Recursion
<1>9. Rounds(g)
  <2>1. g \in [0..len -> Results]
    BY <1>8 DEF IsRun
  <2>2. \A i \in 1..len : g[i] = Extended(g[i - 1], specs[i])
    <3> SUFFICES ASSUME NEW i \in 1..len PROVE g[i] = Extended(g[i - 1], specs[i])
      OBVIOUS
    <3>1. i - 1 \in 0..len
      BY <1>1
    <3> QED
      BY <1>5, <1>8, <2>1, <3>1 DEF IsRun
  <2> QED
    BY <1>1, <1>8, <2>1, <2>2 DEF IsRun
<1> DEFINE r == CHOOSE r : Rounds(r)
<1>10. Rounds(r)
  <2> HIDE DEF Rounds
  <2> QED
    BY <1>9
<1> HIDE DEF r
<1>11. r[0] = start /\ \A i \in 1..len : r[i] = Extended(r[i - 1], specs[i])
  BY <1>1, <1>10
<1>12. ParseForwards(specs) = r[len]
  BY <1>6 DEF r
<1> QED
  BY <1>11, <1>12 DEF start, len

\* What has been parsed can be forwarded: the ports are ports, no local one comes twice.
LEMMA ParsedForwards ==
  ASSUME NEW specs \in Seq(Seq(Int))
  PROVE  /\ ParseForwards(specs).forwards \in Seq([local : Port, remote : Port])
         /\ \A i, j \in DOMAIN ParseForwards(specs).forwards :
              ParseForwards(specs).forwards[i].local = ParseForwards(specs).forwards[j].local
                => i = j
<1> DEFINE Good(t) == /\ t.forwards \in Seq([local : Port, remote : Port])
                      /\ \A i, j \in DOMAIN t.forwards :
                           t.forwards[i].local = t.forwards[j].local => i = j
<1>1. PICK r : /\ r[0] = [ok |-> TRUE, forwards |-> <<>>]
               /\ \A i \in 1..Len(specs) : r[i] = Extended(r[i - 1], specs[i])
               /\ ParseForwards(specs) = r[Len(specs)]
  BY ForwardRounds
<1> DEFINE S == {i \in 0..Len(specs) : Good(r[i])}
<1>2. 0 \in S
  <2>1. r[0].forwards = <<>>
    BY <1>1
  <2>2. Good(r[0])
    BY <2>1
  <2> QED
    BY <2>2
<1>3. ASSUME NEW i \in 1..Len(specs), i - 1 \in S PROVE i \in S
  <2> DEFINE t == r[i - 1]
             f == ParseForward(specs[i])
  <2>1. Good(t)
    BY <1>3
  <2>2. r[i] = Extended(t, specs[i])
    BY <1>1
  <2>3. f # Invalid => f \in [local : Port, remote : Port]
    BY DEF ParseForward, Invalid, Last
  <2> HIDE DEF t, f
  <2>4. CASE f = Invalid \/ ~t.ok \/ Taken(t.forwards, f)
    BY <2>1, <2>2, <2>4 DEF Extended, f
  <2>5. CASE ~(f = Invalid \/ ~t.ok \/ Taken(t.forwards, f))
    <3>1. r[i].forwards = Append(t.forwards, f)
      BY <2>2, <2>5 DEF Extended, f
    <3>2. \A j \in DOMAIN t.forwards : t.forwards[j].local # f.local
      BY <2>5 DEF Taken, Locals
    <3>3. Good(r[i])
      BY <2>1, <2>3, <2>5, <3>1, <3>2
    <3> QED
      BY <3>3
  <2> QED
    BY <2>4, <2>5
<1> HIDE DEF S
<1>4. Len(specs) \in S
  <2>1. Len(specs) \in Nat
    OBVIOUS
  <2>2. 0..Len(specs) \subseteq S
    BY <1>2, <1>3, <2>1, Induction
  <2> QED
    BY <2>1, <2>2
<1> QED
  BY <1>1, <1>4 DEF S

\* Arguments that are accepted can be set up.
LEMMA AcceptedIsBindable ==
  ASSUME NEW args, IsArgs(args),
         PortsFree(ParseForwards(args.specs).forwards, args.families, args.taken)
  PROVE  Bindable(ParseForwards(args.specs).forwards, args.families, args.taken)
<1> DEFINE fs == ParseForwards(args.specs).forwards
<1>1. /\ fs \in Seq([local : Port, remote : Port])
      /\ \A i, j \in DOMAIN fs : fs[i].local = fs[j].local => i = j
  BY ParsedForwards DEF IsArgs
<1>2. \A host \in args.families, port \in Locals(fs) : <<host, port>> \notin args.taken
  BY DEF IsArgs, PortsFree
<1> HIDE DEF fs
<1>3. \A i \in DOMAIN fs : fs[i].local \in Locals(fs)
  BY DEF Locals
<1>4. \A i \in DOMAIN fs : {fs[i].local, fs[i].remote} \subseteq Port
  <2>1. \A f \in [local : Port, remote : Port] : f.local \in Port /\ f.remote \in Port
    OBVIOUS
  <2>2. \A i \in DOMAIN fs : fs[i] \in [local : Port, remote : Port]
    BY <1>1, ElementOf
  <2>3. \A i \in DOMAIN fs : fs[i].local \in Port /\ fs[i].remote \in Port
    BY <2>1, <2>2
  <2> QED
    BY <2>3
<1>5. \A i \in DOMAIN fs : \A host \in args.families :
         <<host, fs[i].local>> \notin args.taken
  BY <1>2, <1>3
<1>6. Bindable(fs, args.families, args.taken)
  BY <1>1, <1>4, <1>5 DEF Bindable
<1> QED
  BY <1>6 DEF fs

-----------------------------------------------------------------------------
\* What SplitList computes, round by round.
LEMMA ListRounds ==
  ASSUME NEW entries \in Seq(STRING)
  PROVE  \E r : /\ r[0] = <<>>
                /\ \A i \in 1..Len(entries) : r[i] = Listed(r[i - 1], entries[i])
                /\ SplitList(entries) = r[Len(entries)]
<1> DEFINE Results == Seq(STRING \cup {Ellipsis})
           start == <<>>
           len == Len(entries)
           round == [x \in (1..len) \X Results |-> Listed(x[2], entries[x[1]])]
           Rounds(r) == r = [i \in 0..len |-> IF i = 0 THEN start
                                              ELSE Listed(r[i - 1], entries[i])]
<1>1. len \in Nat /\ start \in Results
  OBVIOUS
<1>2. \A i \in 1..len, t \in Results : Listed(t, entries[i]) \in Results
  BY DEF Listed
<1>3. round \in [(1..len) \X Results -> Results]
  BY <1>2
<1>4. \A i \in 1..len, t \in Results : round[<<i, t>>] = Listed(t, entries[i])
  OBVIOUS
<1>5. SplitList(entries) = (CHOOSE r : Rounds(r))[len]
  BY DEF SplitList, start
<1> HIDE DEF round, Results, start, len
<1>6. IsBody(round, len, start, Results)
  BY <1>1, <1>3 DEF IsBody
<1>7. PICK g : IsRun(g, len, start, round, Results)
  <2> HIDE DEF Rounds
  <2> QED
    BY <1>1, <1>6, Recursion
<1>8. Rounds(g)
  <2>1. g \in [0..len -> Results]
    BY <1>7 DEF IsRun
  <2>2. ASSUME NEW i \in 1..len PROVE g[i] = Listed(g[i - 1], entries[i])
    <3>1. i - 1 \in 0..len
      BY <1>1
    <3> QED
      BY <1>4, <1>7, <2>1, <3>1 DEF IsRun
  <2> QED
    BY <1>1, <1>7, <2>1, <2>2 DEF IsRun
<1> DEFINE r == CHOOSE r : Rounds(r)
<1>9. Rounds(r)
  <2> HIDE DEF Rounds
  <2> QED
    BY <1>8
<1> HIDE DEF r
<1>10. r[0] = start /\ \A i \in 1..len : r[i] = Listed(r[i - 1], entries[i])
  BY <1>1, <1>9
<1>11. SplitList(entries) = r[len]
  BY <1>5 DEF r
<1> QED
  BY <1>10, <1>11 DEF start, len

\* How many of the entries up to a position are usable.
Usable(entries) == {i \in DOMAIN entries : entries[i] # NoValue}

Upto(entries, k) == {i \in Usable(entries) : i <= k}

Place(entries, k) == Cardinality(Upto(entries, k))

\* A usable entry comes one place after those before it, another adds none.
LEMMA Places ==
  ASSUME NEW entries \in Seq(STRING), NEW k \in 1..Len(entries)
  PROVE  /\ Place(entries, k - 1) \in Nat
         /\ Place(entries, 0) = 0
         /\ Place(entries, k) = IF entries[k] = NoValue THEN Place(entries, k - 1)
                                ELSE Place(entries, k - 1) + 1
         /\ \A i \in 1..(k - 1) :
              Place(entries, i) \in Nat /\ Place(entries, i) <= Place(entries, k - 1)
<1>1. \A i \in 0..Len(entries) : IsFiniteSet(Upto(entries, i))
  <2> SUFFICES ASSUME NEW i \in 0..Len(entries) PROVE IsFiniteSet(Upto(entries, i))
    OBVIOUS
  <2>1. Upto(entries, i) \subseteq 1..Len(entries)
    BY DEF Upto, Usable
  <2>2. IsFiniteSet(1..Len(entries))
    BY FS_Interval
  <2> QED
    BY <2>1, <2>2, FS_Subset
<1>2. Upto(entries, 0) = {}
  BY DEF Upto, Usable
<1>3. Place(entries, k - 1) \in Nat /\ Place(entries, 0) = 0
  <2>1. k - 1 \in 0..Len(entries)
    OBVIOUS
  <2> QED
    BY <1>1, <1>2, <2>1, FS_CardinalityType, FS_EmptySet DEF Place
<1>4. Place(entries, k) = IF entries[k] = NoValue THEN Place(entries, k - 1)
                          ELSE Place(entries, k - 1) + 1
  <2>1. CASE entries[k] = NoValue
    <3>1. Upto(entries, k) = Upto(entries, k - 1)
      BY <2>1 DEF Upto, Usable
    <3> QED
      BY <2>1, <3>1 DEF Place
  <2>2. CASE entries[k] # NoValue
    <3>1. Upto(entries, k) = Upto(entries, k - 1) \cup {k} /\ k \notin Upto(entries, k - 1)
      BY <2>2 DEF Upto, Usable
    <3>2. IsFiniteSet(Upto(entries, k - 1))
      <4>1. k - 1 \in 0..Len(entries)
        OBVIOUS
      <4> QED
        BY <1>1, <4>1
    <3> QED
      BY <2>2, <3>1, <3>2, FS_AddElement DEF Place
  <2> QED
    BY <2>1, <2>2
<1>5. ASSUME NEW i \in 1..(k - 1)
      PROVE  Place(entries, i) \in Nat /\ Place(entries, i) <= Place(entries, k - 1)
  <2>1. Upto(entries, i) \subseteq Upto(entries, k - 1)
    BY DEF Upto, Usable
  <2>2. i \in 0..Len(entries) /\ k - 1 \in 0..Len(entries)
    OBVIOUS
  <2>3. IsFiniteSet(Upto(entries, i)) /\ IsFiniteSet(Upto(entries, k - 1))
    BY <1>1, <2>2
  <2> QED
    BY <2>1, <2>3, FS_Subset, FS_CardinalityType DEF Place
<1> QED
  BY <1>3, <1>4, <1>5

\* A list of zones is honest about what it leaves out.
LEMMA ListIsCut ==
  ASSUME NEW entries \in Seq(STRING)
  PROVE  /\ SplitList(entries) \in Seq(STRING \cup {Ellipsis})
         /\ IsCut(SplitList(entries), entries)
<1> DEFINE n == Len(entries)
           P(k) == Place(entries, k)
           M == MaxListEntries
           Held(list, k) ==
             /\ list \in Seq(STRING \cup {Ellipsis})
             /\ Len(list) = IF P(k) <= M THEN P(k) ELSE M + 1
             /\ \A i \in Usable(entries) : i <= k /\ P(i) <= M => list[P(i)] = entries[i]
             /\ P(k) > M => list[M + 1] = Ellipsis
<1>1. PICK r : /\ r[0] = <<>>
               /\ \A i \in 1..n : r[i] = Listed(r[i - 1], entries[i])
               /\ SplitList(entries) = r[n]
  BY ListRounds
<1>2. n \in Nat /\ M \in Nat
  BY CapacityAssumption
<1>3. \A i \in Usable(entries) : i \in 1..n /\ entries[i] # NoValue
  BY DEF Usable
<1> DEFINE S == {k \in 0..n : Held(r[k], k)}
<1>4. 0 \in S
  <2>1. Upto(entries, 0) = {}
    BY DEF Upto, Usable
  <2>2. P(0) = 0
    BY <2>1, FS_EmptySet DEF Place
  <2>3. Held(r[0], 0)
    BY <1>1, <1>2, <1>3, <2>2
  <2> QED
    BY <1>2, <2>3
<1>5. ASSUME NEW k \in 1..n, k - 1 \in S PROVE k \in S
  <2> DEFINE t == r[k - 1]
             e == entries[k]
             before == P(k - 1)
  <2>1. Held(t, k - 1)
    BY <1>5
  <2>2. r[k] = Listed(t, e)
    BY <1>1
  <2>3. /\ before \in Nat
        /\ P(k) = IF e = NoValue THEN before ELSE before + 1
        /\ \A i \in 1..(k - 1) : P(i) \in Nat /\ P(i) <= before
    BY Places
  <2>4. e \in STRING
    BY ElementOf
  <2>5. \A i \in Usable(entries) : i <= k - 1 => P(i) \in 1..before
    <3> SUFFICES ASSUME NEW i \in Usable(entries), i <= k - 1 PROVE P(i) \in 1..before
      OBVIOUS
    <3>1. i \in 1..(k - 1) /\ i \in 1..Len(entries) /\ entries[i] # NoValue
      BY <1>3
    <3>2. P(i) = P(i - 1) + 1 /\ P(i - 1) \in Nat
      BY <3>1, Places
    <3> QED
      BY <2>3, <3>1, <3>2
  <2>6. \A i \in Usable(entries) : i <= k => i <= k - 1 \/ (i = k /\ e # NoValue)
    BY <1>3
  <2>7. t \in Seq(STRING \cup {Ellipsis}) /\ Len(t) \in Nat
    BY <2>1
  <2> HIDE DEF t, e, P, before, M, n
  <2>8. CASE e = NoValue
    <3>1. r[k] = t /\ P(k) = before
      BY <2>2, <2>3, <2>8 DEF Listed
    <3>2. Held(r[k], k)
      BY <2>1, <2>6, <2>8, <3>1 DEF before
    <3> QED
      BY <3>2
  <2>9. CASE e # NoValue /\ Len(t) > M
    <3>1. r[k] = t /\ P(k) = before + 1
      BY <2>2, <2>3, <2>9 DEF Listed, M
    <3>2. before > M
      BY <1>2, <2>1, <2>3, <2>9 DEF before
    <3>3. Held(r[k], k)
      BY <1>2, <2>1, <2>3, <2>6, <2>9, <3>1, <3>2 DEF before
    <3> QED
      BY <3>3
  <2>10. CASE e # NoValue /\ ~(Len(t) > M)
    <3> DEFINE x == IF Len(t) = M THEN Ellipsis ELSE e
    <3>1. r[k] = Append(t, x) /\ P(k) = before + 1
      BY <2>2, <2>3, <2>10 DEF Listed, M
    <3>2. Len(t) = before /\ before <= M
      BY <1>2, <2>1, <2>3, <2>7, <2>10 DEF before
    <3>3. x \in STRING \cup {Ellipsis}
      BY <2>4
    <3>4. /\ r[k] \in Seq(STRING \cup {Ellipsis}) /\ Len(r[k]) = before + 1
          /\ r[k][before + 1] = x /\ \A i \in 1..before : r[k][i] = t[i]
      <4> DEFINE V == STRING \cup {Ellipsis}
      <4> HIDE DEF x, V
      <4>1. t \in Seq(V) /\ x \in V
        BY <2>7, <3>3 DEF V
      <4>2. /\ Append(t, x) \in Seq(V) /\ Len(Append(t, x)) = Len(t) + 1
            /\ Append(t, x)[Len(t) + 1] = x
            /\ \A i \in 1..Len(t) : Append(t, x)[i] = t[i]
        BY <4>1, Appended
      <4> QED
        BY <3>1, <3>2, <4>2 DEF V
    <3>5. \A i \in Usable(entries) : i <= k /\ P(i) <= M => r[k][P(i)] = entries[i]
      <4> SUFFICES ASSUME NEW i \in Usable(entries), i <= k, P(i) <= M
                   PROVE  r[k][P(i)] = entries[i]
        OBVIOUS
      <4>1. CASE i <= k - 1
        BY <2>1, <2>5, <3>4, <4>1
      <4>2. CASE i = k
        BY <2>3, <3>1, <3>2, <3>4, <4>2 DEF e
      <4> QED
        BY <2>6, <4>1, <4>2
    <3>6. Len(r[k]) = IF P(k) <= M THEN P(k) ELSE M + 1
      BY <1>2, <2>3, <3>1, <3>2, <3>4
    <3>7. P(k) > M => r[k][M + 1] = Ellipsis
      BY <1>2, <2>3, <3>1, <3>2, <3>4
    <3>8. Held(r[k], k)
      BY <3>4, <3>5, <3>6, <3>7
    <3> QED
      BY <3>8
  <2> QED
    BY <2>8, <2>9, <2>10
<1> HIDE DEF S
<1>6. n \in S
  <2>1. 0..n \subseteq S
    BY <1>2, <1>4, <1>5, Induction
  <2> QED
    BY <1>2, <2>1
<1>7. Held(r[n], n)
  BY <1>6 DEF S
<1>8. Upto(entries, n) = Usable(entries)
  BY <1>3 DEF Upto
<1>9. Usable(entries) = {i \in DOMAIN entries : entries[i] # NoValue}
  BY DEF Usable
<1> QED
  BY <1>1, <1>3, <1>7, <1>8, <1>9 DEF IsCut, Place, Upto

-----------------------------------------------------------------------------
Words == STRING \cup {NoValue}

Report == [code : Words, zone : Words, machineType : Words,
           zones : Seq(STRING \cup {Ellipsis}), message : Words]

\* What MergedAll computes, round by round.
LEMMA MergeRounds ==
  ASSUME NEW c \in Report, NEW details \in Seq(Detail)
  PROVE  \E r : /\ r[0] = c
                /\ \A i \in 1..Len(details) : r[i] = Merged(r[i - 1], details[i])
                /\ MergedAll(c, details) = r[Len(details)]
<1> DEFINE len == Len(details)
           round == [x \in (1..len) \X Report |-> Merged(x[2], details[x[1]])]
           Rounds(r) == r = [i \in 0..len |-> IF i = 0 THEN c
                                              ELSE Merged(r[i - 1], details[i])]
<1>1. len \in Nat
  OBVIOUS
<1>2. ASSUME NEW i \in 1..len, NEW t \in Report PROVE Merged(t, details[i]) \in Report
  <2> DEFINE d == details[i]
  <2>1. d \in Detail
    BY ElementOf
  <2> HIDE DEF d
  <2>2. /\ d.zone \in STRING /\ d.vmType \in STRING /\ d.message \in STRING
        /\ d.zonesAvailable \in Seq(STRING)
    BY <2>1 DEF Detail
  <2>3. SplitList(d.zonesAvailable) \in Seq(STRING \cup {Ellipsis})
    BY <2>2, ListIsCut
  <2>4. /\ t.code \in Words /\ t.zone \in Words /\ t.machineType \in Words
        /\ t.message \in Words /\ t.zones \in Seq(STRING \cup {Ellipsis})
    BY DEF Report
  <2>5. Merged(t, d) \in Report
    BY <2>2, <2>3, <2>4 DEF Merged, Filled, Report, Words
  <2> QED
    BY <2>5 DEF d
<1>3. round \in [(1..len) \X Report -> Report]
  BY <1>2
<1>4. \A i \in 1..len, t \in Report : round[<<i, t>>] = Merged(t, details[i])
  OBVIOUS
<1>5. MergedAll(c, details) = (CHOOSE r : Rounds(r))[len]
  BY DEF MergedAll
<1> HIDE DEF round, len
<1>6. IsBody(round, len, c, Report)
  BY <1>3 DEF IsBody
<1>7. PICK g : IsRun(g, len, c, round, Report)
  <2> HIDE DEF Rounds
  <2> QED
    BY <1>1, <1>6, Recursion
<1>8. Rounds(g)
  <2>1. g \in [0..len -> Report]
    BY <1>7 DEF IsRun
  <2>2. ASSUME NEW i \in 1..len PROVE g[i] = Merged(g[i - 1], details[i])
    <3>1. i - 1 \in 0..len
      BY <1>1
    <3> QED
      BY <1>4, <1>7, <2>1, <3>1 DEF IsRun
  <2> QED
    BY <1>1, <1>7, <2>1, <2>2 DEF IsRun
<1> DEFINE r == CHOOSE r : Rounds(r)
<1>9. Rounds(r)
  <2> HIDE DEF Rounds
  <2> QED
    BY <1>8
<1> HIDE DEF r
<1>10. r[0] = c /\ \A i \in 1..len : r[i] = Merged(r[i - 1], details[i])
  BY <1>1, <1>9
<1>11. MergedAll(c, details) = r[len]
  BY <1>5 DEF r
<1> QED
  BY <1>10, <1>11 DEF len

\* A loop that fills a variable as long as it is empty finds the first usable value.
LEMMA FirstFound ==
  ASSUME NEW n \in Nat, NEW values, DOMAIN values = 1..n, NEW none, NEW v, v[0] = none,
         \A i \in 1..n : v[i] = IF v[i - 1] = none THEN values[i] ELSE v[i - 1]
  PROVE  IsFirstUsable(v[n], values, none)
<1> DEFINE FoundBy(k) == \/ v[k] = none /\ \A i \in 1..k : values[i] = none
                        \/ \E i \in 1..k : /\ v[k] = values[i] /\ v[k] # none
                                            /\ \A j \in 1..(i - 1) : values[j] = none
           S == {k \in 0..n : FoundBy(k)}
<1>1. 0 \in S
  OBVIOUS
<1>2. ASSUME NEW k \in 1..n, k - 1 \in S PROVE k \in S
  <2>1. FoundBy(k - 1)
    BY <1>2
  <2>2. CASE v[k - 1] = none
    <3>1. \A i \in 1..(k - 1) : values[i] = none
      BY <2>1, <2>2
    <3>2. v[k] = values[k]
      BY <2>2
    <3>3. FoundBy(k)
      BY <3>1, <3>2
    <3> QED
      BY <3>3
  <2>3. CASE v[k - 1] # none
    <3>1. PICK i \in 1..(k - 1) : /\ v[k - 1] = values[i]
                                  /\ \A j \in 1..(i - 1) : values[j] = none
      BY <2>1, <2>3
    <3>2. v[k] = v[k - 1] /\ i \in 1..k
      BY <2>3
    <3>3. FoundBy(k)
      BY <2>3, <3>1, <3>2
    <3> QED
      BY <3>3
  <2> QED
    BY <2>2, <2>3
<1> HIDE DEF S
<1>3. 0..n \subseteq S
  BY <1>1, <1>2, Induction
<1>4. FoundBy(n)
  BY <1>3 DEF S
<1> QED
  BY <1>4 DEF IsFirstUsable

\* What the details of an item add up to.
LEMMA MergedFields ==
  ASSUME NEW code \in STRING, NEW details \in Seq(Detail), NEW c,
         c = MergedAll(Shortage(code, NoValue), details)
  PROVE  /\ c.code = code
         /\ {"code", "zone", "machineType", "zones", "message"} \subseteq DOMAIN c
         /\ IsFirstUsable(c.zone, [i \in DOMAIN details |-> details[i].zone], NoValue)
         /\ IsFirstUsable(c.machineType, [i \in DOMAIN details |-> details[i].vmType],
                          NoValue)
         /\ IsFirstUsable(c.zones, [i \in DOMAIN details |->
                                      SplitList(details[i].zonesAvailable)], <<>>)
         /\ IsFirstUsable(c.message, [i \in DOMAIN details |-> details[i].message], NoValue)
<1> DEFINE s == Shortage(code, NoValue)
           n == Len(details)
           fields == {"code", "zone", "machineType", "zones", "message"}
<1>1. /\ s.code = code /\ s.zone = NoValue /\ s.machineType = NoValue /\ s.zones = <<>>
      /\ s.message = NoValue /\ fields \subseteq DOMAIN s
  BY DEF Shortage
<1>2. s \in Report
  <2>1. NoValue \in Words /\ code \in Words
    BY DEF Words
  <2>2. <<>> \in Seq(STRING \cup {Ellipsis})
    OBVIOUS
  <2> QED
    BY <2>1, <2>2 DEF Shortage, Report
<1>3. n \in Nat /\ DOMAIN details = 1..n
  OBVIOUS
<1> HIDE DEF s, n, fields
<1>4. PICK r : /\ r[0] = s /\ \A i \in 1..n : r[i] = Merged(r[i - 1], details[i])
               /\ c = r[n]
  BY <1>2, MergeRounds DEF n, s
<1>5. \A i \in 1..n :
        /\ r[i].code = r[i - 1].code
        /\ r[i].zone = Filled(r[i - 1].zone, details[i].zone)
        /\ r[i].machineType = Filled(r[i - 1].machineType, details[i].vmType)
        /\ r[i].zones = IF r[i - 1].zones = <<>> THEN SplitList(details[i].zonesAvailable)
                        ELSE r[i - 1].zones
        /\ r[i].message = Filled(r[i - 1].message, details[i].message)
        /\ fields \subseteq DOMAIN r[i]
  <2> SUFFICES ASSUME NEW i \in 1..n
               PROVE  /\ r[i].code = r[i - 1].code
                      /\ r[i].zone = Filled(r[i - 1].zone, details[i].zone)
                      /\ r[i].machineType = Filled(r[i - 1].machineType, details[i].vmType)
                      /\ r[i].zones = IF r[i - 1].zones = <<>>
                                        THEN SplitList(details[i].zonesAvailable)
                                        ELSE r[i - 1].zones
                      /\ r[i].message = Filled(r[i - 1].message, details[i].message)
                      /\ fields \subseteq DOMAIN r[i]
    OBVIOUS
  <2>1. r[i] = Merged(r[i - 1], details[i])
    BY <1>4
  <2> QED
    BY <2>1 DEF Merged, fields
<1>6. c.code = code /\ fields \subseteq DOMAIN c
  <2> DEFINE S == {i \in 0..n : r[i].code = code /\ fields \subseteq DOMAIN r[i]}
  <2>1. 0 \in S
    BY <1>1, <1>3, <1>4
  <2>2. ASSUME NEW i \in 1..n, i - 1 \in S PROVE i \in S
    BY <1>3, <1>5, <2>2
  <2> HIDE DEF S
  <2>3. 0..n \subseteq S
    BY <1>3, <2>1, <2>2, Induction
  <2>4. n \in S
    BY <1>3, <2>3
  <2> QED
    BY <1>4, <2>4 DEF S
<1>7. IsFirstUsable(c.zone, [i \in DOMAIN details |-> details[i].zone], NoValue)
  <2> DEFINE v == [i \in 0..n |-> r[i].zone]
             values == [i \in 1..n |-> details[i].zone]
  <2>1. v[0] = NoValue /\ v[n] = c.zone
    BY <1>1, <1>3, <1>4
  <2>2. \A i \in 1..n : v[i] = IF v[i - 1] = NoValue THEN values[i] ELSE v[i - 1]
    BY <1>3, <1>5 DEF Filled
  <2>3. DOMAIN values = 1..n /\ values = [i \in DOMAIN details |-> details[i].zone]
    BY <1>3
  <2> HIDE DEF v, values
  <2>4. IsFirstUsable(v[n], values, NoValue)
    BY <1>3, <2>1, <2>2, <2>3, FirstFound
  <2> QED
    BY <2>1, <2>3, <2>4
<1>8. IsFirstUsable(c.machineType, [i \in DOMAIN details |-> details[i].vmType], NoValue)
  <2> DEFINE v == [i \in 0..n |-> r[i].machineType]
             values == [i \in 1..n |-> details[i].vmType]
  <2>1. v[0] = NoValue /\ v[n] = c.machineType
    BY <1>1, <1>3, <1>4
  <2>2. \A i \in 1..n : v[i] = IF v[i - 1] = NoValue THEN values[i] ELSE v[i - 1]
    BY <1>3, <1>5 DEF Filled
  <2>3. DOMAIN values = 1..n /\ values = [i \in DOMAIN details |-> details[i].vmType]
    BY <1>3
  <2> HIDE DEF v, values
  <2>4. IsFirstUsable(v[n], values, NoValue)
    BY <1>3, <2>1, <2>2, <2>3, FirstFound
  <2> QED
    BY <2>1, <2>3, <2>4
<1>9. IsFirstUsable(c.zones,
                    [i \in DOMAIN details |-> SplitList(details[i].zonesAvailable)], <<>>)
  <2> DEFINE v == [i \in 0..n |-> r[i].zones]
             values == [i \in 1..n |-> SplitList(details[i].zonesAvailable)]
  <2>1. v[0] = <<>> /\ v[n] = c.zones
    BY <1>1, <1>3, <1>4
  <2>2. \A i \in 1..n : v[i] = IF v[i - 1] = <<>> THEN values[i] ELSE v[i - 1]
    BY <1>3, <1>5
  <2>3. /\ DOMAIN values = 1..n
        /\ values = [i \in DOMAIN details |-> SplitList(details[i].zonesAvailable)]
    BY <1>3
  <2> HIDE DEF v, values
  <2>4. IsFirstUsable(v[n], values, <<>>)
    BY <1>3, <2>1, <2>2, <2>3, FirstFound
  <2> QED
    BY <2>1, <2>3, <2>4
<1>10. IsFirstUsable(c.message, [i \in DOMAIN details |-> details[i].message], NoValue)
  <2> DEFINE v == [i \in 0..n |-> r[i].message]
             values == [i \in 1..n |-> details[i].message]
  <2>1. v[0] = NoValue /\ v[n] = c.message
    BY <1>1, <1>3, <1>4
  <2>2. \A i \in 1..n : v[i] = IF v[i - 1] = NoValue THEN values[i] ELSE v[i - 1]
    BY <1>3, <1>5 DEF Filled
  <2>3. DOMAIN values = 1..n /\ values = [i \in DOMAIN details |-> details[i].message]
    BY <1>3
  <2> HIDE DEF v, values
  <2>4. IsFirstUsable(v[n], values, NoValue)
    BY <1>3, <2>1, <2>2, <2>3, FirstFound
  <2> QED
    BY <2>1, <2>3, <2>4
<1> QED
  BY <1>6, <1>7, <1>8, <1>9, <1>10 DEF fields

\* The fallback comes after all other values.
LEMMA FirstOfAppended ==
  ASSUME NEW n \in Nat, NEW values, values = [i \in 1..n |-> values[i]], NEW last,
         NEW none, NEW value, IsFirstUsable(value, values, none)
  PROVE  IsFirstUsable(IF value = none THEN last ELSE value, Append(values, last), none)
<1> DEFINE more == Append(values, last)
<1>1. DOMAIN more = 1..(n + 1) /\ more[n + 1] = last /\ \A i \in 1..n : more[i] = values[i]
  OBVIOUS
<1>2. DOMAIN values = 1..n
  OBVIOUS
<1> HIDE DEF more
<1>3. CASE value = none
  <2>1. \A i \in 1..n : more[i] = none
    BY <1>1, <1>2, <1>3 DEF IsFirstUsable
  <2> QED
    BY <1>1, <1>3, <2>1 DEF IsFirstUsable, more
<1>4. CASE value # none
  <2>1. PICK i \in 1..n : value = values[i] /\ \A j \in 1..(i - 1) : values[j] = none
    BY <1>2, <1>4 DEF IsFirstUsable
  <2>2. value = more[i]
    BY <1>1, <2>1
  <2>3. ASSUME NEW j \in 1..(i - 1) PROVE more[j] = none
    <3>1. j \in 1..n
      OBVIOUS
    <3>2. more[j] = values[j] /\ values[j] = none
      BY <1>1, <2>1, <3>1
    <3> QED
      BY <3>2
  <2>4. i \in DOMAIN more
    BY <1>1
  <2> QED
    BY <1>4, <2>2, <2>3, <2>4 DEF IsFirstUsable, more
<1> QED
  BY <1>3, <1>4

\* The first shortage is found, if there is one.
LEMMA FirstShortageFound ==
  ASSUME NEW codes \in Seq(STRING), NEW k, k = FirstShortage(codes)
  PROVE  \/ k = 0 /\ \A i \in 1..Len(codes) : ~IsCapacityCode(codes[i])
         \/ /\ k \in 1..Len(codes) /\ k # 0 /\ IsCapacityCode(codes[k])
            /\ \A j \in 1..(k - 1) : ~IsCapacityCode(codes[j])
<1> DEFINE I == {i \in 1..Len(codes) : IsCapacityCode(codes[i])}
<1>1. k = IF I # {} THEN Min(I) ELSE 0
  BY DEF FirstShortage, SelectInSeq
<1>2. CASE I = {}
  BY <1>1, <1>2
<1>3. CASE I # {}
  <2>1. Len(codes) \in Nat /\ I \in SUBSET (1..Len(codes))
    OBVIOUS
  <2>2. \E m \in I : \A j \in I : m <= j
    <3> HIDE DEF I
    <3> QED
      BY <1>3, <2>1, Least
  <2>3. k \in I /\ \A j \in I : k <= j
    <3> HIDE DEF I
    <3> QED
      BY <1>1, <1>3, <2>2 DEF Min
  <2> QED
    BY <2>1, <2>3
<1> QED
  BY <1>2, <1>3

-----------------------------------------------------------------------------
\* A report that is drawn from the k-th error of a failure.
DrawnFrom(c, f, k) ==
  LET d == f.errors[k].details IN
  /\ IsCapacityCode(f.errors[k].code) /\ f.errors[k].code = c.code
  /\ \A j \in 1..(k - 1) : ~IsCapacityCode(f.errors[j].code)
  /\ IsFirstUsable(c.zone, Append([i \in DOMAIN d |-> d[i].zone], f.zone), NoValue)
  /\ IsFirstUsable(c.machineType, [i \in DOMAIN d |-> d[i].vmType], NoValue)
  /\ IsFirstUsable(c.zones, [i \in DOMAIN d |-> SplitList(d[i].zonesAvailable)], <<>>)
  /\ \A i \in DOMAIN d : IsCut(SplitList(d[i].zonesAvailable), d[i].zonesAvailable)
  /\ IsFirstUsable(c.message, Append([i \in DOMAIN d |-> d[i].message],
                                     f.errors[k].message), NoValue)

\* No capacity code is the absent value.
LEMMA CodesAreValues == \A code : IsCapacityCode(code) => code # NoValue
<1>1. Exhausted # NoValue
  BY Zenon DEF Exhausted, NoValue
<1>2. ExhaustedWithDetails # NoValue
  BY Zenon DEF ExhaustedWithDetails, NoValue
<1> QED
  BY <1>1, <1>2 DEF IsCapacityCode, CapacityCodes

\* The proto of the operation: the first error that is a shortage makes the report.
LEMMA OpClassified ==
  ASSUME NEW f \in Failure, NEW c, c = CapacityErrorFromOp(f)
  PROVE  \/ c = NoShortage /\ \A i \in DOMAIN f.errors : ~IsCapacityCode(f.errors[i].code)
         \/ \E k \in DOMAIN f.errors : DrawnFrom(c, f, k)
<1> DEFINE codes == [i \in DOMAIN f.errors |-> f.errors[i].code]
           Item == [code : STRING, details : Seq(Detail), message : STRING]
           first == FirstShortage(codes)
<1>1. f.errors \in Seq(Item) /\ f.zone \in STRING
  BY DEF Failure
<1>2. \A i \in DOMAIN f.errors : f.errors[i] \in Item
  <2> HIDE DEF Item
  <2> QED
    BY <1>1, ElementOf
<1>3. codes \in Seq(STRING) /\ Len(codes) = Len(f.errors) /\ DOMAIN f.errors = 1..Len(codes)
      /\ \A i \in 1..Len(codes) : codes[i] = f.errors[i].code
  <2>1. \A i \in DOMAIN f.errors : f.errors[i].code \in STRING
    BY <1>2
  <2> DEFINE e == f.errors
  <2>2. e \in Seq(Item) /\ codes = [i \in DOMAIN e |-> codes[i]]
    BY <1>1
  <2>3. \A i \in DOMAIN e : codes[i] = e[i].code /\ codes[i] \in STRING
    BY <2>1
  <2> HIDE DEF e, codes, Item
  <2>4. codes \in Seq(STRING) /\ Len(codes) = Len(e) /\ DOMAIN e = 1..Len(codes)
    BY <2>2, <2>3, Column
  <2> QED
    BY <2>3, <2>4 DEF e
<1>4. c = IF first = 0 THEN NoShortage
          ELSE LET item == f.errors[first]
                   m == MergedAll(Shortage(item.code, NoValue), item.details) IN
               [m EXCEPT !.zone = Filled(@, f.zone), !.message = Filled(@, item.message)]
  BY DEF CapacityErrorFromOp
<1> HIDE DEF codes, first
<1>5. \/ first = 0 /\ \A i \in 1..Len(codes) : ~IsCapacityCode(codes[i])
      \/ /\ first \in 1..Len(codes) /\ first # 0 /\ IsCapacityCode(codes[first])
         /\ \A j \in 1..(first - 1) : ~IsCapacityCode(codes[j])
  BY <1>3, FirstShortageFound DEF first
<1>6. CASE first = 0
  BY <1>3, <1>4, <1>5, <1>6
<1>7. CASE first # 0
  <2> DEFINE item == f.errors[first]
             m == MergedAll(Shortage(item.code, NoValue), item.details)
             d == item.details
  <2>1. first \in DOMAIN f.errors
    BY <1>3, <1>5, <1>7
  <2>2. item.code \in STRING /\ item.details \in Seq(Detail) /\ item.message \in STRING
    BY <1>2, <2>1
  <2>3. c = [m EXCEPT !.zone = Filled(@, f.zone), !.message = Filled(@, item.message)]
    BY <1>4, <1>7
  <2> HIDE DEF m, Item
  <2>4. /\ m.code = item.code
        /\ {"code", "zone", "machineType", "zones", "message"} \subseteq DOMAIN m
        /\ IsFirstUsable(m.zone, [i \in DOMAIN d |-> d[i].zone], NoValue)
        /\ IsFirstUsable(m.machineType, [i \in DOMAIN d |-> d[i].vmType], NoValue)
        /\ IsFirstUsable(m.zones, [i \in DOMAIN d |-> SplitList(d[i].zonesAvailable)], <<>>)
        /\ IsFirstUsable(m.message, [i \in DOMAIN d |-> d[i].message], NoValue)
    BY <2>2, MergedFields DEF m
  <2>5. /\ c.code = m.code /\ c.machineType = m.machineType /\ c.zones = m.zones
        /\ c.zone = Filled(m.zone, f.zone) /\ c.message = Filled(m.message, item.message)
    BY <2>3, <2>4
  <2>6. /\ IsCapacityCode(item.code)
        /\ \A j \in 1..(first - 1) : ~IsCapacityCode(f.errors[j].code)
    BY <1>3, <1>5, <1>7
  <2>7. \A i \in DOMAIN d : IsCut(SplitList(d[i].zonesAvailable), d[i].zonesAvailable)
    <3>1. \A i \in DOMAIN d : d[i] \in Detail
      BY <2>2, ElementOf
    <3>2. \A i \in DOMAIN d : d[i].zonesAvailable \in Seq(STRING)
      BY <3>1 DEF Detail
    <3> QED
      BY <3>2, ListIsCut
  <2>8. IsFirstUsable(c.zone, Append([i \in DOMAIN d |-> d[i].zone], f.zone), NoValue)
    <3> DEFINE values == [i \in DOMAIN d |-> d[i].zone]
    <3>1. Len(d) \in Nat /\ values = [i \in 1..Len(d) |-> values[i]]
      BY <2>2
    <3> HIDE DEF values, d
    <3>2. IsFirstUsable(IF m.zone = NoValue THEN f.zone ELSE m.zone, Append(values, f.zone),
                        NoValue)
      BY <2>4, <3>1, FirstOfAppended DEF values
    <3> QED
      BY <2>5, <3>2 DEF values, Filled
  <2>9. IsFirstUsable(c.message, Append([i \in DOMAIN d |-> d[i].message], item.message),
                      NoValue)
    <3> DEFINE values == [i \in DOMAIN d |-> d[i].message]
    <3>1. Len(d) \in Nat /\ values = [i \in 1..Len(d) |-> values[i]]
      BY <2>2
    <3> HIDE DEF values, d
    <3>2. IsFirstUsable(IF m.message = NoValue THEN item.message ELSE m.message,
                        Append(values, item.message), NoValue)
      BY <2>4, <3>1, FirstOfAppended DEF values
    <3> QED
      BY <2>5, <3>2 DEF values, Filled
  <2>10. DrawnFrom(c, f, first)
    BY <2>4, <2>5, <2>6, <2>7, <2>8, <2>9 DEF DrawnFrom
  <2> QED
    BY <2>1, <2>10
<1> QED
  BY <1>6, <1>7

\* The report of a shortage is drawn from it alone.
LEMMA GroundedOnAll ==
  ASSUME NEW f \in Failure
  PROVE  ReportIsGrounded(f)
<1> SUFFICES ASSUME CapacityErrorFromOp(f) # NoShortage PROVE ReportIsGrounded(f)
  BY DEF ReportIsGrounded
<1>1. Classify(f) = CapacityErrorFromOp(f)
  BY DEF Classify
<1>2. PICK k \in DOMAIN f.errors : DrawnFrom(Classify(f), f, k)
  BY <1>1, OpClassified
<1> QED
  BY <1>2 DEF ReportIsGrounded, DrawnFrom

\* A failure is told as a shortage exactly when there is evidence of one.
LEMMA ToldOnAll ==
  ASSUME NEW f \in Failure
  PROVE  ShortageTold(f)
<1> DEFINE op == CapacityErrorFromOp(f)
           er == CapacityErrorFromErr(f)
           ofOp == {f.errors[i].code : i \in DOMAIN f.errors}
           ofItems == IF f.api THEN {f.items[i].reason : i \in DOMAIN f.items} ELSE {}
           ofText == IF f.api /\ f.status = 503 THEN f.quotes ELSE {}
           evidence == ofOp \cup ofItems \cup ofText
           first == FirstShortage([i \in DOMAIN f.items |-> f.items[i].reason])
<1>1. NoShortage.code = NoValue /\ \A code, message : Shortage(code, message).code = code
  BY DEF NoShortage, Shortage
<1>2. \A code : code \in CapacityCodes <=> IsCapacityCode(code)
  BY DEF IsCapacityCode
<1>3. \/ op = NoShortage /\ ofOp \cap CapacityCodes = {}
      \/ op.code \in ofOp \cap CapacityCodes /\ op # NoShortage
  <2>1. CASE op = NoShortage /\ \A i \in DOMAIN f.errors : ~IsCapacityCode(f.errors[i].code)
    BY <1>2, <2>1
  <2>2. CASE \E k \in DOMAIN f.errors : DrawnFrom(op, f, k)
    <3>1. PICK k \in DOMAIN f.errors : DrawnFrom(op, f, k)
      BY <2>2
    <3>2. IsCapacityCode(f.errors[k].code) /\ f.errors[k].code = op.code
      BY <3>1 DEF DrawnFrom
    <3>3. op.code # NoValue
      BY <3>2, CodesAreValues
    <3> QED
      BY <1>1, <1>2, <3>2, <3>3
  <2> QED
    BY <2>1, <2>2, OpClassified
<1>4. \/ er = NoShortage /\ (ofItems \cup ofText) \cap CapacityCodes = {}
      \/ er.code \in (ofItems \cup ofText) \cap CapacityCodes
  <2> DEFINE Item == [reason : STRING, message : STRING]
             e == f.items
             codes == [i \in DOMAIN f.items |-> f.items[i].reason]
  <2>1. e \in Seq(Item) /\ f.quotes \subseteq CapacityCodes
    BY DEF Failure
  <2>2. codes = [i \in DOMAIN e |-> codes[i]] /\ \A i \in DOMAIN e : codes[i] = e[i].reason
    OBVIOUS
  <2>3. \A i \in DOMAIN e : e[i].reason \in STRING
    <3>1. \A i \in DOMAIN e : e[i] \in Item
      <4> HIDE DEF Item, e
      <4> QED
        BY <2>1, ElementOf
    <3> QED
      BY <3>1
  <2>4. er = IF ~f.api THEN NoShortage
             ELSE IF first # 0 THEN Shortage(e[first].reason, e[first].message)
             ELSE IF f.status # 503 \/ f.quotes = {} THEN NoShortage
             ELSE Shortage(IF ExhaustedWithDetails \in f.quotes
                             THEN ExhaustedWithDetails ELSE Exhausted, NoValue)
    BY DEF CapacityErrorFromErr
  <2>5. first = FirstShortage(codes)
    OBVIOUS
  <2>6. ofItems = IF f.api THEN {e[i].reason : i \in DOMAIN e} ELSE {}
    OBVIOUS
  <2> HIDE DEF Item, e, codes, first, er, ofItems
  <2>7. codes \in Seq(STRING) /\ DOMAIN e = 1..Len(codes)
    BY <2>1, <2>2, <2>3, Column
  <2>8. \/ first = 0 /\ \A i \in 1..Len(codes) : ~IsCapacityCode(codes[i])
        \/ first \in 1..Len(codes) /\ first # 0 /\ IsCapacityCode(codes[first])
    BY <2>5, <2>7, FirstShortageFound
  <2>9. CASE ~f.api
    BY <2>4, <2>6, <2>9
  <2>10. CASE f.api /\ first # 0
    <3>1. first \in DOMAIN e /\ e[first].reason \in CapacityCodes
      BY <1>2, <2>2, <2>7, <2>8, <2>10
    <3>2. er.code = e[first].reason
      BY <1>1, <2>4, <2>10
    <3> QED
      BY <2>6, <2>10, <3>1, <3>2
  <2>11. CASE f.api /\ first = 0
    <3>1. ofItems \cap CapacityCodes = {}
      BY <1>2, <2>2, <2>6, <2>7, <2>8, <2>11
    <3>2. CASE f.status # 503 \/ f.quotes = {}
      BY <2>4, <2>11, <3>1, <3>2
    <3>3. CASE f.status = 503 /\ f.quotes # {}
      <4>1. er.code = IF ExhaustedWithDetails \in f.quotes
                        THEN ExhaustedWithDetails ELSE Exhausted
        BY <1>1, <2>4, <2>11, <3>3
      <4>2. er.code \in f.quotes
        BY <2>1, <3>3, <4>1 DEF CapacityCodes
      <4> QED
        BY <2>1, <2>11, <3>3, <4>2
    <3> QED
      BY <3>2, <3>3
  <2> QED
    BY <2>9, <2>10, <2>11
<1> HIDE DEF op, er, ofOp, ofItems, ofText
<1>5. Classify(f) = IF op # NoShortage THEN op ELSE er
  BY DEF Classify, op, er
<1>6. /\ Classify(f).code # NoValue <=> evidence \cap CapacityCodes # {}
      /\ Classify(f).code # NoValue => Classify(f).code \in evidence
  BY <1>1, <1>2, <1>3, <1>4, <1>5, CodesAreValues
<1> QED
  BY <1>6 DEF ShortageTold, ErrNoCapacity, ofOp, ofItems, ofText

-----------------------------------------------------------------------------
\* What the step that comes next reads is of its kind: the arguments of forward, which
\* are accepted before the wake, or a failure of the wake.
Inputs ==
  /\ p.pc = "parse" => IsArgs(input)
  /\ p.cmd = "forward" /\ p.pc = "wake" =>
       /\ IsArgs(input)
       /\ PortsFree(ParseForwards(input.specs).forwards, input.families, input.taken)
  /\ p.pc = "refused" => input \in Failure

\* Every step keeps what is read next of its kind.
LEMMA InputsKept == LaunchInv /\ Inputs /\ [Next]_vars => Inputs'
<1> SUFFICES ASSUME LaunchInv, Inputs, [Next]_vars PROVE Inputs'
  OBVIOUS
<1> USE DEF WorldStays
<1>1. TypeOK /\ Fresh /\ IsProcess(p)
  BY DEF LaunchInv, TypeOK
<1> DEFINE Past == p'.pc \notin {"parse", "wake", "refused"}
<1>2. Past => Inputs'
  BY DEF Inputs
<1>3. CASE LoadConfig
  <2>1. IsArgs(input.args)
    BY <1>1, <1>3, LaunchAssumption DEF Fresh, LoadConfig
  <2>2. CASE ~Accepts(input.config)
    <3>1. Exits(Reported(p, "config", "FAIL"), "checks") \/ Exits(p, "config")
      BY <1>3, <2>2 DEF LoadConfig
    <3> DEFINE q == Reported(p, "config", "FAIL")
    <3>2. "pc" \in DOMAIN q /\ "pc" \in DOMAIN p
      BY <1>1 DEF Reported, IsProcess
    <3>3. Exits(q, "checks") \/ Exits(p, "config")
      BY <3>1
    <3> HIDE DEF q
    <3>4. p'.pc = "exit"
      BY <3>2, <3>3 DEF Exits
    <3> QED
      BY <1>2, <3>4
  <2>3. CASE Accepts(input.config)
    <3>1. /\ p'.cmd = p.cmd
          /\ p'.pc = CASE p.cmd = "forward" -> "parse"
                       [] p.cmd = "doctor"  -> "local"
                       [] OTHER             -> "wake"
      BY <1>1, <1>3, <2>3 DEF LoadConfig, IsProcess
    <3>2. p.cmd = "forward" => input' = input.args
      BY <1>3 DEF LoadConfig
    <3> QED
      BY <2>1, <3>1, <3>2 DEF Inputs
  <2> QED
    BY <2>2, <2>3
<1>4. CASE ParseArguments
  <2>1. IsArgs(input) /\ input' = input
    BY <1>4 DEF ParseArguments, Inputs
  <2> DEFINE parsed == ParseForwards(input.specs)
  <2>2. CASE parsed.ok /\ PortsFree(parsed.forwards, input.families, input.taken)
    <3>1. p'.pc = "wake"
      BY <1>1, <1>4, <2>2, MoveFields DEF ParseArguments
    <3> QED
      BY <2>1, <2>2, <3>1 DEF Inputs
  <2>3. CASE ~(parsed.ok /\ PortsFree(parsed.forwards, input.families, input.taken))
    <3>1. Exits(p, "args") \/ Exits(p, "port")
      BY <1>4, <2>3 DEF ParseArguments
    <3> QED
      BY <1>1, <1>2, <3>1, EndFields
  <2> QED
    BY <2>2, <2>3
<1>5. CASE WakeFails
  <2>1. p'.pc = "refused" /\ input' \in Failure
    BY <1>1, <1>5, LaunchAssumption DEF WakeFails, IsProcess
  <2> QED
    BY <2>1 DEF Inputs
<1>6. CASE Interrupt \/ DeadlineFires \/ WorldMoves \/ UNCHANGED vars
  <2>1. p'.pc = p.pc /\ p'.cmd = p.cmd /\ input' = input
    BY <1>1, <1>6 DEF Interrupt, DeadlineFires, WorldMoves, vars, IsProcess
  <2> QED
    BY <2>1 DEF Inputs
<1>7. CASE Wake \/ ProbeSucceeds \/ TimerFires \/ Advance
  <2>1. CASE Wake
    BY <1>1, <1>2, <2>1 DEF Wake, IsProcess
  <2>2. CASE ProbeSucceeds
    BY <1>1, <1>2, <2>2 DEF ProbeSucceeds, IsProcess
  <2>3. CASE TimerFires
    BY <1>1, <1>2, <2>3 DEF TimerFires, IsProcess
  <2>4. CASE Advance
    BY <1>1, <1>2, <2>4 DEF Advance, IsProcess
  <2> QED
    BY <1>7, <2>1, <2>2, <2>3, <2>4
<1>8. CASE ProbeFails \/ ProbeKilled \/ Pause
  <2>1. CASE ProbeFails
    BY <1>1, <1>2, <2>1 DEF ProbeFails, IsProcess
  <2>2. CASE ProbeKilled
    BY <1>1, <1>2, <2>2 DEF ProbeKilled, IsProcess
  <2>3. CASE Pause
    BY <1>1, <1>2, <2>3 DEF Pause, IsProcess
  <2> QED
    BY <1>8, <2>1, <2>2, <2>3
<1>9. CASE WakeRefused
  <2>1. \E err : Leaves(err)
    BY <1>9 DEF WakeRefused
  <2> QED
    BY <1>1, <1>2, <2>1, LeaveFields
<1>10. CASE WaitOver
  <2>1. Leaves("cancelled") \/ p' = [p EXCEPT !.pc = "diagnose"]
    BY <1>10 DEF WaitOver
  <2> QED
    BY <1>1, <1>2, <2>1, LeaveFields, MoveFields
<1>11. CASE Diagnose \/ HandOver
  <2>1. CASE Diagnose
    <3>1. PICK hint \in BOOLEAN :
            \/ p' = [Reported(p, "wake", "FAIL") EXCEPT !.pc = "local", !.hint = hint]
            \/ Exits([p EXCEPT !.hint = hint], "timeout")
      BY <2>1 DEF Diagnose
    <3> DEFINE q == Reported(p, "wake", "FAIL")
               r == [p EXCEPT !.hint = hint]
    <3>2. "pc" \in DOMAIN q /\ "pc" \in DOMAIN r
      BY <1>1 DEF Reported, IsProcess
    <3>3. p' = [q EXCEPT !.pc = "local", !.hint = hint] \/ Exits(r, "timeout")
      BY <3>1
    <3> HIDE DEF q, r
    <3>4. p'.pc \in {"local", "exit"}
      BY <3>2, <3>3 DEF Exits
    <3> QED
      BY <1>2, <3>4
  <2>2. CASE HandOver
    <3>1. \/ \E pc \in {"local", "exec"} : p' = [p EXCEPT !.pc = pc]
          \/ Exits(p, "notfound")
      BY <2>2 DEF HandOver
    <3> QED
      BY <1>1, <1>2, <3>1, MoveFields, EndFields
  <2> QED
    BY <1>11, <2>1, <2>2
<1>12. CASE CheckLocal \/ CheckInstance \/ CheckActivity \/ CheckReachable \/ CheckRemote
  <2>1. CASE CheckLocal
    BY <1>1, <1>2, <2>1 DEF CheckLocal, Reported, IsProcess
  <2>2. CASE CheckInstance
    BY <1>1, <1>2, <2>2 DEF CheckInstance, Answers, Reported, IsProcess
  <2>3. CASE CheckActivity
    <3>1. PICK level : Answers("activity", level, "reach")
      BY <2>3 DEF CheckActivity
    <3>2. p'.pc = "reach"
      BY <1>1, <3>1, AnswerFields
    <3> QED
      BY <1>2, <3>2
  <2>4. CASE CheckReachable
    <3>1. CASE Answers("ssh", "PASS", "remote")
      <4>1. p'.pc = "remote"
        BY <1>1, <3>1, AnswerFields
      <4> QED
        BY <1>2, <4>1
    <3>2. CASE \E level : Concludes(Reported(p, "ssh", level))
      BY <1>1, <1>2, <3>2, ConcludeFields
    <3> QED
      BY <2>4, <3>1, <3>2 DEF CheckReachable
  <2>5. CASE CheckRemote
    <3>1. PICK r, i, e : Concludes(Reported(Reported(Reported(p, "remote", r),
                                                     "integration", i), "emitter", e))
      BY <2>5 DEF CheckRemote
    <3> DEFINE q == Reported(Reported(Reported(p, "remote", r), "integration", i),
                             "emitter", e)
    <3>2. {"pc", "err"} \subseteq DOMAIN q
      BY <1>1 DEF IsProcess, Reported
    <3>3. Concludes(q)
      BY <3>1
    <3> HIDE DEF q
    <3>4. p'.pc = "exit"
      BY <3>2, <3>3 DEF Concludes, Exits
    <3> QED
      BY <1>2, <3>4
  <2> QED
    BY <1>12, <2>1, <2>2, <2>3, <2>4, <2>5
<1> QED
  BY <1>3, <1>4, <1>5, <1>6, <1>7, <1>8, <1>9, <1>10, <1>11, <1>12 DEF Next, Proceed

\* What a step reads is of its kind in every state.
THEOREM InputsInductive == Spec => [](LaunchInv /\ Inputs)
<1>1. Init => LaunchInv /\ Inputs
  <2>1. Init => Inputs
    BY DEF Init, Process, Inputs
  <2> QED
    BY <2>1, InitLaunch
<1>2. LaunchInv /\ Inputs /\ [Next]_vars => (LaunchInv /\ Inputs)'
  BY NextKeeps, InputsKept
<1> QED
  BY <1>1, <1>2, PTL DEF Spec

\* forward wakes no VM for forwards that ssh cannot set up.
THEOREM NothingIsWokenInVain == Spec => []NothingWokenInVain
<1>1. Inputs => NothingWokenInVain
  BY AcceptedIsBindable DEF Inputs, NothingWokenInVain
<1> QED
  BY <1>1, InputsInductive, PTL

\* Whatever the failure of a wake, it is told as a shortage exactly when it is one.
THEOREM TheShortagesAreTold == Spec => []ShortagesTold
<1>1. Inputs => ShortagesTold
  BY ToldOnAll DEF Inputs, ShortagesTold
<1> QED
  BY <1>1, InputsInductive, PTL

\* Whatever the failure of a wake, the report of a shortage is drawn from it alone.
THEOREM TheReportsAreGrounded == Spec => []ReportsGrounded
<1>1. Inputs => ReportsGrounded
  BY GroundedOnAll DEF Inputs, ReportsGrounded
<1> QED
  BY <1>1, InputsInductive, PTL
=============================================================================
