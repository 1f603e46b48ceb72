------------------------------- MODULE Launch -------------------------------
(***************************************************************************)
(* The commands that hand over (cmd/workbox): up, ssh and forward read the *)
(* configuration, check their arguments, wake the VM, wait for SSH and     *)
(* become another program; doctor checks, after a wake with --wake.  The   *)
(* wake itself is in CLI; here it succeeds or fails in some way.  Ctrl-C   *)
(* may come at any moment, and the VM and its network change under the     *)
(* process.  The wait for SSH (internal/ssh) is in time: a probe lasts at  *)
(* most connect, the whole wait at most wait.                              *)
(***************************************************************************)
EXTENDS Capacity, Forwards, Config

CONSTANTS Invocations,   \* [config, args]; args is [specs, families, taken], what
                         \* forward is given and finds
          Failures,      \* of a wake
          WaitInterval,
          MaxMoves       \* bound on changes of the VM and its network

ASSUME LaunchAssumption ==
  /\ WaitInterval \in Nat \ {0} /\ MaxMoves \in Nat
  /\ \A i \in Invocations : Decoded(i.config) /\ IsArgs(i.args)
  /\ Failures \subseteq Failure

VARIABLES clock,
          vm,
          upSince,  \* since when SSH works, NotUp if it does not
          moves,
          input,    \* what the step that comes next reads
          p         \* the process

vars == <<clock, vm, upSince, moves, input, p>>

NotUp == -1

Checks == {"config", "wake", "local", "instance", "activity", "ssh", "remote",
           "integration", "emitter"}

\* cancelled is Ctrl-C, waitErr what ended the context of the wait, tryErr and lastErr
\* are its variables err and lastErr, seen is the state doctor read.  own, inTime,
\* tried and woken are history: the last probe that failed by itself, the last that
\* did so before the deadline, whether a wake was tried and whether it and its wait
\* went well.
Process(cmd) ==
  [pc |-> "load", cmd |-> cmd, err |-> "none", cancelled |-> FALSE,
   connect |-> 0, wait |-> 0, deadline |-> 0, startedAt |-> 0, wakeAt |-> 0,
   waitErr |-> "none", tryErr |-> "none", lastErr |-> "none", hint |-> FALSE,
   seen |-> "none",
   level |-> [c \in Checks |-> "none"],
   own |-> "none", inTime |-> "none", tried |-> FALSE, woken |-> FALSE]

Ended == p.pc \in {"exec", "exit"}

Init ==
  /\ clock = 0 /\ moves = 0
  /\ \/ vm = "RUNNING" /\ upSince \in {NotUp, 0}
     \/ vm = "SUSPENDED" /\ upSince = NotUp
  /\ input \in Invocations
  /\ \E cmd \in {"up", "ssh", "forward", "doctor", "doctor_wake"} :
       p = Process(cmd)

WorldStays == UNCHANGED <<clock, vm, upSince, moves>>

Exits(q, err) == p' = [q EXCEPT !.pc = "exit", !.err = err]

Reported(q, check, level) == [q EXCEPT !.level[check] = level]

-----------------------------------------------------------------------------
(* Up to the wake.                                                         *)

LoadConfig ==
  /\ p.pc = "load"
  /\ LET cfg == Parsed(input.config)
         q == [p EXCEPT !.connect = cfg.connect, !.wait = cfg.wait] IN
     IF Accepts(input.config)
       THEN p' = [q EXCEPT !.pc = CASE p.cmd = "forward" -> "parse"
                                    [] p.cmd = "doctor"  -> "local"
                                    [] OTHER             -> "wake"]
       ELSE IF p.cmd \in {"doctor", "doctor_wake"}
         THEN Exits(Reported(p, "config", "FAIL"), "checks")
         ELSE Exits(p, "config")
  /\ input' = IF p.cmd = "forward" THEN input.args ELSE <<>>
  /\ WorldStays

\* runForward looks at its arguments and the local ports before it wakes the VM.
ParseArguments ==
  /\ p.pc = "parse"
  /\ LET parsed == ParseForwards(input.specs) IN
     IF ~parsed.ok THEN Exits(p, "args")
     ELSE IF ~PortsFree(parsed.forwards, input.families, input.taken)
       THEN Exits(p, "port")
     ELSE p' = [p EXCEPT !.pc = "wake"]
  /\ UNCHANGED input
  /\ WorldStays

-----------------------------------------------------------------------------
(* wakeAndWait.                                                            *)

\* WaitReachable begins; a context that is cancelled already makes one dead probe.
Wake ==
  /\ p.pc = "wake"
  /\ vm' = "RUNNING"
  /\ p' = [p EXCEPT !.pc = "probe", !.tried = TRUE, !.deadline = clock + p.wait,
                    !.startedAt = clock,
                    !.waitErr = IF p.cancelled THEN "cancelled" ELSE "none"]
  /\ input' = <<>>
  /\ UNCHANGED <<clock, upSince, moves>>

WakeFails ==
  /\ p.pc = "wake"
  /\ input' \in Failures
  /\ p' = [p EXCEPT !.pc = "refused", !.tried = TRUE]
  /\ WorldStays

\* Mutant: a failed wake ends doctor as it ends the others.
LeavesAtOnce(err) == Exits(p, err)

\* doctor reports a failed wake as a check and goes on, unless it was interrupted.
Leaves(err) ==
  IF p.cmd = "doctor_wake" /\ ~p.cancelled
    THEN p' = [Reported(p, "wake", "FAIL") EXCEPT !.pc = "local"]
    ELSE Exits(p, err)

WakeRefused ==
  /\ p.pc = "refused"
  /\ Leaves(IF ErrNoCapacity(input) THEN "nocapacity" ELSE "wake")
  /\ input' = <<>>
  /\ WorldStays

ProbeSucceeds ==
  /\ p.pc = "probe"
  /\ p.waitErr = "none" /\ upSince # NotUp
  /\ p' = [p EXCEPT !.pc = "handover", !.woken = TRUE]
  /\ UNCHANGED input /\ WorldStays

\* A probe fails by itself, unless SSH worked all the time.
ProbeFails ==
  /\ p.pc = "probe"
  /\ p.waitErr = "none"
  /\ upSince = NotUp \/ upSince >= p.startedAt
  /\ \E err \in {"refused", "timedout"} :
       p' = [p EXCEPT !.pc = "ended", !.tryErr = err, !.own = err,
                      !.inTime = IF clock < p.deadline THEN err ELSE @]
  /\ UNCHANGED input /\ WorldStays

ProbeKilled ==
  /\ p.pc = "probe"
  /\ p.waitErr # "none"
  /\ p' = [p EXCEPT !.pc = "ended", !.tryErr = "killed"]
  /\ UNCHANGED input /\ WorldStays

\* Mutant: the error of a probe that was killed is kept too.
LastOfAll == p.tryErr

\* A probe the context killed says nothing about the cause.  The context is looked at
\* after the probe has ended, and may have ended since.
LastError == IF p.waitErr = "none" THEN p.tryErr ELSE p.lastErr

\* Mutant: the arguments interval and waitTimeout are swapped.
PauseSwapped == p.wait

Interval == WaitInterval

Pause ==
  /\ p.pc = "ended"
  /\ p' = [p EXCEPT !.pc = "pause", !.wakeAt = clock + Interval,
                    !.lastErr = LastError, !.tryErr = "none"]
  /\ UNCHANGED input /\ WorldStays

\* The timer and the context may be ready at once: select takes either.
TimerFires ==
  /\ p.pc = "pause"
  /\ clock >= p.wakeAt
  /\ p' = [p EXCEPT !.pc = "probe", !.startedAt = clock]
  /\ UNCHANGED input /\ WorldStays

\* Mutant: an interrupted wait is diagnosed too.
AlwaysDiagnosed == TRUE

TimedOut == p.waitErr = "deadline"

\* Mutant: the wait ends at its deadline alone.
WaitOverAtDeadline ==
  /\ p.pc = "pause"
  /\ TimedOut
  /\ p' = [p EXCEPT !.pc = "diagnose"]
  /\ UNCHANGED input /\ WorldStays

WaitOver ==
  /\ p.pc = "pause"
  /\ p.waitErr # "none"
  /\ IF TimedOut THEN p' = [p EXCEPT !.pc = "diagnose"] ELSE Leaves("cancelled")
  /\ UNCHANGED input /\ WorldStays

\* diagnoseUnreachable asks for the state under the context of the command.
Diagnose ==
  /\ p.pc = "diagnose"
  /\ \E readable \in BOOLEAN :
       /\ readable => ~p.cancelled
       /\ LET hint == ~readable \/ vm = "RUNNING" IN
          IF p.cmd = "doctor_wake" /\ ~p.cancelled
            THEN p' = [Reported(p, "wake", "FAIL") EXCEPT !.pc = "local", !.hint = hint]
            ELSE Exits([p EXCEPT !.hint = hint], "timeout")
  /\ UNCHANGED input /\ WorldStays

\* The process becomes herdr or ssh, if that is on the PATH; Ctrl-C is not looked at.
HandOver ==
  /\ p.pc = "handover"
  /\ IF p.cmd = "doctor_wake" THEN p' = [p EXCEPT !.pc = "local"]
     ELSE p' = [p EXCEPT !.pc = "exec"] \/ Exits(p, "notfound")
  /\ UNCHANGED input /\ WorldStays

-----------------------------------------------------------------------------
(* doctor.Run.                                                             *)

Answers(check, level, pc) == p' = [Reported(p, check, level) EXCEPT !.pc = pc]

Concludes(q) ==
  Exits(q, IF \E c \in Checks : q.level[c] = "FAIL" THEN "checks" ELSE "none")

CheckLocal ==
  /\ p.pc = "local"
  /\ \E level \in {"PASS", "FAIL"} :
       p' = [Reported(Reported(p, "config", "PASS"), "local", level)
               EXCEPT !.pc = "instance"]
  /\ UNCHANGED input /\ WorldStays

\* No client, or no answer, leaves the state unknown.
CheckInstance ==
  /\ p.pc = "instance"
  /\ \/ Answers("instance", "FAIL", "activity")
     \/ /\ ~p.cancelled
        /\ p' = [Reported(p, "instance", "PASS") EXCEPT !.pc = "activity", !.seen = vm]
  /\ UNCHANGED input /\ WorldStays

CheckActivity ==
  /\ p.pc = "activity"
  /\ IF p.seen # "RUNNING" THEN Answers("activity", "SKIP", "reach")
     ELSE \E level \in {"PASS", "WARN"} : Answers("activity", level, "reach")
  /\ UNCHANGED input /\ WorldStays

CheckReachable ==
  /\ p.pc = "reach"
  /\ IF p.seen # "RUNNING" THEN Concludes(Reported(p, "ssh", "SKIP"))
     ELSE IF upSince # NotUp /\ ~p.cancelled THEN Answers("ssh", "PASS", "remote")
     ELSE Concludes(Reported(p, "ssh", "FAIL"))
  /\ UNCHANGED input /\ WorldStays

\* The remote commands, each in a connection of its own that may fail.
CheckRemote ==
  /\ p.pc = "remote"
  /\ \E remote \in {"PASS", "FAIL"}, integration, emitter \in {"PASS", "WARN"} :
       Concludes(Reported(Reported(Reported(p, "remote", remote),
                                   "integration", integration), "emitter", emitter))
  /\ UNCHANGED input /\ WorldStays

-----------------------------------------------------------------------------
InWait == p.pc \in {"probe", "ended", "pause"}

\* Time passes in the wait alone, and no further than to the next thing due.
Advance ==
  /\ p.pc \in {"probe", "pause"}
  /\ p.waitErr = "none"
  /\ clock < p.deadline
  /\ p.pc = "probe" => clock < p.startedAt + p.connect
  /\ p.pc = "pause" => clock < p.wakeAt
  /\ clock' = clock + 1
  /\ UNCHANGED <<vm, upSince, moves, input, p>>

\* The context of the wait ends; a probe or the timer may be as fast.
DeadlineFires ==
  /\ InWait
  /\ p.waitErr = "none"
  /\ clock >= p.deadline
  /\ p' = [p EXCEPT !.waitErr = "deadline"]
  /\ UNCHANGED input /\ WorldStays

Interrupt ==
  /\ ~Ended /\ ~p.cancelled
  /\ p' = [p EXCEPT !.cancelled = TRUE,
                    !.waitErr = IF InWait /\ @ = "none" THEN "cancelled" ELSE @]
  /\ UNCHANGED input /\ WorldStays

\* The VM boots or is suspended, its SSH comes and goes.
WorldMoves ==
  /\ InWait \/ p.pc \in {"diagnose", "handover", "instance", "reach"}
  /\ moves < MaxMoves
  /\ moves' = moves + 1
  /\ \/ vm = "RUNNING" /\ upSince = NotUp /\ upSince' = clock /\ UNCHANGED vm
     \/ upSince # NotUp /\ upSince' = NotUp /\ UNCHANGED vm
     \/ vm = "RUNNING" /\ vm' = "SUSPENDED" /\ upSince' = NotUp
     \/ vm = "SUSPENDED" /\ vm' = "RUNNING" /\ UNCHANGED upSince
  /\ UNCHANGED <<clock, input, p>>

Proceed ==
  \/ LoadConfig \/ ParseArguments \/ Wake \/ WakeRefused
  \/ ProbeSucceeds \/ ProbeFails \/ ProbeKilled \/ Pause \/ TimerFires \/ WaitOver
  \/ Diagnose \/ HandOver
  \/ CheckLocal \/ CheckInstance \/ CheckActivity \/ CheckReachable \/ CheckRemote

Next == Proceed \/ WakeFails \/ Advance \/ DeadlineFires \/ Interrupt \/ WorldMoves

Spec == Init /\ [][Next]_vars

FairSpec == Spec /\ WF_vars(Proceed) /\ WF_vars(Advance) /\ WF_vars(DeadlineFires)

-----------------------------------------------------------------------------
\* A wait that timed out names the cause: the last probe that failed by itself, never
\* one that was killed.  One that failed by itself as the deadline came may be taken
\* for killed, since the context is looked at after it; then the last before it is
\* named, and no other error is lost.
CauseKept == p.pc = "diagnose" => p.lastErr \in {p.own, p.inTime}

\* A wait does not give up on a VM that has answered for as long as a probe under
\* way, a pause and one more probe take.
UpInTimeIsFound ==
  p.pc = "diagnose" /\ upSince # NotUp =>
    upSince + 2 * p.connect + WaitInterval >= p.deadline

\* The hint on an unreachable VM follows the whole wait and no other failure, even
\* if Ctrl-C comes with the deadline ("A cancelled wait (Ctrl-C) passes through with
\* no hint").
HintFollowsTheWait ==
  p.hint => p.waitErr = "deadline" /\ clock = p.deadline /\ ~p.woken

\* forward wakes no VM for forwards ssh cannot set up: none is invalid, used twice,
\* or taken on any of the addresses of localhost ("Fail on a busy local port before
\* waking (and billing) the VM").
NothingWokenInVain ==
  p.cmd = "forward" /\ p.pc = "wake" =>
    Bindable(ParseForwards(input.specs).forwards, input.families, input.taken)

\* doctor, unless it was interrupted, answers every check of the control plane,
\* also after a wake that failed, and never exits 0 after one, nor after a VM read as
\* RUNNING that it could not reach; --wake exits 0 only if the VM was once reached.
DoctorAnswers ==
  p.pc = "exit" /\ p.cmd \in {"doctor", "doctor_wake"} /\ ~p.cancelled =>
    /\ p.err \in {"none", "checks"}
    /\ p.level["config"] = "PASS" =>
         \A c \in {"local", "instance", "activity", "ssh"} : p.level[c] # "none"
    /\ p.err = "none" =>
         /\ p.tried => p.woken
         /\ p.seen = "RUNNING" => p.level["ssh"] = "PASS"

\* The two readers of a configuration agree on it (SidesAgree).
ReadersAgree == p.pc = "load" => SidesAgree(input.config)

\* They refuse the same schedules (RefusedAlike).
ReadersRefuseAlike == p.pc = "load" => RefusedAlike(input.config)

\* The failures of a wake are told apart (ShortageTold).
ShortagesTold == p.pc = "refused" => ShortageTold(input)

\* The report of a shortage is drawn from it alone (ReportIsGrounded).
ReportsGrounded == p.pc = "refused" => ReportIsGrounded(input)

\* Every command comes to its end by itself, whether the VM answers or not and
\* whenever it is interrupted: the wait is not retried past its context.
CommandEnds == <>Ended
=============================================================================
