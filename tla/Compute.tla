------------------------------ MODULE Compute ------------------------------
(***************************************************************************)
(* Wake, Sleep and WaitStable of internal/compute, one request to Compute  *)
(* Engine at a time, on an instance that the reconciler, other shells and  *)
(* Google move too.                                                        *)
(***************************************************************************)
EXTENDS Power

CONSTANTS MaxMoves,  \* bound on what others do to a settled instance
          MaxFaults  \* bound on failed requests and cancelled calls

ASSUME ComputeAssumption == MaxMoves \in Nat /\ MaxFaults \in Nat

VARIABLES vm, operation,
          pc,      \* the request that comes next
          op, need, result,
          moves, faults,
          seen     \* history: the states of the instance since the call began

vars == <<vm, operation, pc, op, need, result, moves, faults, seen>>

PCs == {"idle", "status", "waitStable", "pause", "call", "waitOp"}

TypeOK ==
  /\ vm \in States /\ seen \subseteq States
  /\ operation \in Operations
  /\ pc \in PCs /\ op \in Ops /\ need \in States /\ result \in Results
  /\ moves \in 0..MaxMoves /\ faults \in 0..MaxFaults

Init ==
  /\ vm \in States /\ seen = {vm}
  /\ operation = "none"
  /\ pc = "idle" /\ op = "wake" /\ need = vm /\ result = "none"
  /\ moves = 0 /\ faults = 0

Return(r) == pc' = "idle" /\ result' = r

Goto(label) == pc' = label /\ UNCHANGED result

\* The instance takes another state, in the sight of the call or not.
Becomes(S) ==
  /\ vm' \in S
  /\ seen' = IF pc = "idle" THEN seen ELSE seen \cup {vm'}

-----------------------------------------------------------------------------
(* The instance.                                                           *)

\* Between two requests a settled instance may be taken anywhere.
Moved ==
  /\ operation \notin Ops
  /\ vm \notin Transitional
  /\ moves < MaxMoves
  /\ moves' = moves + 1
  /\ Becomes(States)
  /\ UNCHANGED <<operation, pc, op, need, result, faults>>

Settles ==
  /\ operation \notin Ops
  /\ \/ vm = "PROVISIONING" /\ Becomes({"STAGING", "TERMINATED"})
     \/ vm = "STAGING" /\ Becomes({"RUNNING", "SUSPENDED", "TERMINATED"})
     \/ vm = "STOPPING" /\ Becomes({"TERMINATED"})
     \/ vm = "SUSPENDING" /\ Becomes({"SUSPENDED", "RUNNING"})
  /\ UNCHANGED <<operation, pc, op, need, result, moves, faults>>

OperationEnds ==
  /\ operation \in Ops
  /\ \E outcome \in OutcomesOf(operation) :
       /\ Becomes(Leaves(operation, outcome))
       /\ operation' = IF pc = "waitOp" THEN outcome ELSE "none"
  /\ UNCHANGED <<pc, op, need, result, moves, faults>>

-----------------------------------------------------------------------------
(* The call.                                                               *)

Begin ==
  /\ pc = "idle"
  /\ pc' = "status"
  /\ op' \in Ops
  /\ result' = "none"
  /\ seen' = {vm}
  /\ UNCHANGED <<vm, operation, need, moves, faults>>

\* The request Status and the switch on what it returns.
Status ==
  /\ pc = "status"
  /\ IF vm \in Goal(op)              THEN Return("ok") /\ UNCHANGED need
     ELSE IF vm \in Stable           THEN Goto("call") /\ need' = vm
     ELSE IF vm \notin Transitional  THEN Return("unsupported") /\ UNCHANGED need
     ELSE Goto("waitStable") /\ UNCHANGED need
  /\ UNCHANGED <<vm, operation, op, moves, faults, seen>>

\* Mutant: whatever is not stable is polled.
PollsAnything ==
  /\ pc = "waitStable"
  /\ Goto(IF vm \in Stable THEN "status" ELSE "pause")
  /\ UNCHANGED <<vm, operation, op, need, moves, faults, seen>>

\* Mutant: the call goes on from the wait without another look.
ActsAfterWait ==
  /\ pc = "waitStable"
  /\ IF vm \in Stable               THEN Goto("call")
     ELSE IF vm \notin Transitional THEN Return("unsupported")
     ELSE Goto("pause")
  /\ UNCHANGED <<vm, operation, op, need, moves, faults, seen>>

\* One poll of WaitStable.
WaitStable ==
  /\ pc = "waitStable"
  /\ IF vm \in Stable               THEN Goto("status")
     ELSE IF vm \notin Transitional THEN Return("unsupported")
     ELSE Goto("pause")
  /\ UNCHANGED <<vm, operation, op, need, moves, faults, seen>>

Pause ==
  /\ pc = "pause"
  /\ Goto("waitStable")
  /\ UNCHANGED <<vm, operation, op, need, moves, faults, seen>>

\* Resume, Start or Suspend.  The request is refused when the instance has left
\* the state it was read in, and, when it is to come up, for want of capacity.
Call ==
  /\ pc = "call"
  /\ \/ vm = need /\ Becomes(Underway(op)) /\ operation' = op /\ Goto("waitOp")
     \/ vm # need /\ Return("error") /\ UNCHANGED <<vm, operation, seen>>
     \/ /\ vm = need /\ op = "wake"
        /\ Return("capacity")
        /\ UNCHANGED <<vm, operation, seen>>
  /\ UNCHANGED <<op, need, moves, faults>>

\* waitOp and waitWakeOp.
WaitOp ==
  /\ pc = "waitOp"
  /\ operation \in Outcomes
  /\ Return(operation)
  /\ operation' = "none"
  /\ UNCHANGED <<vm, op, need, moves, faults, seen>>

\* A request fails, or the context is done.
Fails ==
  /\ pc # "idle"
  /\ faults < MaxFaults
  /\ faults' = faults + 1
  /\ Return("error")
  /\ operation' = IF operation \in Ops THEN operation ELSE "none"
  /\ UNCHANGED <<vm, op, need, moves, seen>>

CallStep == Status \/ WaitStable \/ Pause \/ Call \/ WaitOp

Next == Moved \/ Settles \/ OperationEnds \/ Begin \/ CallStep \/ Fails

Spec == Init /\ [][Next]_vars

\* A transition comes to its end, and so does an operation; a process that runs
\* goes on.
Fairness == WF_vars(Settles) /\ WF_vars(OperationEnds) /\ WF_vars(CallStep)

FairSpec == Spec /\ Fairness

-----------------------------------------------------------------------------
\* A call that returns nil found the instance where it was wanted at some moment
\* of the call, and one that returns ErrUnsupportedState found it in a state that
\* neither settles nor can be acted on: never merely in transition.
Truthful ==
  pc = "idle" =>
    /\ result = "ok" /\ op = "wake" => "RUNNING" \in seen
    /\ result = "ok" /\ op = "sleep" => seen \cap {"SUSPENDED", "TERMINATED"} # {}
    /\ result = "unsupported" => seen \cap {"REPAIRING", "UNKNOWN"} # {}

\* What a call that is under way knows: the history covers the present state, and
\* an outcome is that of its own operation.
CallSeen ==
  /\ pc # "idle" => vm \in seen
  /\ operation \in Outcomes => pc = "waitOp"
  /\ pc = "waitOp" => operation \in Outcomes \cup {op}
  /\ operation = "ok" =>
       /\ op = "wake" => "RUNNING" \in seen
       /\ op = "sleep" => "SUSPENDED" \in seen

\* The inductive invariant of the proofs.
IInv == TypeOK /\ CallSeen /\ Truthful

\* A call returns although others keep moving the instance for a while: a state
\* that never settles is refused and not polled for ever (WaitStable).
CallReturns == pc # "idle" ~> pc = "idle"

Phase ==
  IF pc \in {"status", "waitStable", "pause"} THEN "deciding"
  ELSE IF pc = "call" THEN "acting"
  ELSE IF pc = "waitOp" THEN "waiting"
  ELSE "idle"

PowerCall == INSTANCE PowerCall WITH phase <- Phase

\* However it polls, a call amounts to one look at a settled instance and to what
\* follows from it, which is how the CLI module models it.
OneLook == PowerCall!Spec
=============================================================================
