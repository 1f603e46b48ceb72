----------------------------- MODULE PowerCall -----------------------------
(***************************************************************************)
(* What Wake and Sleep of internal/compute promise their caller: a call    *)
(* looks at the instance once, at a moment when it is not in transition,   *)
(* and does then what that state calls for.  This is how the steps Status, *)
(* SleepStatus, CallWake and CallSuspend of the CLI module treat them.     *)
(***************************************************************************)
EXTENDS Power

VARIABLES vm,
          operation,
          phase,   \* of the call: idle, deciding, acting, waiting
          op,
          need,    \* the state it was decided on
          result

vars == <<vm, operation, phase, op, need, result>>

Init ==
  /\ vm \in States
  /\ operation = "none"
  /\ phase = "idle" /\ op = "wake" /\ need = vm /\ result = "none"

\* The instance moves, by itself or by others, unless our operation holds it.
Move ==
  /\ operation \notin Ops
  /\ vm' \in States
  /\ UNCHANGED <<operation, phase, op, need, result>>

OperationEnds ==
  /\ operation \in Ops
  /\ \E outcome \in OutcomesOf(operation) :
       /\ vm' \in Leaves(operation, outcome)
       /\ operation' = IF phase = "waiting" THEN outcome ELSE "none"
  /\ UNCHANGED <<phase, op, need, result>>

Begin ==
  /\ phase = "idle"
  /\ phase' = "deciding"
  /\ op' \in Ops
  /\ result' = "none"
  /\ UNCHANGED <<vm, operation, need>>

Decide ==
  /\ phase = "deciding"
  /\ vm \notin Transitional
  /\ \/ vm \in Goal(op) /\ phase' = "idle" /\ result' = "ok" /\ UNCHANGED need
     \/ vm \in Stable \ Goal(op) /\ phase' = "acting" /\ need' = vm /\ UNCHANGED result
     \/ vm \in Unsupported /\ phase' = "idle" /\ result' = "unsupported" /\ UNCHANGED need
  /\ UNCHANGED <<vm, operation, op>>

Act ==
  /\ phase = "acting"
  /\ vm = need
  /\ phase' = "waiting"
  /\ operation' = op
  /\ vm' \in Underway(op)
  /\ UNCHANGED <<op, need, result>>

Refused ==
  /\ phase = "acting"
  /\ phase' = "idle"
  /\ \/ vm # need /\ result' = "error"
     \/ vm = need /\ op = "wake" /\ result' = "capacity"
  /\ UNCHANGED <<vm, operation, op, need>>

Finish ==
  /\ phase = "waiting"
  /\ operation \in Outcomes
  /\ result' = operation
  /\ operation' = "none"
  /\ phase' = "idle"
  /\ UNCHANGED <<vm, op, need>>

\* The call ends early; an operation that is under way goes on.
Fail ==
  /\ phase # "idle"
  /\ phase' = "idle"
  /\ result' = "error"
  /\ operation' = IF operation \in Ops THEN operation ELSE "none"
  /\ UNCHANGED <<vm, op, need>>

Next ==
  \/ Move \/ OperationEnds \/ Begin \/ Decide \/ Act \/ Refused \/ Finish \/ Fail

Spec == Init /\ [][Next]_vars
=============================================================================
