------------------------------- MODULE Power -------------------------------
(***************************************************************************)
(* The states of internal/compute/state.go, what Wake and Sleep want, and  *)
(* what Compute Engine does with the calls they make.                      *)
(***************************************************************************)
EXTENDS Integers

Stable == {"RUNNING", "SUSPENDED", "TERMINATED"}

Transitional == {"PROVISIONING", "STAGING", "STOPPING", "SUSPENDING"}

Unsupported == {"REPAIRING", "UNKNOWN"}

States == Stable \cup Transitional \cup Unsupported

Ops == {"wake", "sleep"}

\* Mutant: a VM on its way to sleep counts as asleep.
EagerGoal(op) ==
  IF op = "wake" THEN {"RUNNING"} ELSE {"SUSPENDED", "TERMINATED", "SUSPENDING"}

\* The states in which there is nothing to do.
Goal(op) == IF op = "wake" THEN {"RUNNING"} ELSE {"SUSPENDED", "TERMINATED"}

\* ok is nil; "unsupported" is ErrUnsupportedState, "capacity" ErrNoCapacity and
\* "error" any other error.
Results == {"none", "ok", "unsupported", "capacity", "error"}

Outcomes == {"ok", "capacity", "error"}

\* An operation of the instance: none, under way for a wake or a sleep, or over
\* with an outcome its caller has not seen.
Operations == {"none"} \cup Ops \cup Outcomes

-----------------------------------------------------------------------------
\* Suspend is accepted from RUNNING, Resume from SUSPENDED, Start from TERMINATED:
\* from the one state they are called for.
Underway(op) == IF op = "wake" THEN {"PROVISIONING", "STAGING"} ELSE {"SUSPENDING"}

\* The state an operation leaves; a resume that fails may lose the memory.
Leaves(op, outcome) ==
  IF outcome = "ok" THEN IF op = "wake" THEN {"RUNNING"} ELSE {"SUSPENDED"}
  ELSE IF op = "wake" THEN {"SUSPENDED", "TERMINATED"} ELSE {"RUNNING"}

\* Suspending releases capacity, so it never fails for want of it.
OutcomesOf(op) == IF op = "wake" THEN Outcomes ELSE Outcomes \ {"capacity"}
=============================================================================
