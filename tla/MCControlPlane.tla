--------------------------- MODULE MCControlPlane ---------------------------
(* Instances of ControlPlane for TLC.                                      *)
EXTENDS ControlPlane, TLC

\* A hold as the model before working hours could leave it, and one whose state
\* is not known.
Legacy == {[start |-> 0, end |-> 2, state |-> "asleep"],
           [start |-> 0, end |-> 1, state |-> "unknown"]}

ShellSymmetry == Permutations(Sessions) \cup Permutations(Ticks)
=============================================================================
