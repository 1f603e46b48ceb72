--------------------------- MODULE ComputeProofs ---------------------------
(* Theorems about Compute, for any number of moves and faults.             *)
EXTENDS Compute, TLAPS

\* The states, results and operations are disjoint as they are spelled out, and a
\* state that is neither stable nor transitional is unsupported.
LEMMA StateFacts ==
  /\ \A s \in States : s \in Stable \/ s \in Transitional \/ s \in Unsupported
  /\ \A s \in Transitional : s \notin Stable /\ s \notin Unsupported
  /\ \A s \in Unsupported : s \notin Stable
  /\ \A o \in Ops : Goal(o) \subseteq Stable /\ Underway(o) \subseteq Transitional
  /\ Transitional \subseteq States /\ Stable \subseteq States
  /\ \A o \in Ops : \A r \in Outcomes : Leaves(o, r) \subseteq Stable
  BY DEF States, Stable, Transitional, Unsupported, Goal, Underway, Ops, Leaves,
         Outcomes

\* Every step of the call or of the instance keeps the types, what a call under
\* way knows, and the truth of the results.
LEMMA IInvStep == IInv /\ [Next]_vars => IInv'
<1> SUFFICES ASSUME IInv, [Next]_vars PROVE IInv'
  OBVIOUS
<1> USE ComputeAssumption DEF IInv, TypeOK, CallSeen, Truthful
<1>1. CASE Moved
  BY <1>1 DEF Moved, Becomes, Outcomes, Ops
<1>2. CASE Settles
  BY <1>2 DEF Settles, Becomes, Outcomes, Ops, States, Transitional, Stable
<1>3. CASE OperationEnds
  BY <1>3 DEF OperationEnds, Becomes, OutcomesOf, Leaves, Outcomes, Ops,
              Operations, States, Stable, Transitional
<1>4. CASE Begin
  BY <1>4 DEF Begin, Outcomes, Ops, PCs, Results, Operations
<1>5. CASE Status
  BY <1>5 DEF Status, Return, Goto, Goal, Stable, Transitional, States,
              Unsupported, Outcomes, Ops, PCs, Results
<1>6. CASE WaitStable
  BY <1>6 DEF WaitStable, Return, Goto, Stable, Transitional, States,
              Unsupported, Outcomes, Ops, PCs, Results
<1>7. CASE Pause
  BY <1>7 DEF Pause, Goto, PCs
<1>8. CASE Call
  BY <1>8 DEF Call, Becomes, Return, Goto, Underway, Outcomes, Ops, PCs, Results,
              Operations, States, Transitional
<1>9. CASE WaitOp
  BY <1>9 DEF WaitOp, Return, Outcomes, Ops, PCs, Results, Operations
<1>10. CASE Fails
  BY <1>10 DEF Fails, Return, Outcomes, Ops, PCs, Results, Operations
<1>11. CASE UNCHANGED vars
  BY <1>11 DEF vars
<1> QED
  BY <1>1, <1>2, <1>3, <1>4, <1>5, <1>6, <1>7, <1>8, <1>9, <1>10, <1>11
     DEF Next, CallStep

\* The inductive invariant of Wake and Sleep.
THEOREM Inductive == Spec => []IInv
<1>1. Init => IInv
  BY ComputeAssumption DEF Init, IInv, TypeOK, CallSeen, Truthful, States, Operations,
     PCs, Ops, Results, Outcomes
<1> QED
  BY <1>1, IInvStep, PTL DEF Spec

\* A call that returns nil, or ErrUnsupportedState, has seen a state that says so,
\* whatever others do to the instance meanwhile.
THEOREM AlwaysTruthful == Spec => []Truthful
<1>1. IInv => Truthful
  BY DEF IInv
<1> QED
  BY <1>1, Inductive, PTL

\* The types of the variables of Wake and Sleep.
THEOREM TypeCorrect == Spec => []TypeOK
<1>1. IInv => TypeOK
  BY DEF IInv
<1> QED
  BY <1>1, Inductive, PTL

-----------------------------------------------------------------------------
\* Both modules take their states and operations from Power.
LEMMA SamePower ==
  /\ PowerCall!States = States /\ PowerCall!Stable = Stable
  /\ PowerCall!Transitional = Transitional /\ PowerCall!Unsupported = Unsupported
  /\ PowerCall!Ops = Ops /\ PowerCall!Outcomes = Outcomes
  /\ \A o : PowerCall!Goal(o) = Goal(o) /\ PowerCall!Underway(o) = Underway(o)
  /\ \A o : PowerCall!OutcomesOf(o) = OutcomesOf(o)
  /\ \A o, r : PowerCall!Leaves(o, r) = Leaves(o, r)
  BY DEF PowerCall!States, States, PowerCall!Stable, Stable,
     PowerCall!Transitional, Transitional, PowerCall!Unsupported, Unsupported,
     PowerCall!Ops, Ops, PowerCall!Outcomes, Outcomes, PowerCall!Goal, Goal,
     PowerCall!Underway, Underway, PowerCall!OutcomesOf, OutcomesOf,
     PowerCall!Leaves, Leaves

\* A step of the call is a step, or a stutter, of the one-look call.
LEMMA Simulation == IInv /\ [Next]_vars => [PowerCall!Next]_(PowerCall!vars)
<1> SUFFICES ASSUME IInv, [Next]_vars PROVE [PowerCall!Next]_(PowerCall!vars)
  OBVIOUS
<1> USE DEF IInv, TypeOK, Phase
<1>1. CASE Moved
  <2>1. PowerCall!Move
    BY <1>1, SamePower DEF Moved, Becomes, PowerCall!Move
  <2> QED
    BY <2>1 DEF PowerCall!Next
<1>2. CASE Settles
  <2>1. PowerCall!Move
    BY <1>2, SamePower DEF Settles, Becomes, PowerCall!Move, States, Stable, Transitional
  <2> QED
    BY <2>1 DEF PowerCall!Next
<1>3. CASE OperationEnds
  <2>1. PowerCall!OperationEnds
    BY <1>3, SamePower DEF OperationEnds, Becomes, PowerCall!OperationEnds
  <2> QED
    BY <2>1 DEF PowerCall!Next
<1>4. CASE Begin
  <2>1. PowerCall!Begin
    BY <1>4, SamePower DEF Begin, PowerCall!Begin
  <2> QED
    BY <2>1 DEF PowerCall!Next
<1>5. CASE Status
  <2>1. CASE vm \notin Transitional
    <3>1. PowerCall!Decide
      BY <1>5, <2>1, StateFacts, SamePower DEF Status, Return, Goto, PowerCall!Decide
    <3> QED
      BY <3>1 DEF PowerCall!Next
  <2>2. CASE vm \in Transitional
    <3>1. vm \notin Stable /\ vm \notin Goal(op)
      BY <2>2, StateFacts
    <3> QED
      BY <1>5, <2>2, <3>1 DEF Status, Goto, PowerCall!vars
  <2> QED
    BY <2>1, <2>2
<1>6. CASE WaitStable
  <2>1. CASE vm \in Stable \/ vm \in Transitional
    BY <1>6, <2>1, StateFacts DEF WaitStable, Goto, PowerCall!vars
  <2>2. CASE vm \notin Stable /\ vm \notin Transitional
    <3>1. PowerCall!Decide
      BY <1>6, <2>2, StateFacts, SamePower DEF WaitStable, Return, PowerCall!Decide
    <3> QED
      BY <3>1 DEF PowerCall!Next
  <2> QED
    BY <2>1, <2>2
<1>7. CASE Pause
  BY <1>7 DEF Pause, Goto, PowerCall!vars
<1>8. CASE Call
  <2>1. PowerCall!Act \/ PowerCall!Refused
    BY <1>8, SamePower DEF Call, Becomes, Return, Goto, PowerCall!Act, PowerCall!Refused
  <2> QED
    BY <2>1 DEF PowerCall!Next
<1>9. CASE WaitOp
  <2>1. PowerCall!Finish
    BY <1>9, SamePower DEF WaitOp, Return, PowerCall!Finish
  <2> QED
    BY <2>1 DEF PowerCall!Next
<1>10. CASE Fails
  <2>1. PowerCall!Fail
    BY <1>10, SamePower DEF Fails, Return, PowerCall!Fail, PCs
  <2> QED
    BY <2>1 DEF PowerCall!Next
<1>11. CASE UNCHANGED vars
  BY <1>11 DEF vars, PowerCall!vars
<1> QED
  BY <1>1, <1>2, <1>3, <1>4, <1>5, <1>6, <1>7, <1>8, <1>9, <1>10, <1>11
     DEF Next, CallStep

\* Wake and Sleep, polling as they do, implement the call that looks once, which is
\* what the CLI module takes them for.
THEOREM Implements == Spec => OneLook
<1>1. Init => PowerCall!Init
  BY SamePower DEF Init, PowerCall!Init, Phase
<1> QED
  BY <1>1, Simulation, Inductive, PTL DEF Spec, OneLook, PowerCall!Spec
=============================================================================
