------------------------------ MODULE MCStatus ------------------------------
(* Instances of Status for TLC.                                            *)
EXTENDS Status

Doc(sleep, hold) == [sleep |-> sleep, hold |-> hold, updateTime |-> 1]

Hold(start, end) == [start |-> start, end |-> end, state |-> "awake"]

Sleep(start, end) == [start |-> start, end |-> end, state |-> "asleep"]

Odd(start, end) == [start |-> start, end |-> end, state |-> "unknown"]

\* No document, each span before, during and after the times of the run, both, and
\* spans in states that do not fit their slot.
SomeDocuments ==
  {NoRecord,
   Doc(NoSpan, Hold(0, 2)), Doc(Sleep(1, 3), NoSpan), Doc(Sleep(1, 3), Hold(0, 2)),
   Doc(Hold(0, 3), Sleep(0, 3)), Doc(Odd(0, 3), Odd(1, 4))}

SomeStarts == {NoTime, 0, 2}
=============================================================================
