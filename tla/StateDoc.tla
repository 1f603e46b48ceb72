------------------------------ MODULE StateDoc ------------------------------
(***************************************************************************)
(* The operational-state document of internal/state: the spans a command   *)
(* works on (Document), their wire form in Firestore (Record), and the     *)
(* rules that prune and combine them.                                      *)
(***************************************************************************)
EXTENDS Schedule

Document == [sleep : OptionalSpan, hold : OptionalSpan]

NoDocument == [sleep |-> NoSpan, hold |-> NoSpan]

Empty(d) == d.sleep = NoSpan /\ d.hold = NoSpan

\* The stored document with the update time Firestore gives every commit; the
\* update time 0 is that of a document that does not exist.
Record == [sleep : OptionalSpan, hold : OptionalSpan, updateTime : Nat]

NoRecord == [sleep |-> NoSpan, hold |-> NoSpan, updateTime |-> 0]

\* A span whose state string is not one of the two known ones reads as absent.
FromWire(sp) == IF sp.state \in {"awake", "asleep"} THEN sp ELSE NoSpan

Load(r) == [sleep |-> FromWire(r.sleep), hold |-> FromWire(r.hold)]

ActiveSpan(sp, t, want) ==
  IF Expired(sp, t) \/ sp.state # want THEN NoSpan ELSE sp

ActiveDoc(d, t) == [sleep |-> ActiveSpan(d.sleep, t, "asleep"),
                    hold  |-> ActiveSpan(d.hold, t, "awake")]

Set(d, kind, sp) == [d EXCEPT ![kind] = sp]

\* Mutant: the last one asked for wins.
CandidateHold(d, candidate) == candidate

\* The existing awake hold when it runs longer, else the candidate.
LongerAwakeHold(d, candidate) ==
  IF d.hold.state = "awake" /\ d.hold.end > candidate.end
    THEN d.hold
    ELSE candidate
=============================================================================
