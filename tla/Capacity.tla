------------------------------ MODULE Capacity ------------------------------
(***************************************************************************)
(* Which failures of a start or a resume are a shortage of the zone, and   *)
(* what the report says of it (internal/compute/capacity.go).  Values are  *)
(* taken as sanitized.  A loop over a list is a function r of the index:   *)
(* r[i] is what its variable holds after i rounds.                         *)
(***************************************************************************)
EXTENDS Naturals, FiniteSets, SequencesExt

CONSTANT MaxListEntries

ASSUME CapacityAssumption == MaxListEntries \in Nat

Exhausted == "ZONE_RESOURCE_POOL_EXHAUSTED"

ExhaustedWithDetails == "ZONE_RESOURCE_POOL_EXHAUSTED_WITH_DETAILS"

CapacityCodes == {Exhausted, ExhaustedWithDetails}

IsCapacityCode(code) == code \in CapacityCodes

\* A value that is absent or was sanitized to nothing.
NoValue == ""

Ellipsis == "..."

Detail == [zone : STRING, vmType : STRING, zonesAvailable : Seq(STRING), message : STRING]

\* A failure: the errors of the operation's proto (none when the call itself was
\* refused), the zone of its URL, and the error as the client returns it: whether it
\* is an API error, its status, its items, and the codes its text quotes as the proto
\* dump does.
Failure ==
  [errors : Seq([code : STRING, details : Seq(Detail), message : STRING]),
   zone : STRING, api : BOOLEAN, status : Nat,
   items : Seq([reason : STRING, message : STRING]), quotes : SUBSET CapacityCodes]

Shortage(code, message) ==
  [code |-> code, zone |-> NoValue, machineType |-> NoValue, zones |-> <<>>,
   message |-> message]

NoShortage == Shortage(NoValue, NoValue)

\* The first position with a capacity code, 0 if there is none.
FirstShortage(codes) == SelectInSeq(codes, IsCapacityCode)

Filled(value, other) == IF value = NoValue THEN other ELSE value

\* Mutant: a list of just as many entries as are kept is marked as cut.
ListedEager(out, p) ==
  IF p = NoValue \/ Len(out) > MaxListEntries THEN out
  ELSE IF Len(out) + 1 = MaxListEntries THEN out \o <<p, Ellipsis>> ELSE Append(out, p)

\* An ellipsis takes the place of the first entry too many.
Listed(out, p) ==
  IF p = NoValue \/ Len(out) > MaxListEntries THEN out
  ELSE Append(out, IF Len(out) = MaxListEntries THEN Ellipsis ELSE p)

SplitList(entries) ==
  LET r[i \in 0..Len(entries)] == IF i = 0 THEN <<>> ELSE Listed(r[i - 1], entries[i])
  IN  r[Len(entries)]

\* Mutant: a later detail replaces what an earlier one supplied.
Overwritten(c, d) ==
  [code |-> c.code, zone |-> d.zone, machineType |-> d.vmType,
   zones |-> SplitList(d.zonesAvailable), message |-> d.message]

\* What one more detail of the item adds: a field takes the first usable value.
Merged(c, d) ==
  [code |-> c.code,
   zone |-> Filled(c.zone, d.zone),
   machineType |-> Filled(c.machineType, d.vmType),
   zones |-> IF c.zones = <<>> THEN SplitList(d.zonesAvailable) ELSE c.zones,
   message |-> Filled(c.message, d.message)]

MergedAll(c, details) ==
  LET r[i \in 0..Len(details)] == IF i = 0 THEN c ELSE Merged(r[i - 1], details[i])
  IN  r[Len(details)]

\* Mutant: the operation is judged by its first error.
FromFirstError(f) ==
  IF f.errors # <<>> /\ IsCapacityCode(Head(f.errors).code)
    THEN Shortage(Head(f.errors).code, Head(f.errors).message)
    ELSE NoShortage

CapacityErrorFromOp(f) ==
  LET first == FirstShortage([i \in DOMAIN f.errors |-> f.errors[i].code]) IN
  IF first = 0 THEN NoShortage
  ELSE LET item == f.errors[first]
           c == MergedAll(Shortage(item.code, NoValue), item.details) IN
       [c EXCEPT !.zone = Filled(@, f.zone), !.message = Filled(@, item.message)]

CapacityErrorFromErr(f) ==
  LET first == FirstShortage([i \in DOMAIN f.items |-> f.items[i].reason]) IN
  IF ~f.api THEN NoShortage
  ELSE IF first # 0 THEN Shortage(f.items[first].reason, f.items[first].message)
  ELSE IF f.status # 503 \/ f.quotes = {} THEN NoShortage
  ELSE Shortage(IF ExhaustedWithDetails \in f.quotes
                  THEN ExhaustedWithDetails ELSE Exhausted, NoValue)

\* classifyCallErr is waitWakeOp without an operation: the proto comes first.
Classify(f) ==
  LET c == CapacityErrorFromOp(f) IN
  IF c # NoShortage THEN c ELSE CapacityErrorFromErr(f)

ErrNoCapacity(f) == Classify(f).code # NoValue

-----------------------------------------------------------------------------
(* What the classification has to say, without its loops.                  *)

\* A failure is retried for minutes as a shortage exactly when an error of the
\* operation, at whatever position, or an item of the API's error has a capacity
\* code, or a 503 quotes one; the reported code is one of those.
ShortageTold(f) ==
  LET evidence == {f.errors[i].code : i \in DOMAIN f.errors}
                  \cup (IF f.api THEN {f.items[i].reason : i \in DOMAIN f.items}
                                 ELSE {})
                  \cup (IF f.api /\ f.status = 503 THEN f.quotes ELSE {}) IN
  /\ ErrNoCapacity(f) <=> evidence \cap CapacityCodes # {}
  /\ ErrNoCapacity(f) => Classify(f).code \in evidence

\* The first of the values that is not none; none, if there is no such.
IsFirstUsable(value, values, none) ==
  \/ value = none /\ \A i \in DOMAIN values : values[i] = none
  \/ \E i \in DOMAIN values :
       /\ value = values[i] /\ value # none
       /\ \A j \in 1..(i - 1) : values[j] = none

\* A list holds the usable entries in their order; one that was cut is marked as cut,
\* and no other is: a part never passes for the whole, nor the whole for a part.
IsCut(list, entries) ==
  LET usable == {i \in DOMAIN entries : entries[i] # NoValue}
      Rank(i) == Cardinality({j \in usable : j <= i})
      count == Cardinality(usable) IN
  /\ Len(list) = IF count <= MaxListEntries THEN count ELSE MaxListEntries + 1
  /\ \A i \in usable : Rank(i) <= MaxListEntries => list[Rank(i)] = entries[i]
  /\ count > MaxListEntries => list[MaxListEntries + 1] = Ellipsis

\* What the report names comes from the error that is the shortage and from nowhere
\* else: each field is the first usable value of its details, the zone and the
\* message with their one fallback; no detail blanks what an earlier one supplied,
\* and the list of zones is honest about what it leaves out.
ReportIsGrounded(f) ==
  CapacityErrorFromOp(f) # NoShortage =>
    \E k \in DOMAIN f.errors :
      LET d == f.errors[k].details
          c == Classify(f) IN
      /\ f.errors[k].code = c.code
      /\ \A j \in 1..(k - 1) : ~IsCapacityCode(f.errors[j].code)
      /\ IsFirstUsable(c.zone, Append([i \in DOMAIN d |-> d[i].zone], f.zone), NoValue)
      /\ IsFirstUsable(c.machineType, [i \in DOMAIN d |-> d[i].vmType], NoValue)
      /\ IsFirstUsable(c.zones, [i \in DOMAIN d |-> SplitList(d[i].zonesAvailable)], <<>>)
      /\ \A i \in DOMAIN d : IsCut(SplitList(d[i].zonesAvailable), d[i].zonesAvailable)
      /\ IsFirstUsable(c.message, Append([i \in DOMAIN d |-> d[i].message],
                                         f.errors[k].message), NoValue)
=============================================================================
