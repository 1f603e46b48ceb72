------------------------------ MODULE Forwards ------------------------------
(***************************************************************************)
(* The arguments of workbox forward (internal/ssh): a spec is the sequence *)
(* of the fields between its colons, a field a number, or NotANumber.  The *)
(* loop over the specs is a function r of the index.                       *)
(***************************************************************************)
EXTENDS Integers, SequencesExt

NotANumber == -1

Port == 1..65535

Invalid == [local |-> 0, remote |-> 0]

ParseForward(spec) ==
  IF Len(spec) \in 1..2 /\ \A i \in DOMAIN spec : spec[i] \in Port
    THEN [local |-> Head(spec), remote |-> Last(spec)]
    ELSE Invalid

Locals(forwards) == {forwards[i].local : i \in DOMAIN forwards}

Taken(forwards, f) == f.local \in Locals(forwards)

\* What one more spec adds, unless an error came before it.
Extended(r, spec) ==
  LET f == ParseForward(spec) IN
  IF ~r.ok \/ f = Invalid \/ Taken(r.forwards, f)
    THEN [ok |-> FALSE, forwards |-> r.forwards]
    ELSE [ok |-> TRUE, forwards |-> Append(r.forwards, f)]

\* [ok, forwards], with the forwards before the first error.
ParseForwards(specs) ==
  LET r[i \in 0..Len(specs)] == IF i = 0 THEN [ok |-> TRUE, forwards |-> <<>>]
                                ELSE Extended(r[i - 1], specs[i])
  IN  r[Len(specs)]

Loopback == {"127.0.0.1", "::1"}

\* What forward is given and finds: the specs, the families of the host (localhost
\* resolves to their loopback addresses), and the addresses something is bound to.
IsArgs(args) == args.specs \in Seq(Seq(Int)) /\ args.families \subseteq Loopback

\* Mutant: the first family alone is tried.
FirstFamilyFree(forwards, families, taken) ==
  \A port \in Locals(forwards) : <<"127.0.0.1", port>> \notin taken

\* CheckLocalPorts: a port is free if it can be bound on every family the host has.
PortsFree(forwards, families, taken) ==
  \A host \in Loopback \cap families, port \in Locals(forwards) :
    <<host, port>> \notin taken

-----------------------------------------------------------------------------
\* ssh can set the forwards up: it binds every address localhost resolves to, and
\* fails on the second forward of a port (ExitOnForwardFailure).
Bindable(forwards, families, taken) ==
  /\ \A i, j \in DOMAIN forwards :
       forwards[i].local = forwards[j].local => i = j
  /\ \A i \in DOMAIN forwards :
       /\ {forwards[i].local, forwards[i].remote} \subseteq Port
       /\ \A host \in families : <<host, forwards[i].local>> \notin taken
=============================================================================
