------------------------------ MODULE Verdict ------------------------------
(***************************************************************************)
(* The decision of the workflow in infra/reconcile.yaml.tftpl as it stands *)
(* there: on the wire form of the spans and in two halves, of which the    *)
(* second is reached only when the first decides nothing.                  *)
(***************************************************************************)
EXTENDS StateDoc

CONSTANT WorkingHours  \* the instants inside the protected window

ASSUME VerdictAssumption == WorkingHours \subseteq Nat

\* The subworkflows spanState and spanKeep.
\* Mutant: a span counts from before its start.
UnbegunSpanState(sp, now) == IF sp # NoSpan /\ now < sp.end THEN sp.state ELSE ""

SpanState(sp, now) ==
  IF sp # NoSpan /\ sp.start <= now /\ now < sp.end THEN sp.state ELSE ""

Present(sp) == sp # NoSpan

\* Mutant: a span that has not begun is not kept.
KeepActive(sp, now) == Present(sp) /\ sp.start <= now /\ now < sp.end

Keep(sp, now) == Present(sp) /\ now < sp.end

\* Mutant: only a document with both spans is collected.
CollectableFull(doc, now) ==
  /\ Present(doc.sleep) /\ Present(doc.hold)
  /\ ~Keep(doc.sleep, now)
  /\ ~Keep(doc.hold, now)

Collectable(doc, now) ==
  /\ Present(doc.sleep) \/ Present(doc.hold)
  /\ ~Keep(doc.sleep, now)
  /\ ~Keep(doc.hold, now)

\* Mutant: a scheduled sleep is not looked at.
DecideWithoutSleep(now, doc) ==
  IF SpanState(doc.hold, now) = "awake" THEN "keep-awake"
  ELSE IF now \in WorkingHours          THEN "working-hours"
  ELSE IF IdleTimeout = 0               THEN "idle-disabled"
  ELSE "none"

\* decideScheduled and decideProtected, on the document alone; "none" goes on
\* to idle shutdown.
DecideOnState(now, doc) ==
  IF SpanState(doc.sleep, now) = "asleep"    THEN "scheduled-sleep"
  ELSE IF SpanState(doc.hold, now) = "awake" THEN "keep-awake"
  ELSE IF now \in WorkingHours               THEN "working-hours"
  ELSE IF IdleTimeout = 0                    THEN "idle-disabled"
  ELSE "none"

\* Mutant: any activity is believed.
BelievedActivity(active, now) == active

ActivityClamp(active, now) ==
  IF active > now + MaxActivitySkew THEN NoTime ELSE active

DecideIdle(now, active, started) ==
  IF active # NoTime /\ now - active < IdleTimeout        THEN "active"
  ELSE IF started # NoTime /\ now - started < IdleTimeout THEN "boot-grace"
  ELSE IF active = NoTime                                 THEN "no-activity"
  ELSE "idle"
=============================================================================
