----------------------------- MODULE Reconciler -----------------------------
(***************************************************************************)
(* One execution of the Workflow in infra/reconcile.yaml.tftpl per member  *)
(* of Ticks: Cloud Scheduler starts one every minute and an execution may  *)
(* outlast its minute, so several can be under way.  It reads the clock    *)
(* once, then the instance, the document and the guest attribute one call  *)
(* at a time, and acts on what it read.                                    *)
(***************************************************************************)
EXTENDS World, Verdict

CONSTANT Ticks

VARIABLE tick

TickPCs == {"idle", "getInstance", "readState", "readActivity", "suspendVm",
            "waitVmOp", "cleanup"}

Actions == Reasons \cup {"none"}

\* under is a history field: the promise that stood when the tick began.
Tick == [pc : TickPCs, now : Nat, lastStart : Nat \cup {NoTime},
         lastActive : Nat \cup {NoTime}, doc : Record, action : Actions,
         under : Promise]

IdleTick == [pc |-> "idle", now |-> 0, lastStart |-> NoTime,
             lastActive |-> NoTime, doc |-> NoRecord, action |-> "none",
             under |-> NoPromise]

ReconcilerTypeOK == tick \in [Ticks -> Tick]

ReconcilerInit == tick = [t \in Ticks |-> IdleTick]

-----------------------------------------------------------------------------
StartTick(t) ==
  /\ tick[t].pc = "idle"
  /\ tick' = [tick EXCEPT ![t] = [IdleTick EXCEPT !.pc = "getInstance",
                                                  !.now = clock,
                                                  !.under = promise]]
  /\ UNCHANGED worldVars

\* Only a RUNNING instance can be suspended; for any other the tick is over, and
\* the document is not even collected.
GetInstance(t) ==
  /\ tick[t].pc = "getInstance"
  /\ tick' = [tick EXCEPT ![t] =
       IF vmStatus = "RUNNING"
         THEN [@ EXCEPT !.pc = "readState", !.lastStart = lastStart]
         ELSE IdleTick]
  /\ UNCHANGED worldVars

ReadState(t) ==
  /\ tick[t].pc = "readState"
  /\ LET action == DecideOnState(tick[t].now, record) IN
     tick' = [tick EXCEPT ![t] =
       [@ EXCEPT !.doc = record,
                 !.action = action,
                 !.pc = IF action = "scheduled-sleep" THEN "suspendVm"
                        ELSE IF action = "none"       THEN "readActivity"
                        ELSE "cleanup"]]
  /\ UNCHANGED worldVars

ReadActivity(t) ==
  /\ tick[t].pc = "readActivity"
  /\ LET active == ActivityClamp(lastActive, tick[t].now)
         action == DecideIdle(tick[t].now, active, tick[t].lastStart) IN
     tick' = [tick EXCEPT ![t] =
       [@ EXCEPT !.lastActive = lastActive,
                 !.action = action,
                 !.pc = IF action \in SuspendReasons THEN "suspendVm"
                        ELSE "cleanup"]]
  /\ UNCHANGED worldVars

\* The call is refused, which fails the execution, unless the instance is still
\* RUNNING.
SuspendVm(t) ==
  /\ tick[t].pc = "suspendVm"
  /\ IF vmStatus = "RUNNING"
       THEN /\ vmStatus' = "SUSPENDING"
            /\ tick' = [tick EXCEPT ![t].pc = "waitVmOp"]
       ELSE /\ tick' = [tick EXCEPT ![t] = IdleTick]
            /\ UNCHANGED vmStatus
  /\ UNCHANGED <<clock, lastStart, lastActive, storeVars, faults, promise>>

\* The operation ends; its error, if any, is in the result and is not looked at.
WaitVmOp(t) ==
  /\ tick[t].pc = "waitVmOp"
  /\ tick' = [tick EXCEPT ![t].pc = "cleanup"]
  /\ \/ vmStatus' = "SUSPENDED" /\ UNCHANGED faults
     \/ vmStatus' = "RUNNING" /\ Fault
  /\ UNCHANGED <<clock, lastStart, lastActive, storeVars, promise>>

\* Mutant: the delete has no precondition.
NoPrecondition(t) == TRUE

\* The delete carries the update time of the document that was read: it fails,
\* and the failure is ignored, when the document changed since.
Precondition(t) == record.updateTime = tick[t].doc.updateTime

Cleanup(t) ==
  /\ tick[t].pc = "cleanup"
  /\ tick' = [tick EXCEPT ![t] = IdleTick]
  /\ IF /\ Collectable(tick[t].doc, tick[t].now)
        /\ record # NoRecord
        /\ Precondition(t)
       THEN Delete
       ELSE UNCHANGED storeVars
  /\ UNCHANGED <<clock, vmVars, faults, promise>>

\* A call fails with an error the workflow re-raises.
AbortTick(t) ==
  /\ tick[t].pc # "idle"
  /\ Fault
  /\ tick' = [tick EXCEPT ![t] = IdleTick]
  /\ UNCHANGED <<clock, vmVars, storeVars, promise>>

TickStep(t) ==
  \/ StartTick(t)
  \/ GetInstance(t)
  \/ ReadState(t)
  \/ ReadActivity(t)
  \/ SuspendVm(t)
  \/ WaitVmOp(t)
  \/ Cleanup(t)
=============================================================================
