----------------------------- MODULE SKRunloopVC -----------------------------
(***************************************************************************)
(* The timers of the screen SKRunloopVC (RunLoop/SKRunloopVC.m) over the   *)
(* timer registry.  The screen is pushed from the home list and popped, so *)
(* one instance is alive at a time, but the registry and the run loop      *)
(* outlive it.  All of this runs on the main thread (executeTask is called *)
(* with async:NO and repeats:YES), so a call is one step and the handler   *)
(* of a task changes nothing here.                                         *)
(*                                                                         *)
(* schemeTimer is an NSTimer whose target is a weak proxy: the main run    *)
(* loop keeps a scheduled timer until invalidate.                          *)
(***************************************************************************)
EXTENDS Integers, TimerRegistry

CONSTANTS VCs,  \* the instances of the screen
          NoVC  \* no instance is alive

ASSUME VCAssumption == NoVC \notin VCs

VARIABLES
  vc,       \* the instance that is alive
  opened,   \* the instances created so far
  taskID,   \* property taskID of vc, nil is NoID
  scheme    \* the schemeTimer of each instance, "none" before it is created

screenVars == <<registry, destroyed, used, vc, opened, taskID, scheme>>

NoID == -1

ScreenInit ==
  /\ RegistryInit
  /\ vc = NoVC
  /\ opened = {}
  /\ taskID = NoID
  /\ scheme = [v \in VCs |-> "none"]

\* The getter schemeTimer: creates and schedules the timer on first use.
SchemeTimer(v) == IF scheme[v] = "none" THEN "scheduled" ELSE scheme[v]

\* viewDidLoad fires schemeTimer.
ViewDidLoad(v) ==
  /\ vc = NoVC
  /\ v \notin opened
  /\ vc' = v
  /\ opened' = opened \cup {v}
  /\ scheme' = [scheme EXCEPT ![v] = SchemeTimer(v)]
  /\ UNCHANGED <<registry, destroyed, used, taskID>>

\* Mutant: only the first task is remembered.
TimerActionKeepsFirst(t) ==
  /\ vc # NoVC
  /\ Register(t)
  /\ taskID' = IF taskID = NoID THEN Cardinality(DOMAIN registry) ELSE taskID
  /\ UNCHANGED <<vc, opened, scheme>>

\* self.taskID = [SKTimerTest executeTask: ...]
TimerAction(t) ==
  /\ vc # NoVC
  /\ Register(t)
  /\ taskID' = Cardinality(DOMAIN registry)
  /\ UNCHANGED <<vc, opened, scheme>>

\* [SKTimerTest cancelTask:self.taskID], which returns at once for nil
CancelTaskID ==
  \/ taskID = NoID /\ UNCHANGED <<registry, destroyed, used>>
  \/ taskID # NoID /\ Cancel(taskID)

CancelAction ==
  /\ vc # NoVC
  /\ CancelTaskID
  /\ UNCHANGED <<vc, opened, taskID, scheme>>

\* terminalTimer: fires the timer (no effect on an invalid one)
TerminalTimer ==
  /\ vc # NoVC
  /\ scheme' = [scheme EXCEPT ![vc] = SchemeTimer(vc)]
  /\ UNCHANGED <<registry, destroyed, used, vc, opened, taskID>>

\* stopTimer and touchesBegan: [self.schemeTimer invalidate]
StopTimer ==
  /\ vc # NoVC
  /\ scheme' = [scheme EXCEPT ![vc] = "invalid"]
  /\ UNCHANGED <<registry, destroyed, used, vc, opened, taskID>>

\* Mutant: dealloc cancels the first task of the table.
DeallocCancelsFirst ==
  /\ vc # NoVC
  /\ Cancel(0)
  /\ vc' = NoVC
  /\ taskID' = NoID
  /\ UNCHANGED <<opened, scheme>>

\* dealloc cancels taskID and drops its reference to schemeTimer.
Dealloc ==
  /\ vc # NoVC
  /\ CancelTaskID
  /\ vc' = NoVC
  /\ taskID' = NoID
  /\ UNCHANGED <<opened, scheme>>

ScreenNext ==
  \/ \E v \in VCs : ViewDidLoad(v)
  \/ \E t \in Timers : TimerAction(t)
  \/ CancelAction
  \/ TerminalTimer
  \/ StopTimer
  \/ Dealloc

ScreenSpec == ScreenInit /\ [][ScreenNext]_screenVars
-----------------------------------------------------------------------------
\* The values of the variables.
ScreenTypeOK ==
  /\ DOMAIN registry \subseteq Nat
  /\ registry \in [DOMAIN registry -> Timers]
  /\ destroyed \subseteq Timers
  /\ used \subseteq Timers
  /\ vc \in VCs \cup {NoVC}
  /\ opened \subseteq VCs
  /\ taskID \in Nat \cup {NoID}
  /\ scheme \in [VCs -> {"none", "scheduled", "invalid"}]

\* SKTimerTest may hand out an identifier that is in use (see SKTimerTest.tla),
\* but not to this screen: it only ever cancels the newest entry, so that
\* timerDict.count is always a fresh identifier.
NextIDFresh == Cardinality(DOMAIN registry) \notin DOMAIN registry

\* timerAction, cancelAction and dealloc leave every timer but the one that
\* taskID names alone: a timer of an earlier tap, or of an earlier instance of
\* the screen, is neither overwritten nor cancelled.
OthersUntouched ==
  [][\A i \in DOMAIN registry \ {taskID} :
       i \in DOMAIN registry' /\ registry'[i] = registry[i]]_screenVars
=============================================================================
