------------------------- MODULE LXDAppFluecyMonitor -------------------------
(***************************************************************************)
(* Optimization/FPS/LXDAppFluecyMonitor: a singleton that reports when the *)
(* main thread stalls.  An observer of the main run loop stores each       *)
(* activity and signals semphore.  Two loops, each on a serial queue of    *)
(* its own, watch: the event loop sends a block to the main queue while    *)
(* the run loop is about to wait; the fluency loop counts waits for        *)
(* semphore that timed out.                                                *)
(*                                                                         *)
(* startMonitoring and stopMonitoring run on the main thread, the fluency  *)
(* loop calls stopMonitoring, too.  No lock protects the properties, so    *)
(* every access is a step.  Time is abstracted: a timed wait that is not   *)
(* signalled may end at any moment, and so may a sleep.                    *)
(***************************************************************************)
EXTENDS Integers

CONSTANTS
  Misses,     \* waits that must time out in a row before a stall is logged: 5
  MaxStarts,  \* bound on the observers created
  MaxSignals  \* bound on the count of semphore

ASSUME MonitorAssumption ==
  Misses \in Nat \ {0} /\ MaxStarts \in Nat \ {0} /\ MaxSignals \in Nat \ {0}

VARIABLES
  isMonitoring, observer, currentActivity, timeOut,  \* properties; observer 0 is nil
  semphore, eventSemphore,
  eventTimeOut,   \* the __block variable timeOut of the event loop
  starts,         \* number of observers created so far
  observers,      \* the observers added to the main run loop
  released,       \* the observers given to CFRelease
  early,          \* was the monitor ever started before its last fluency loop had ended?
  fault,          \* CFRelease or CFRunLoopAddObserver got nil
  phase,          \* the activity of the main run loop
  busy,           \* is the main thread in the code of an event handler?
  mainQueue,      \* blocks of the event loop in the main queue
  queued,         \* blocks in the queue of each loop, the running one not included
  step            \* where the main thread and the two loops are

properties == <<isMonitoring, observer, currentActivity, timeOut>>
runLoop == <<phase, busy, mainQueue>>
observing == <<observers, released, early, fault>>
monitorVars == <<properties, semphore, eventSemphore, eventTimeOut, starts, observing, runLoop, queued,
                 step>>

Loops == {"event", "fluency"}
Stoppers == {"main", "fluency"}

MonitorInit ==
  /\ isMonitoring = FALSE /\ observer = 0 /\ currentActivity = "none" /\ timeOut = 0
  /\ semphore = 0 /\ eventSemphore = 0 /\ eventTimeOut = FALSE
  /\ starts = 0
  /\ observers = {} /\ released = {} /\ early = FALSE /\ fault = FALSE
  /\ phase = "BeforeTimers" /\ busy = FALSE /\ mainQueue = 0
  /\ queued = [l \in Loops |-> 0]
  /\ step = [l \in {"main"} \cup Loops |-> "none"]
-----------------------------------------------------------------------------
(* The main run loop, and lxdRunLoopObserverCallback.                      *)

\* After each activity; without input the loop waits, with input it may not.
Following == [BeforeTimers |-> {"BeforeSources"},
              BeforeSources |-> {"BeforeWaiting", "BeforeTimers"},
              BeforeWaiting |-> {"AfterWaiting"},
              AfterWaiting |-> {"BeforeTimers"}]

\* The run loop tells its observers of the next activity: the callback stores
\* it, ...  MaxSignals bounds the signals not yet waited for, which the semaphore of
\* the code does not: with that many the model lets the fluency loop go first.
Observe ==
  /\ step["main"] = "none" /\ ~busy
  /\ observers # {} => semphore < MaxSignals
  /\ \E activity \in Following[phase] :
       /\ phase' = activity
       /\ currentActivity' = IF observers = {} THEN currentActivity ELSE activity
  /\ step' = IF observers = {} THEN step ELSE [step EXCEPT !["main"] = "signal"]
  /\ UNCHANGED <<isMonitoring, observer, timeOut, semphore, eventSemphore, eventTimeOut,
                 starts, observing, busy, mainQueue, queued>>

\* ... then signals.
Signal ==
  /\ step["main"] = "signal"
  /\ semphore' = semphore + 1
  /\ step' = [step EXCEPT !["main"] = "none"]
  /\ UNCHANGED <<properties, eventSemphore, eventTimeOut, starts, observing, runLoop, queued>>

\* Sources and timers are handled, for as long as it takes.
Handling == phase \in {"BeforeSources", "AfterWaiting"}

BeginHandler ==
  /\ step["main"] = "none" /\ ~busy /\ Handling
  /\ busy' = TRUE
  /\ UNCHANGED <<properties, semphore, eventSemphore, eventTimeOut, starts, observing,
                 phase, mainQueue, queued, step>>

EndHandler ==
  /\ step["main"] = "none" /\ busy
  /\ busy' = FALSE
  /\ UNCHANGED <<properties, semphore, eventSemphore, eventTimeOut, starts, observing,
                 phase, mainQueue, queued, step>>

\* The main queue is served: the event loop's block clears its variable and
\* signals.
ServeMainQueue ==
  /\ step["main"] = "none" /\ ~busy /\ Handling
  /\ mainQueue > 0
  /\ mainQueue' = mainQueue - 1
  /\ eventTimeOut' = FALSE
  /\ eventSemphore' = eventSemphore + 1
  /\ UNCHANGED <<properties, semphore, starts, observing, phase, busy, queued, step>>
-----------------------------------------------------------------------------
(* startMonitoring, called by an event handler.  (When the monitor is on,  *)
(* it changes nothing.)  Only here isMonitoring becomes TRUE, so to test   *)
(* and to set it is one step.                                              *)

LoopEnded(l) == step[l] = "none" /\ queued[l] = 0

StartMonitoring ==
  /\ step["main"] = "none" /\ busy
  /\ starts < MaxStarts
  /\ ~isMonitoring
  /\ isMonitoring' = TRUE
  /\ early' = (early \/ ~LoopEnded("fluency"))
  /\ step' = [step EXCEPT !["main"] = "create"]
  /\ UNCHANGED <<observer, currentActivity, timeOut, semphore, eventSemphore, eventTimeOut,
                 starts, observers, released, fault, runLoop, queued>>

CreateObserver ==
  /\ step["main"] = "create"
  /\ starts' = starts + 1
  /\ observer' = starts + 1
  /\ step' = [step EXCEPT !["main"] = "addObserver"]
  /\ UNCHANGED <<isMonitoring, currentActivity, timeOut, semphore, eventSemphore, eventTimeOut,
                 observing, runLoop, queued>>

AddObserver ==
  /\ step["main"] = "addObserver"
  /\ IF observer = 0
     THEN fault' = TRUE /\ UNCHANGED observers
     ELSE observers' = observers \cup {observer} /\ UNCHANGED fault
  /\ step' = [step EXCEPT !["main"] = "dispatch"]
  /\ UNCHANGED <<properties, semphore, eventSemphore, eventTimeOut, starts, released, early,
                 runLoop, queued>>

DispatchLoops ==
  /\ step["main"] = "dispatch"
  /\ queued' = [l \in Loops |-> queued[l] + 1]
  /\ step' = [step EXCEPT !["main"] = "none"]
  /\ UNCHANGED <<properties, semphore, eventSemphore, eventTimeOut, starts, observing, runLoop>>
-----------------------------------------------------------------------------
(* stopMonitoring, called by an event handler or by the fluency loop.      *)

\* After stopMonitoring the fluency loop goes on with its next turn.
Return(p) == IF p = "main" THEN "none" ELSE "while"

StopMonitoring(p) ==
  /\ p = "main" => step["main"] = "none" /\ busy
  /\ p = "fluency" => step["fluency"] = "stop"
  /\ step' = [step EXCEPT ![p] = IF isMonitoring THEN "clear" ELSE Return(p)]
  /\ UNCHANGED <<properties, semphore, eventSemphore, eventTimeOut, starts, observing, runLoop, queued>>

ClearMonitoring(p) ==
  /\ step[p] = "clear"
  /\ isMonitoring' = FALSE
  /\ step' = [step EXCEPT ![p] = "removeObserver"]
  /\ UNCHANGED <<observer, currentActivity, timeOut, semphore, eventSemphore, eventTimeOut,
                 starts, observing, runLoop, queued>>

RemoveObserver(p) ==
  /\ step[p] = "removeObserver"
  /\ observers' = observers \ {observer}
  /\ step' = [step EXCEPT ![p] = "release"]
  /\ UNCHANGED <<properties, semphore, eventSemphore, eventTimeOut, starts, released, early,
                 fault, runLoop, queued>>

Release(p) ==
  /\ step[p] = "release"
  /\ fault' = (fault \/ observer = 0 \/ observer \in released)
  /\ released' = released \cup ({observer} \ {0})
  /\ step' = [step EXCEPT ![p] = "forget"]
  /\ UNCHANGED <<properties, semphore, eventSemphore, eventTimeOut, starts, observers, early,
                 runLoop, queued>>

\* Mutant: the property keeps the observer that was released.
KeepObserver(p) ==
  /\ step[p] = "forget"
  /\ step' = [step EXCEPT ![p] = Return(p)]
  /\ UNCHANGED <<properties, semphore, eventSemphore, eventTimeOut, starts, observing, runLoop, queued>>

ForgetObserver(p) ==
  /\ step[p] = "forget"
  /\ observer' = 0
  /\ step' = [step EXCEPT ![p] = Return(p)]
  /\ UNCHANGED <<isMonitoring, currentActivity, timeOut, semphore, eventSemphore, eventTimeOut,
                 starts, observing, runLoop, queued>>
-----------------------------------------------------------------------------
(* The loops.                                                              *)

\* A serial queue runs its next block when the one before is finished.
BeginLoop(l) ==
  /\ step[l] = "none" /\ queued[l] > 0
  /\ queued' = [queued EXCEPT ![l] = @ - 1]
  /\ step' = [step EXCEPT ![l] = "while"]
  /\ UNCHANGED <<properties, semphore, eventSemphore, eventTimeOut, starts, observing, runLoop>>

While(l) ==
  /\ step[l] = "while"
  /\ step' = [step EXCEPT ![l] = IF isMonitoring THEN "if" ELSE "none"]
  /\ UNCHANGED <<properties, semphore, eventSemphore, eventTimeOut, starts, observing, runLoop, queued>>

\* The event loop sends its block while the run loop is about to wait.
SendEvent ==
  /\ step["event"] = "if"
  /\ \/ /\ currentActivity = "BeforeWaiting"
        /\ eventTimeOut' = TRUE
        /\ mainQueue' = mainQueue + 1
        /\ step' = [step EXCEPT !["event"] = "slept"]
     \/ /\ currentActivity # "BeforeWaiting"
        /\ step' = [step EXCEPT !["event"] = "while"]
        /\ UNCHANGED <<eventTimeOut, mainQueue>>
  /\ UNCHANGED <<properties, semphore, eventSemphore, starts, observing, phase, busy, queued>>

\* After a second it logs if the block was not run ...
TestTimeOut ==
  /\ step["event"] = "slept"
  /\ step' = [step EXCEPT !["event"] = IF eventTimeOut THEN "log" ELSE "wait"]
  /\ UNCHANGED <<properties, semphore, eventSemphore, eventTimeOut, starts, observing, runLoop, queued>>

LogEvent ==
  /\ step["event"] = "log"
  /\ step' = [step EXCEPT !["event"] = "wait"]
  /\ UNCHANGED <<properties, semphore, eventSemphore, eventTimeOut, starts, observing, runLoop, queued>>

\* Mutant: the wait may time out.
WaitEventTimed ==
  /\ step["event"] = "wait"
  /\ eventSemphore' = IF eventSemphore > 0 THEN eventSemphore - 1 ELSE 0
  /\ step' = [step EXCEPT !["event"] = "while"]
  /\ UNCHANGED <<properties, semphore, eventTimeOut, starts, observing, runLoop, queued>>

\* ... and waits for it.
WaitEvent ==
  /\ step["event"] = "wait"
  /\ eventSemphore > 0
  /\ eventSemphore' = eventSemphore - 1
  /\ step' = [step EXCEPT !["event"] = "while"]
  /\ UNCHANGED <<properties, semphore, eventTimeOut, starts, observing, runLoop, queued>>

\* Mutant: the wait has no limit.
WaitSignalForever ==
  /\ step["fluency"] = "if"
  /\ semphore > 0
  /\ semphore' = semphore - 1
  /\ step' = [step EXCEPT !["fluency"] = "reset"]
  /\ UNCHANGED <<properties, eventSemphore, eventTimeOut, starts, observing, runLoop, queued>>

\* The fluency loop waits for a signal, 200 ms at most.
WaitSignal ==
  /\ step["fluency"] = "if"
  /\ \/ /\ semphore > 0
        /\ semphore' = semphore - 1
        /\ step' = [step EXCEPT !["fluency"] = "reset"]
     \/ /\ semphore = 0
        /\ step' = [step EXCEPT !["fluency"] = "timedOut"]
        /\ UNCHANGED semphore
  /\ UNCHANGED <<properties, eventSemphore, eventTimeOut, starts, observing, runLoop, queued>>

\* Without an observer it stops the monitor.
CheckObserver ==
  /\ step["fluency"] = "timedOut"
  /\ timeOut' = IF observer = 0 THEN 0 ELSE timeOut
  /\ step' = [step EXCEPT !["fluency"] = IF observer = 0 THEN "stop" ELSE "count"]
  /\ UNCHANGED <<isMonitoring, observer, currentActivity, semphore, eventSemphore, eventTimeOut,
                 starts, observing, runLoop, queued>>

\* Mutant: the count is reset after a miss, too ("continue" is missing).
CountMissReset ==
  /\ step["fluency"] = "count"
  /\ LET counts == currentActivity \in {"BeforeSources", "AfterWaiting"}
     IN  /\ timeOut' = IF counts THEN timeOut + 1 ELSE timeOut
         /\ step' = [step EXCEPT !["fluency"] = IF counts /\ timeOut + 1 >= Misses THEN "log" ELSE "reset"]
  /\ UNCHANGED <<isMonitoring, observer, currentActivity, semphore, eventSemphore, eventTimeOut,
                 starts, observing, runLoop, queued>>

\* A miss counts while sources are handled or after waiting.
CountMiss ==
  /\ step["fluency"] = "count"
  /\ \/ /\ currentActivity \in {"BeforeSources", "AfterWaiting"}
        /\ timeOut' = timeOut + 1
        /\ step' = [step EXCEPT !["fluency"] = IF timeOut + 1 < Misses THEN "while" ELSE "log"]
     \/ /\ currentActivity \notin {"BeforeSources", "AfterWaiting"}
        /\ step' = [step EXCEPT !["fluency"] = "reset"]
        /\ UNCHANGED timeOut
  /\ UNCHANGED <<isMonitoring, observer, currentActivity, semphore, eventSemphore, eventTimeOut,
                 starts, observing, runLoop, queued>>

LogFluency ==
  /\ step["fluency"] = "log"
  /\ step' = [step EXCEPT !["fluency"] = "reset"]
  /\ UNCHANGED <<properties, semphore, eventSemphore, eventTimeOut, starts, observing, runLoop, queued>>

Reset ==
  /\ step["fluency"] = "reset"
  /\ timeOut' = 0
  /\ step' = [step EXCEPT !["fluency"] = "while"]
  /\ UNCHANGED <<isMonitoring, observer, currentActivity, semphore, eventSemphore, eventTimeOut,
                 starts, observing, runLoop, queued>>
-----------------------------------------------------------------------------
StopSteps(p) == StopMonitoring(p) \/ ClearMonitoring(p) \/ RemoveObserver(p) \/ Release(p) \/ ForgetObserver(p)

\* What the main thread does by itself: handlers may last for ever, and so may
\* the wait of the run loop unless there is a block in the main queue.
Awake == phase # "BeforeWaiting" \/ mainQueue > 0

MainSteps ==
  (Awake /\ Observe) \/ Signal \/ CreateObserver \/ AddObserver \/ DispatchLoops
    \/ ClearMonitoring("main") \/ RemoveObserver("main") \/ Release("main") \/ ForgetObserver("main")

EventLoop == BeginLoop("event") \/ While("event") \/ SendEvent \/ TestTimeOut \/ LogEvent \/ WaitEvent

FluencyLoop ==
  \/ BeginLoop("fluency") \/ While("fluency") \/ WaitSignal \/ CheckObserver \/ CountMiss
  \/ LogFluency \/ Reset \/ StopSteps("fluency")

\* A fault ends the program.
MonitorNext ==
  /\ ~fault
  /\ \/ Observe \/ MainSteps \/ BeginHandler \/ EndHandler \/ ServeMainQueue
     \/ StartMonitoring \/ StopMonitoring("main")
     \/ EventLoop \/ FluencyLoop

Fairness ==
  /\ WF_monitorVars(MainSteps /\ ~fault) /\ SF_monitorVars(ServeMainQueue /\ ~fault)
  /\ WF_monitorVars(EventLoop /\ ~fault) /\ WF_monitorVars(FluencyLoop /\ ~fault)

MonitorSpec == MonitorInit /\ [][MonitorNext]_monitorVars /\ Fairness
-----------------------------------------------------------------------------
Labels == {"none", "signal", "create", "addObserver", "dispatch",
           "stop", "clear", "removeObserver", "release", "forget",
           "while", "if", "slept", "log", "wait", "timedOut", "count", "reset"}

\* The values of the variables.
MonitorTypeOK ==
  /\ isMonitoring \in BOOLEAN /\ early \in BOOLEAN /\ fault \in BOOLEAN
  /\ busy \in BOOLEAN /\ eventTimeOut \in BOOLEAN
  /\ starts \in 0..MaxStarts /\ observer \in 0..starts
  /\ observers \subseteq 1..starts /\ released \subseteq 1..starts
  /\ timeOut \in 0..Misses
  /\ semphore \in 0..MaxSignals /\ eventSemphore \in Nat /\ mainQueue \in Nat
  /\ phase \in DOMAIN Following
  /\ currentActivity \in DOMAIN Following \cup {"none"}
  /\ queued \in [Loops -> Nat]
  /\ step \in [{"main"} \cup Loops -> Labels]

\* Is a call of startMonitoring or stopMonitoring in progress?
InCall == \/ step["main"] \notin {"none", "signal"}
          \/ step["fluency"] \in {"clear", "removeObserver", "release", "forget"}

\* If every start comes after the end of the last fluency loop, that loop's
\* own call of stopMonitoring never finds the monitor on, nothing is released
\* twice and nil is neither added nor released; between the calls the monitor
\* is on exactly if it has an observer, which is the only one in the run loop
\* and the only one not released.
ObserverKept ==
  ~early =>
    /\ ~fault
    /\ step["fluency"] \notin {"clear", "removeObserver", "release", "forget"}
    /\ ~InCall => /\ isMonitoring <=> observer # 0
                  /\ observers = {observer} \ {0}
                  /\ released = (1..starts) \ observers

\* A block of the event loop is in the main queue, or its signal is pending, in
\* exactly the states between sending it and the end of the wait, across stops
\* and restarts: the loop never takes the signal of an earlier block for the
\* one it waits for, and blocks do not pile up in the main queue.
EventsMatched ==
  mainQueue + eventSemphore = IF step["event"] \in {"slept", "log", "wait"} THEN 1 ELSE 0

\* A monitor that is stopped for good comes to rest: the fluency loop ends
\* whatever the main thread does, and the event loop, which may wait for the
\* main thread, ends if the main thread does not stall for ever and no start
\* came too early.
StopEnds ==
  <>[](~isMonitoring /\ ~fault) =>
    /\ <>[]LoopEnded("fluency")
    /\ []~early /\ []<>~busy => <>[]LoopEnded("event")

\* A main thread that stalls for ever in a handler is reported by the fluency
\* loop again and again, however many signals were pending when it stalled.
StallReported ==
  <>[](busy /\ isMonitoring /\ step["main"] = "none"
         /\ currentActivity \in {"BeforeSources", "AfterWaiting"})
    => []<>(step["fluency"] = "log")
=============================================================================
