----------------------------- MODULE SKTimerTest -----------------------------
(***************************************************************************)
(* The class methods of SKTimerTest (RunLoop/Class/SKTimerTest.m): a table *)
(* timerDict of GCD timer sources behind the semaphore semphore.  A caller *)
(* thread runs executeTask and cancelTask; the event handler of a source   *)
(* runs the action and, for a one-shot timer, cancelTask on the captured   *)
(* identifier.  Every actor moves through the statements of its method one *)
(* pc value at a time.                                                     *)
(*                                                                         *)
(* A source is kept alive by timerDict and by the local variable timer of  *)
(* a method in progress.  libdispatch delivers no event of a source that   *)
(* is cancelled or whose last reference is gone.                           *)
(***************************************************************************)
EXTENDS Integers, FiniteSets

CONSTANTS Threads,    \* the threads that call the class methods
          MainThread, \* the one that drains the main queue
          Timers,     \* the identities of timer sources, one per executeTask
          NoTimer     \* nil

ASSUME TimerAssumption ==
  /\ MainThread \in Threads
  /\ Threads \cap Timers = {}
  /\ NoTimer \notin Timers

VARIABLES
  timerDict, \* identifier -> source
  semphore,  \* value of the semaphore
  pc,        \* next statement of each actor, "idle" outside of the methods
  timerID,   \* local variable timerID / parameter taskID of each actor
  timer,     \* local variable timer of each actor
  state,     \* "none", "suspended" (created) or "resumed", for each source
  cancelled, \* sources on which dispatch_source_cancel was called
  repeats,   \* parameter repeats of the call that created the source
  queue,     \* "main" or "global": the target queue of the source
  taskIDs    \* identifiers that executeTask returned

vars == <<timerDict, semphore, pc, timerID, timer, state, cancelled, repeats,
          queue, taskIDs>>

Actors == Threads \cup Timers
NoID == -1

\* Statements between dispatch_semaphore_wait and dispatch_semaphore_signal.
Critical == {"count", "insert", "execSignal", "lookup", "remove", "cancelSignal"}
\* Statements of executeTask after the source was stored.
Stored == {"execSignal", "resume", "return"}

InDict == {timerDict[i] : i \in DOMAIN timerDict}
Referenced == InDict \cup {timer[a] : a \in Actors}

\* The main queue runs one thing at a time: a call of the main thread or a
\* handler that targets the main queue.
MainBusy ==
  \/ pc[MainThread] # "idle"
  \/ \E t \in Timers : queue[t] = "main" /\ pc[t] # "idle"

Init ==
  /\ timerDict = [i \in {} |-> NoTimer]
  /\ semphore = 1
  /\ pc = [a \in Actors |-> "idle"]
  /\ timerID = [a \in Actors |-> NoID]
  /\ timer = [a \in Actors |-> NoTimer]
  /\ state = [t \in Timers |-> "none"]
  /\ cancelled = {}
  /\ repeats = [t \in Timers |-> FALSE]
  /\ queue = [t \in Timers |-> "global"]
  /\ taskIDs = {}

Goto(a, label) == pc' = [pc EXCEPT ![a] = label]

\* Mutant: the wait times out instead of blocking.
WaitTimesOut(a, from, to) ==
  /\ pc[a] = from
  /\ semphore' = IF semphore > 0 THEN semphore - 1 ELSE semphore
  /\ Goto(a, to)

\* dispatch_semaphore_wait(semphore, DISPATCH_TIME_FOREVER)
Wait(a, from, to) ==
  /\ pc[a] = from
  /\ semphore > 0
  /\ semphore' = semphore - 1
  /\ Goto(a, to)

\* dispatch_semaphore_signal(semphore)
Signal(a, from, to) ==
  /\ pc[a] = from
  /\ semphore' = semphore + 1
  /\ Goto(a, to)
-----------------------------------------------------------------------------
(* executeTask:startAt:timeInterval:repeats:async:                         *)

\* Arguments that do not make executeTask return nil at once (which changes
\* nothing).  The action block is always present here.
Accepts(start, timeInterval, r) == ~(start < 0 \/ (timeInterval < 0 /\ r))

ExecuteTask(th, t, start, timeInterval, r, q) ==
  /\ pc[th] = "idle"
  /\ th = MainThread => ~MainBusy
  /\ state[t] = "none"
  /\ Accepts(start, timeInterval, r)
  /\ state' = [state EXCEPT ![t] = "suspended"]
  /\ repeats' = [repeats EXCEPT ![t] = r]
  /\ queue' = [queue EXCEPT ![t] = q]
  /\ timer' = [timer EXCEPT ![th] = t]
  /\ Goto(th, "execWait")
  /\ UNCHANGED <<timerDict, semphore, timerID, cancelled, taskIDs>>

ExecWait(th) ==
  /\ Wait(th, "execWait", "count")
  /\ UNCHANGED <<timerDict, timerID, timer, state, cancelled, repeats, queue, taskIDs>>

\* timerID = the number of entries of timerDict, as a string
CountID(th) ==
  /\ pc[th] = "count"
  /\ timerID' = [timerID EXCEPT ![th] = Cardinality(DOMAIN timerDict)]
  /\ Goto(th, "insert")
  /\ UNCHANGED <<timerDict, semphore, timer, state, cancelled, repeats, queue, taskIDs>>

Insert(th) ==
  /\ pc[th] = "insert"
  /\ timerDict' = [i \in DOMAIN timerDict \cup {timerID[th]} |->
                     IF i = timerID[th] THEN timer[th] ELSE timerDict[i]]
  /\ Goto(th, "execSignal")
  /\ UNCHANGED <<semphore, timerID, timer, state, cancelled, repeats, queue, taskIDs>>

ExecSignal(th) ==
  /\ Signal(th, "execSignal", "resume")
  /\ UNCHANGED <<timerDict, timerID, timer, state, cancelled, repeats, queue, taskIDs>>

\* Mutant: the block computes the identifier again, after the signal.
ResumeCountsAgain(th) ==
  /\ pc[th] = "resume"
  /\ state' = [state EXCEPT ![timer[th]] = "resumed"]
  /\ timerID' = [timerID EXCEPT ![timer[th]] = Cardinality(DOMAIN timerDict) - 1]
  /\ Goto(th, "return")
  /\ UNCHANGED <<timerDict, semphore, timer, cancelled, repeats, queue, taskIDs>>

\* dispatch_source_set_event_handler, whose block captures timerID, and
\* dispatch_resume.
Resume(th) ==
  /\ pc[th] = "resume"
  /\ state' = [state EXCEPT ![timer[th]] = "resumed"]
  /\ timerID' = [timerID EXCEPT ![timer[th]] = timerID[th]]
  /\ Goto(th, "return")
  /\ UNCHANGED <<timerDict, semphore, timer, cancelled, repeats, queue, taskIDs>>

Return(th) ==
  /\ pc[th] = "return"
  /\ timer' = [timer EXCEPT ![th] = NoTimer]
  /\ timerID' = [timerID EXCEPT ![th] = NoID]
  /\ taskIDs' = taskIDs \cup {timerID[th]}
  /\ Goto(th, "idle")
  /\ UNCHANGED <<timerDict, semphore, state, cancelled, repeats, queue>>
-----------------------------------------------------------------------------
(* cancelTask:, called by a thread or by the handler of a one-shot timer.  *)

CancelTask(th, id) ==
  /\ pc[th] = "idle"
  /\ th = MainThread => ~MainBusy
  /\ timerID' = [timerID EXCEPT ![th] = id]
  /\ Goto(th, "cancelWait")
  /\ UNCHANGED <<timerDict, semphore, timer, state, cancelled, repeats, queue, taskIDs>>

CancelWait(a) ==
  /\ Wait(a, "cancelWait", "lookup")
  /\ UNCHANGED <<timerDict, timerID, timer, state, cancelled, repeats, queue, taskIDs>>

\* Mutant: no dispatch_source_cancel.
LookupWithoutCancel(a) ==
  /\ pc[a] = "lookup"
  /\ Goto(a, "remove")
  /\ UNCHANGED <<timerDict, semphore, timerID, timer, state, cancelled, repeats, queue, taskIDs>>

\* Mutant: an unknown identifier returns at once, without the signal.
LookupReturnsEarly(a) ==
  /\ pc[a] = "lookup"
  /\ \/ /\ timerID[a] \in DOMAIN timerDict
        /\ timer' = [timer EXCEPT ![a] = timerDict[timerID[a]]]
        /\ cancelled' = cancelled \cup {timerDict[timerID[a]]}
        /\ Goto(a, "remove")
     \/ /\ timerID[a] \notin DOMAIN timerDict
        /\ Goto(a, "idle")
        /\ UNCHANGED <<timer, cancelled>>
  /\ UNCHANGED <<timerDict, semphore, timerID, state, repeats, queue, taskIDs>>

\* timer = timerDict[taskID]; if (timer) dispatch_source_cancel(timer)
Lookup(a) ==
  /\ pc[a] = "lookup"
  /\ \/ /\ timerID[a] \in DOMAIN timerDict
        /\ timer' = [timer EXCEPT ![a] = timerDict[timerID[a]]]
        /\ cancelled' = cancelled \cup {timerDict[timerID[a]]}
     \/ /\ timerID[a] \notin DOMAIN timerDict
        /\ UNCHANGED <<timer, cancelled>>
  /\ Goto(a, "remove")
  /\ UNCHANGED <<timerDict, semphore, timerID, state, repeats, queue, taskIDs>>

\* Mutant: the entry stays.
RemoveNothing(a) ==
  /\ pc[a] = "remove"
  /\ Goto(a, "cancelSignal")
  /\ UNCHANGED <<timerDict, semphore, timerID, timer, state, cancelled, repeats, queue, taskIDs>>

Remove(a) ==
  /\ pc[a] = "remove"
  /\ timerDict' = [i \in DOMAIN timerDict \ {timerID[a]} |-> timerDict[i]]
  /\ Goto(a, "cancelSignal")
  /\ UNCHANGED <<semphore, timerID, timer, state, cancelled, repeats, queue, taskIDs>>

\* The signal and the end of the method, which drops its reference.  A
\* handler keeps the identifier its block captured.
CancelSignal(a) ==
  /\ Signal(a, "cancelSignal", "idle")
  /\ timer' = [timer EXCEPT ![a] = NoTimer]
  /\ timerID' = IF a \in Threads THEN [timerID EXCEPT ![a] = NoID] ELSE timerID
  /\ UNCHANGED <<timerDict, state, cancelled, repeats, queue, taskIDs>>
-----------------------------------------------------------------------------
(* The event handler of a source.                                          *)

CanFire(t) ==
  /\ state[t] = "resumed"
  /\ t \notin cancelled
  /\ t \in Referenced

Fire(t) ==
  /\ pc[t] = "idle"
  /\ CanFire(t)
  /\ queue[t] = "main" => ~MainBusy
  /\ Goto(t, "action")
  /\ UNCHANGED <<timerDict, semphore, timerID, timer, state, cancelled, repeats, queue, taskIDs>>

\* action(); if (!repeats) [self cancelTask:timerID];
ActionDone(t) ==
  /\ pc[t] = "action"
  /\ Goto(t, IF repeats[t] THEN "idle" ELSE "cancelWait")
  /\ UNCHANGED <<timerDict, semphore, timerID, timer, state, cancelled, repeats, queue, taskIDs>>
-----------------------------------------------------------------------------
Execute(th) ==
  \/ ExecWait(th)
  \/ CountID(th)
  \/ Insert(th)
  \/ ExecSignal(th)
  \/ Resume(th)
  \/ Return(th)

CancelSteps(a) ==
  \/ CancelWait(a)
  \/ Lookup(a)
  \/ Remove(a)
  \/ CancelSignal(a)

Call(th) ==
  \/ \E t \in Timers, start, timeInterval \in {-1, 0}, r \in BOOLEAN,
        q \in {"main", "global"} :
       ExecuteTask(th, t, start, timeInterval, r, q)
  \/ \E id \in taskIDs : CancelTask(th, id)

Next ==
  \/ \E th \in Threads : Call(th) \/ Execute(th)
  \/ \E a \in Actors : CancelSteps(a)
  \/ \E t \in Timers : Fire(t) \/ ActionDone(t)

Spec == Init /\ [][Next]_vars

\* Callers may stop calling and timers need not fire; a method in progress
\* goes on, and dispatch_semaphore wakes its waiters in order.
Fairness ==
  /\ \A th \in Threads : WF_vars(Execute(th)) /\ SF_vars(ExecWait(th))
  /\ \A a \in Actors : WF_vars(CancelSteps(a)) /\ SF_vars(CancelWait(a))
  /\ \A t \in Timers : WF_vars(ActionDone(t))

FairSpec == Spec /\ Fairness
-----------------------------------------------------------------------------
Labels == Critical \cup {"idle", "execWait", "resume", "return", "cancelWait", "action"}

\* The values of the variables.
TypeOK ==
  /\ DOMAIN timerDict \subseteq Nat
  /\ timerDict \in [DOMAIN timerDict -> Timers]
  /\ semphore \in {0, 1}
  /\ pc \in [Actors -> Labels]
  /\ timerID \in [Actors -> Nat \cup {NoID}]
  /\ timer \in [Actors -> Timers \cup {NoTimer}]
  /\ state \in [Timers -> {"none", "suspended", "resumed"}]
  /\ cancelled \subseteq Timers
  /\ repeats \in [Timers -> BOOLEAN]
  /\ queue \in [Timers -> {"main", "global"}]
  /\ taskIDs \subseteq Nat

\* "Lock: every access to the dictionary must be safe" (the comment above the
\* wait in executeTask): no two actors, be they callers or handlers of one-shot
\* timers, are between wait and signal at once.
MutualExclusion ==
  \A a, b \in Actors : pc[a] \in Critical /\ pc[b] \in Critical => a = b

\* A timer that can still fire, and that no call in progress holds, is in
\* timerDict under the identifier its handler captured and its creator was
\* given: cancelTask can always stop it.
Stoppable ==
  \A t \in Timers :
    (CanFire(t) /\ \A a \in Actors : timer[a] # t)
      => timerID[t] \in DOMAIN timerDict /\ timerDict[timerID[t]] = t

\* While nobody is inside the lock, no source in timerDict was cancelled:
\* cancelTask never leaves the entry of a dead timer behind.
NoDeadEntry == semphore = 1 => InDict \cap cancelled = {}

\* The calls are atomic on the table: SKTimerTest implements TimerRegistry.
\* The entry that a cancelTask in progress has looked up counts as removed.
Removing == {timerID[a] : a \in {b \in Actors : pc[b] = "remove"}}

Registry == INSTANCE TimerRegistry WITH
  registry <- [i \in DOMAIN timerDict \ Removing |-> timerDict[i]],
  destroyed <- cancelled,
  used <- {t \in Timers : state[t] = "resumed"}
            \cup {timer[th] : th \in {x \in Threads : pc[x] \in Stored}}

RefinesRegistry == Registry!RegistrySpec

\* Every call of executeTask and cancelTask returns, those of the handlers
\* included: nobody keeps the semaphore and nobody waits for it twice.
CallsReturn ==
  \A a \in Actors : (pc[a] \in {"execWait", "cancelWait"}) ~> (pc[a] = "idle")

\* "A timer is not destroyed on its own" (the comment in the dealloc of
\* SKRunloopVC): it stops only when cancelTask looks up its identifier.
NotDestroyedOnItsOwn ==
  [][\A t \in Timers : CanFire(t) /\ ~CanFire(t)'
       => \E a \in Actors : pc[a] = "lookup" /\ timerID[a] = timerID[t]]_vars
=============================================================================
