-------------------------- MODULE SKGCDSafeAnalysis --------------------------
(***************************************************************************)
(* The locks of Thread&Lock/GCD/SKGCDSafeAnalysis.m on one shared object:  *)
(* three pairs of threads that fill and empty the array data under a       *)
(* pthread mutex with a condition variable, an NSCondition and an          *)
(* NSConditionLock; a recursive mutex; a counting semaphore; and methods   *)
(* that run doSomething under a lock of their own kind.                    *)
(*                                                                         *)
(* A method takes its lock, runs its body and releases its lock; two       *)
(* threads whose bodies overlap are both between "body" and the next step. *)
(***************************************************************************)
EXTENDS Integers, FiniteSets

CONSTANTS
  Threads,      \* the threads, each runs one method
  None,         \* no thread
  Programs,     \* the sets of methods that are called together
  Permits,      \* initial value of the semaphore (5 in the code)
  MaxRecursion, \* the bound 10 of pthread_mutex_recurecursive
  Spurious      \* may a wait on a condition end without a signal

ASSUME SafeAssumption ==
  /\ IsFiniteSet(Threads)
  /\ None \notin Threads
  /\ Permits \in Nat \ {0}
  /\ MaxRecursion \in Nat \ {0}
  /\ Spurious \in BOOLEAN

VARIABLES
  called,    \* the methods that are called in this execution
  pc,        \* program counter of each thread
  method,    \* method run by each thread
  holder,    \* thread that holds a lock
  depth,     \* how often it locked it
  condition, \* value of condationLock
  semaphore, \* value of the semaphore
  data,      \* number of elements of data
  adds,      \* elements added so far
  missed,    \* did a remove find data empty
  count      \* the static counter of pthread_mutex_recurecursive

vars == <<called, pc, method, holder, depth, condition, semaphore, data, adds, missed, count>>

Adders == {"__addObject", "__condationAdd", "__condationLockAdd"}
Removers == {"__removeObject", "__condationRemove", "__condationLockRemove"}
\* The methods a thread calls directly.
Direct == {"pthread_mutex_recurecursive", "osspinlock", "os_unfair_lock",
           "pthread_mutex", "nslockMethod", "synchronizedMethod"}
Waits == {"__removeObject", "__condationRemove"}
Signals == {"__addObject", "__condationAdd"}
\* The lock each method takes; a lock in a local variable is the thread's own.
Lock(m, t) ==
  CASE m \in {"__addObject", "__removeObject", "pthread_mutex_recurecursive"} -> "pthreadLock"
    [] m \in {"__condationAdd", "__condationRemove"} -> "condation"
    [] m \in {"__condationLockAdd", "__condationLockRemove"} -> "condationLock"
    [] m = "osspinlock" -> "osspinklock"
    [] m = "nslockMethod" -> "lock"
    [] m = "synchronizedMethod" -> "self"
    [] OTHER -> t

Locks == {"pthreadLock", "condation", "condationLock", "osspinklock", "lock", "self"} \cup Threads
\* PTHREAD_MUTEX_RECURSIVE, set by pthread_attr_init, and @synchronized
Recursive(l) == l \in {"pthreadLock", "self"}
MyLock(t) == Lock(method[t], t)

Init ==
  /\ called \in Programs
  /\ pc = [t \in Threads |-> "new"]
  /\ method = [t \in Threads |-> "none"]
  /\ holder = [l \in Locks |-> None]
  /\ depth = [l \in Locks |-> 0]
  /\ condition = 1
  /\ semaphore = Permits
  /\ data = 0
  /\ adds = 0
  /\ missed = FALSE
  /\ count = 0

Goto(t, p) == pc' = [pc EXCEPT ![t] = p]
-----------------------------------------------------------------------------
(* Starting threads.                                                       *)

\* pthread_condation, nscondationMethod and nscondationLockMethod start a
\* thread that removes and a thread that adds.
StartPair(t, u) ==
  /\ t # u /\ pc[t] = "new" /\ pc[u] = "new"
  /\ \E pair \in {<<"__removeObject", "__addObject">>,
                  <<"__condationRemove", "__condationAdd">>,
                  <<"__condationLockRemove", "__condationLockAdd">>} :
       /\ pair[1] \in called
       /\ method' = [method EXCEPT ![t] = pair[1], ![u] = pair[2]]
  /\ pc' = [pc EXCEPT ![t] = "lock", ![u] = "lock"]
  /\ UNCHANGED <<called, holder, depth, condition, semaphore, data, adds, missed, count>>

\* dispatch_semaphoreMethod starts a number of threads (20 in the code).
Dispatch_semaphoreMethod ==
  /\ "dispatch_semaphoreTestMethod" \in called
  /\ \A t \in Threads : pc[t] = "new"
  /\ method' = [t \in Threads |-> "dispatch_semaphoreTestMethod"]
  /\ pc' = [t \in Threads |-> "semwait"]
  /\ UNCHANGED <<called, holder, depth, condition, semaphore, data, adds, missed, count>>

Call(t, m) ==
  /\ m \in called \cap Direct
  /\ pc[t] = "new"
  /\ method' = [method EXCEPT ![t] = m]
  /\ Goto(t, "lock")
  /\ UNCHANGED <<called, holder, depth, condition, semaphore, data, adds, missed, count>>
-----------------------------------------------------------------------------
(* Locks, conditions and the semaphore.                                    *)

\* May t lock its lock now?
Free(t) ==
  \/ holder[MyLock(t)] = None
  \/ holder[MyLock(t)] = t /\ Recursive(MyLock(t))

\* Mutant: the remover does not wait for its condition.
ConditionMetAddOnly(t) == method[t] = "__condationLockAdd" => condition = 1

\* lockWhenCondition: waits for the value of condationLock.
ConditionMet(t) ==
  /\ method[t] = "__condationLockAdd" => condition = 1
  /\ method[t] = "__condationLockRemove" => condition = 2

Acquire(t) ==
  /\ holder' = [holder EXCEPT ![MyLock(t)] = t]
  /\ depth' = [depth EXCEPT ![MyLock(t)] = @ + 1]

DoLock(t) ==
  /\ pc[t] = "lock"
  /\ Free(t) /\ ConditionMet(t)
  /\ Acquire(t)
  /\ Goto(t, IF method[t] \in Waits THEN "test" ELSE "body")
  /\ UNCHANGED <<called, method, condition, semaphore, data, adds, missed, count>>

\* if (self.data.count == 0) wait, which releases the lock
Test(t) ==
  /\ pc[t] = "test"
  /\ \/ /\ data = 0
        /\ holder' = [holder EXCEPT ![MyLock(t)] = None]
        /\ depth' = [depth EXCEPT ![MyLock(t)] = 0]
        /\ Goto(t, "waiting")
     \/ /\ data > 0
        /\ Goto(t, "body")
        /\ UNCHANGED <<holder, depth>>
  /\ UNCHANGED <<called, method, condition, semaphore, data, adds, missed, count>>

SpuriousWakeup(t) ==
  /\ Spurious
  /\ pc[t] = "waiting"
  /\ Goto(t, "relock")
  /\ UNCHANGED <<called, method, holder, depth, condition, semaphore, data, adds, missed, count>>

\* Mutant: wait returns without the lock.
RelockNoLock(t) ==
  /\ pc[t] = "relock"
  /\ Goto(t, "body")
  /\ UNCHANGED <<called, method, holder, depth, condition, semaphore, data, adds, missed, count>>

\* wait takes the lock again before it returns.
Relock(t) ==
  /\ pc[t] = "relock"
  /\ Free(t)
  /\ Acquire(t)
  /\ Goto(t, "body")
  /\ UNCHANGED <<called, method, condition, semaphore, data, adds, missed, count>>

\* Mutant: the signal is left out.
SignalLost(t) ==
  /\ pc[t] = "signal"
  /\ Goto(t, "unlock")
  /\ UNCHANGED <<called, method, holder, depth, condition, semaphore, data, adds, missed, count>>

\* signal wakes one thread that waits on the condition, if there is one.
Signal(t) ==
  /\ pc[t] = "signal"
  /\ LET W == {u \in Threads : pc[u] = "waiting" /\ MyLock(u) = MyLock(t)} IN
       \/ W = {} /\ Goto(t, "unlock")
       \/ \E u \in W : pc' = [pc EXCEPT ![t] = "unlock", ![u] = "relock"]
  /\ UNCHANGED <<called, method, holder, depth, condition, semaphore, data, adds, missed, count>>

\* Mutant: the recursive method unlocks once, however often it locked.
UnlockOnce(t) ==
  /\ pc[t] = "unlock"
  /\ depth' = [depth EXCEPT ![MyLock(t)] = @ - 1]
  /\ holder' = [holder EXCEPT ![MyLock(t)] = IF depth[MyLock(t)] = 1 THEN None ELSE @]
  /\ Goto(t, "done")
  /\ condition' = IF method[t] = "__condationLockAdd" THEN 2 ELSE condition
  /\ UNCHANGED <<called, method, semaphore, data, adds, missed, count>>

\* The lock is given away by the last unlock; unlockWithCondition:2 is the
\* adder's, the remover's unlock leaves the condition alone.
Unlock(t) ==
  /\ pc[t] = "unlock"
  /\ depth' = [depth EXCEPT ![MyLock(t)] = @ - 1]
  /\ \/ /\ depth[MyLock(t)] = 1
        /\ holder' = [holder EXCEPT ![MyLock(t)] = None]
        /\ Goto(t, "done")
     \/ /\ depth[MyLock(t)] > 1
        /\ UNCHANGED <<holder, pc>>
  /\ condition' = IF method[t] = "__condationLockAdd" THEN 2 ELSE condition
  /\ UNCHANGED <<called, method, semaphore, data, adds, missed, count>>

SemWait(t) ==
  /\ pc[t] = "semwait"
  /\ semaphore > 0
  /\ semaphore' = semaphore - 1
  /\ Goto(t, "sembody")
  /\ UNCHANGED <<called, method, holder, depth, condition, data, adds, missed, count>>

SemSignal(t) ==
  /\ pc[t] = "sembody"
  /\ semaphore' = semaphore + 1
  /\ Goto(t, "done")
  /\ UNCHANGED <<called, method, holder, depth, condition, data, adds, missed, count>>
-----------------------------------------------------------------------------
(* The bodies.                                                             *)

AddObject(t) ==
  /\ pc[t] = "body" /\ method[t] \in Adders
  /\ data' = data + 1
  /\ adds' = adds + 1
  /\ Goto(t, IF method[t] \in Signals THEN "signal" ELSE "unlock")
  /\ UNCHANGED <<called, method, holder, depth, condition, semaphore, missed, count>>

\* removeLastObject, which has no element to remove when data is empty
RemoveLastObject(t) ==
  /\ pc[t] = "body" /\ method[t] \in Removers
  /\ data' = IF data > 0 THEN data - 1 ELSE 0
  /\ missed' = (missed \/ data = 0)
  /\ Goto(t, "unlock")
  /\ UNCHANGED <<called, method, holder, depth, condition, semaphore, adds, count>>

\* Mutant: the bound is inclusive.
RecurseInclusive(t) ==
  /\ pc[t] = "body" /\ method[t] = "pthread_mutex_recurecursive"
  /\ count' = count + 1
  /\ Goto(t, IF count + 1 <= MaxRecursion THEN "lock" ELSE "unlock")
  /\ UNCHANGED <<called, method, holder, depth, condition, semaphore, data, adds, missed>>

\* count++; if (count < 10) recurse, then one unlock for every level
Recurse(t) ==
  /\ pc[t] = "body" /\ method[t] = "pthread_mutex_recurecursive"
  /\ count' = count + 1
  /\ Goto(t, IF count + 1 < MaxRecursion THEN "lock" ELSE "unlock")
  /\ UNCHANGED <<called, method, holder, depth, condition, semaphore, data, adds, missed>>

DoSomething(t) ==
  /\ pc[t] = "body" /\ method[t] \in Direct \ {"pthread_mutex_recurecursive"}
  /\ Goto(t, "unlock")
  /\ UNCHANGED <<called, method, holder, depth, condition, semaphore, data, adds, missed, count>>
-----------------------------------------------------------------------------
Progress(t) ==
  \/ DoLock(t) \/ Test(t) \/ Relock(t) \/ Signal(t) \/ Unlock(t)
  \/ SemWait(t) \/ SemSignal(t)
  \/ AddObject(t) \/ RemoveLastObject(t) \/ Recurse(t) \/ DoSomething(t)

Next ==
  \/ \E t, u \in Threads : StartPair(t, u)
  \/ Dispatch_semaphoreMethod
  \/ \E t \in Threads : SpuriousWakeup(t) \/ Progress(t) \/ \E m \in called : Call(t, m)

Spec == Init /\ [][Next]_vars

\* Every thread runs while it can, and a lock or semaphore that is free again
\* and again is given to each thread that waits for it.
FairSpec == Spec /\ \A t \in Threads : SF_vars(Progress(t))
-----------------------------------------------------------------------------
PCs == {"new", "lock", "test", "waiting", "relock", "body", "signal", "unlock",
        "semwait", "sembody", "done"}

\* The values of the variables.
TypeOK ==
  /\ called \in Programs
  /\ pc \in [Threads -> PCs]
  /\ method \in [Threads -> Adders \cup Removers \cup Direct
                            \cup {"none", "dispatch_semaphoreTestMethod"}]
  /\ holder \in [Locks -> Threads \cup {None}]
  /\ depth \in [Locks -> Nat]
  /\ condition \in {1, 2}
  /\ semaphore \in Nat /\ data \in Nat /\ adds \in Nat /\ count \in Nat
  /\ missed \in BOOLEAN

\* Between taking and releasing the same lock there is one thread at a time: a
\* waiter that was signalled only goes on once the adder released the lock, and
\* a recursive holder keeps the lock until its last unlock.
Exclusive ==
  \A t, u \in Threads :
    (/\ pc[t] \in {"test", "body", "signal", "unlock"}
     /\ pc[u] \in {"test", "body", "signal", "unlock"}
     /\ MyLock(t) = MyLock(u)) => t = u

\* dispatch_semaphoreMethod "limits the number of concurrent threads": at most
\* Permits threads are between wait and signal, and no permit is lost.
AtMostPermits ==
  Cardinality({t \in Threads : pc[t] = "sembody"}) + semaphore = Permits

\* pthread_mutex_recurecursive holds the recursive mutex at most MaxRecursion
\* times, however many threads share the static counter.
RecursionBounded == depth["pthreadLock"] <= MaxRecursion

\* nscondationLockMethod: no element is removed before one was added, although
\* the removing thread is started first; and since the remover's plain unlock
\* leaves condationLock at 2, of any number of threads only one ever adds.
CondationLockOrder ==
  LET Through(m) == {t \in Threads : method[t] = m /\ pc[t] \in {"body", "unlock", "done"}} IN
  /\ Through("__condationLockRemove") # {} => adds > 0
  /\ Cardinality(Through("__condationLockAdd")) <= 1

\* Every thread that was started finishes: no wakeup is lost, no mutex is left
\* locked, no thread locks itself out.  (An adder on condationLock may not, see
\* CondationLockOrder.)
AllFinish ==
  \A t \in Threads :
    (pc[t] # "new" /\ method[t] # "__condationLockAdd") ~> (pc[t] = "done")

\* May t take a step of its method now?  The guards of Progress.
CanStep(t) ==
  \/ pc[t] = "lock" /\ Free(t) /\ ConditionMet(t)
  \/ pc[t] = "relock" /\ Free(t)
  \/ pc[t] = "body" /\ method[t] \in Adders \cup Removers \cup Direct
  \/ pc[t] = "unlock" /\ depth[MyLock(t)] > 0
  \/ pc[t] = "semwait" /\ semaphore > 0
  \/ pc[t] \in {"test", "signal", "sembody"}

\* Nobody waits for somebody who waits: as long as data is used under one lock,
\* a thread that is not done, an adder on condationLock excepted, can go on, or
\* another thread can that uses the same lock or holds a permit.
Helped ==
  (\A m, n \in called \cap Removers : m = n) =>
    \A t \in Threads : pc[t] \notin {"new", "done"} /\ method[t] # "__condationLockAdd" =>
      \E u \in Threads :
        CanStep(u) /\ (MyLock(u) = MyLock(t) \/ (pc[t] = "semwait" /\ pc[u] = "sembody"))

\* "Removed an element" (log line of __removeObject and __condationRemove): a
\* thread that waited for an element finds one.
RemoveFindsElement == ~missed
=============================================================================
