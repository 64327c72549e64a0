--------------------------- MODULE SKGCDSafeProofs ---------------------------
(***************************************************************************)
(* Proofs about SKGCDSafeAnalysis, for any threads, any methods, any       *)
(* number of permits and any recursion bound, spurious wakeups included.   *)
(***************************************************************************)
EXTENDS SKGCDSafeAnalysis, TLAPS

\* A leaf that names no prover is tried with SMT, with Zenon, and at length with
\* SMT again.
USE SMT, Zenon, SMTT(30)

\* The threads that hold their lock.
Inside == {"test", "body", "signal", "unlock"}

\* A thread inside holds its lock.
HoldInv == \A t \in Threads : pc[t] \in Inside => holder[MyLock(t)] = t

LockInv == TypeOK /\ HoldInv

\* The locks of the methods of two threads are compared by name only.
LEMMA LockType ==
  ASSUME TypeOK, NEW t \in Threads
  PROVE MyLock(t) \in Locks
BY DEF TypeOK, MyLock, Lock, Locks

\* Every thread keeps to its type: Init and each action preserve TypeOK.
LEMMA TypeStep == TypeOK /\ [Next]_vars => TypeOK'
<1> SUFFICES ASSUME TypeOK, [Next]_vars PROVE TypeOK'
  OBVIOUS
<1>1. ASSUME NEW t \in Threads, NEW u \in Threads, StartPair(t, u) PROVE TypeOK'
  BY <1>1 DEF StartPair, TypeOK, PCs, Adders, Removers
<1>2. CASE Dispatch_semaphoreMethod
  BY <1>2 DEF Dispatch_semaphoreMethod, TypeOK, PCs
<1>3. ASSUME NEW t \in Threads, NEW m \in called, Call(t, m) PROVE TypeOK'
  BY <1>3 DEF Call, Goto, TypeOK, PCs
<1>4. ASSUME NEW t \in Threads, SpuriousWakeup(t) PROVE TypeOK'
  BY <1>4 DEF SpuriousWakeup, Goto, TypeOK, PCs
<1>5. ASSUME NEW t \in Threads, Progress(t) PROVE TypeOK'
  <2> MyLock(t) \in Locks
    BY LockType
  <2>1. CASE DoLock(t)
    BY <2>1 DEF DoLock, Acquire, Goto, TypeOK, PCs
  <2>2. CASE Test(t)
    BY <2>2, SafeAssumption DEF Test, Goto, TypeOK, PCs
  <2>3. CASE Relock(t)
    BY <2>3 DEF Relock, Acquire, Goto, TypeOK, PCs
  <2>4. CASE Signal(t)
    BY <2>4 DEF Signal, Goto, TypeOK, PCs
  <2>5. CASE Unlock(t)
    BY <2>5 DEF Unlock, Goto, TypeOK, PCs
  <2>6. CASE SemWait(t)
    BY <2>6 DEF SemWait, Goto, TypeOK, PCs
  <2>7. CASE SemSignal(t)
    BY <2>7 DEF SemSignal, Goto, TypeOK, PCs
  <2>8. CASE AddObject(t)
    BY <2>8 DEF AddObject, Goto, TypeOK, PCs
  <2>9. CASE RemoveLastObject(t)
    <3>1. missed' \in BOOLEAN
      BY <2>9, Zenon DEF RemoveLastObject
    <3> QED
      BY <2>9, <3>1 DEF RemoveLastObject, Goto, TypeOK, PCs
  <2>10. CASE Recurse(t)
    BY <2>10, SafeAssumption DEF Recurse, Goto, TypeOK, PCs
  <2>11. CASE DoSomething(t)
    BY <2>11 DEF DoSomething, Goto, TypeOK, PCs
  <2> QED
    BY <1>5, <2>1, <2>2, <2>3, <2>4, <2>5, <2>6, <2>7, <2>8, <2>9, <2>10, <2>11 DEF Progress
<1>6. CASE UNCHANGED vars
  BY <1>6 DEF vars, TypeOK
<1> QED
  BY <1>1, <1>2, <1>3, <1>4, <1>5, <1>6 DEF Next

\* The initial state has the types.
LEMMA TypeInit == Init => TypeOK
<1> SUFFICES ASSUME Init PROVE TypeOK
  OBVIOUS
<1>1. missed \in BOOLEAN
  BY Zenon DEF Init
<1> QED
  BY <1>1, SafeAssumption DEF Init, TypeOK, PCs

\* The variables of the locks and the condition variables keep their types in
\* every execution.
THEOREM SafeTyped == Spec => []TypeOK
<1>1. Init => TypeOK
  BY TypeInit
<1>2. TypeOK /\ [Next]_vars => TypeOK'
  BY TypeStep
<1> QED
  BY <1>1, <1>2, PTL DEF Spec
-----------------------------------------------------------------------------
\* HoldInv is preserved by every step: only the holder gives its lock away, and
\* nobody takes a lock that another thread holds.
LEMMA HoldStep == LockInv /\ [Next]_vars => HoldInv'
<1> SUFFICES ASSUME LockInv, [Next]_vars,
                    NEW u \in Threads, pc'[u] \in Inside
             PROVE holder'[MyLock(u)'] = u
  BY DEF HoldInv
<1> USE DEF LockInv
<1>0. TypeOK' /\ MyLock(u) \in Locks
  BY TypeStep, LockType
<1>1. ASSUME NEW t \in Threads, NEW v \in Threads, StartPair(t, v) PROVE holder'[MyLock(u)'] = u
  BY <1>1 DEF StartPair, TypeOK, HoldInv, Inside, MyLock
<1>2. CASE Dispatch_semaphoreMethod
  BY <1>2 DEF Dispatch_semaphoreMethod, TypeOK, Inside
<1>3. ASSUME NEW t \in Threads, NEW m \in called, Call(t, m) PROVE holder'[MyLock(u)'] = u
  BY <1>3 DEF Call, Goto, TypeOK, HoldInv, Inside, MyLock
<1>4. ASSUME NEW t \in Threads, SpuriousWakeup(t) PROVE holder'[MyLock(u)'] = u
  BY <1>4 DEF SpuriousWakeup, Goto, TypeOK, HoldInv, Inside, MyLock
<1>5. ASSUME NEW t \in Threads, Progress(t) PROVE holder'[MyLock(u)'] = u
  <2>0. MyLock(t) \in Locks
    BY LockType
  <2>a. method' = method /\ MyLock(u)' = MyLock(u)
    BY <1>5 DEF Progress, DoLock, Test, Relock, Signal, Unlock, SemWait, SemSignal,
                AddObject, RemoveLastObject, Recurse, DoSomething, MyLock
  <2>1. CASE DoLock(t)
    BY <2>0, <2>a, <1>0, <2>1, SafeAssumption DEF DoLock, Acquire, Free, Goto, TypeOK, HoldInv, Inside
  <2>2. CASE Test(t)
    BY <2>0, <2>a, <1>0, <2>2 DEF Test, Goto, TypeOK, HoldInv, Inside
  <2>3. CASE Relock(t)
    BY <2>0, <2>a, <1>0, <2>3, SafeAssumption DEF Relock, Acquire, Free, Goto, TypeOK, HoldInv, Inside
  <2>4. CASE Signal(t)
    BY <2>0, <2>a, <1>0, <2>4 DEF Signal, Goto, TypeOK, HoldInv, Inside
  <2>5. CASE Unlock(t)
    BY <2>0, <2>a, <1>0, <2>5 DEF Unlock, Goto, TypeOK, HoldInv, Inside
  <2>6. CASE SemWait(t) \/ SemSignal(t)
    BY <2>0, <2>a, <1>0, <2>6 DEF SemWait, SemSignal, Goto, TypeOK, HoldInv, Inside
  <2>7. CASE AddObject(t) \/ RemoveLastObject(t)
    BY <2>0, <2>a, <1>0, <2>7 DEF AddObject, RemoveLastObject, Goto, TypeOK, HoldInv, Inside
  <2>8. CASE Recurse(t) \/ DoSomething(t)
    BY <2>0, <2>a, <1>0, <2>8 DEF Recurse, DoSomething, Goto, TypeOK, HoldInv, Inside
  <2> QED
    BY <1>5, <2>1, <2>2, <2>3, <2>4, <2>5, <2>6, <2>7, <2>8 DEF Progress
<1>6. CASE UNCHANGED vars
  BY <1>6 DEF vars, HoldInv, MyLock
<1> QED
  BY <1>1, <1>2, <1>3, <1>4, <1>5, <1>6 DEF Next

\* At most one thread is between taking and releasing a lock, whatever the
\* methods, the number of threads and the wakeups.
THEOREM LocksExclude == Spec => []Exclusive
<1>1. Init => LockInv
  BY TypeInit DEF Init, LockInv, HoldInv, Inside
<1>2. LockInv /\ [Next]_vars => LockInv'
  BY TypeStep, HoldStep DEF LockInv
<1>3. LockInv => Exclusive
  BY DEF LockInv, HoldInv, Exclusive, Inside
<1> QED
  BY <1>1, <1>2, <1>3, PTL DEF Spec
-----------------------------------------------------------------------------
\* The recursive mutex: who holds it is about to lock it again or inside, and
\* count is ahead of the depth as long as there is another level to come.
DepthInv ==
  /\ holder["pthreadLock"] = None => depth["pthreadLock"] = 0
  /\ depth["pthreadLock"] <= MaxRecursion
  /\ \A t \in Threads : holder["pthreadLock"] = t =>
       /\ MyLock(t) = "pthreadLock"
       /\ pc[t] \in Inside \cup {"lock"}
       /\ pc[t] = "lock" =>
            /\ method[t] = "pthread_mutex_recurecursive"
            /\ depth["pthreadLock"] <= count
            /\ count < MaxRecursion
       /\ (pc[t] = "body" /\ method[t] = "pthread_mutex_recurecursive") =>
            /\ depth["pthreadLock"] <= count + 1
            /\ depth["pthreadLock"] = 1 \/ count < MaxRecursion

\* Only the methods that wait test data first.
TestInv == \A t \in Threads : pc[t] = "test" => method[t] \in Waits

RecursionInv == LockInv /\ DepthInv /\ TestInv

\* Every step keeps TestInv.
LEMMA TestStep == TypeOK /\ TestInv /\ [Next]_vars => TestInv'
<1> SUFFICES ASSUME TypeOK, TestInv, [Next]_vars, NEW u \in Threads, pc'[u] = "test"
             PROVE method'[u] \in Waits
  BY DEF TestInv
<1> USE DEF TypeOK, TestInv, Goto
<1>1. ASSUME NEW t \in Threads, NEW v \in Threads, StartPair(t, v) PROVE method'[u] \in Waits
  BY <1>1 DEF StartPair
<1>2. CASE Dispatch_semaphoreMethod
  BY <1>2 DEF Dispatch_semaphoreMethod
<1>3. ASSUME NEW t \in Threads, NEW m \in called, Call(t, m) PROVE method'[u] \in Waits
  BY <1>3 DEF Call
<1>4. ASSUME NEW t \in Threads, SpuriousWakeup(t) PROVE method'[u] \in Waits
  BY <1>4 DEF SpuriousWakeup
<1>5. ASSUME NEW t \in Threads, Progress(t) PROVE method'[u] \in Waits
  BY <1>5 DEF Progress, DoLock, Test, Relock, Signal, Unlock, SemWait, SemSignal,
              AddObject, RemoveLastObject, Recurse, DoSomething
<1>6. CASE UNCHANGED vars
  BY <1>6 DEF vars
<1> QED
  BY <1>1, <1>2, <1>3, <1>4, <1>5, <1>6 DEF Next

\* A step that leaves the recursive mutex, count and its holder's place alone
\* keeps DepthInv.
LEMMA DepthFrame ==
  ASSUME RecursionInv, TypeOK',
         holder'["pthreadLock"] = holder["pthreadLock"],
         depth'["pthreadLock"] = depth["pthreadLock"],
         count' = count,
         \A u \in Threads : holder["pthreadLock"] = u =>
            /\ method'[u] = method[u]
            /\ pc'[u] = pc[u] \/ pc'[u] \in {"test", "signal", "unlock"}
                             \/ (pc'[u] = "body" /\ method[u] # "pthread_mutex_recurecursive")
  PROVE DepthInv'
BY DEF RecursionInv, LockInv, DepthInv, TypeOK, MyLock, Inside

\* Every step keeps DepthInv.
LEMMA DepthStep == RecursionInv /\ [Next]_vars => DepthInv'
<1> SUFFICES ASSUME RecursionInv, [Next]_vars PROVE DepthInv'
  OBVIOUS
<1> "pthreadLock" \in Locks
  BY DEF Locks
<1>0. TypeOK /\ TypeOK' /\ HoldInv
  BY TypeStep DEF RecursionInv, LockInv
<1>1. ASSUME NEW t \in Threads, NEW v \in Threads, StartPair(t, v) PROVE DepthInv'
  BY <1>0, <1>1, DepthFrame DEF StartPair, TypeOK, RecursionInv, DepthInv, Inside
<1>2. CASE Dispatch_semaphoreMethod
  BY <1>0, <1>2, DepthFrame DEF Dispatch_semaphoreMethod, TypeOK, RecursionInv, DepthInv, Inside
<1>3. ASSUME NEW t \in Threads, NEW m \in called, Call(t, m) PROVE DepthInv'
  BY <1>0, <1>3, DepthFrame DEF Call, Goto, TypeOK, RecursionInv, DepthInv, Inside
<1>4. ASSUME NEW t \in Threads, SpuriousWakeup(t) PROVE DepthInv'
  BY <1>0, <1>4, DepthFrame DEF SpuriousWakeup, Goto, TypeOK, RecursionInv, DepthInv, Inside
<1>5. ASSUME NEW t \in Threads, Progress(t) PROVE DepthInv'
  <2>0. MyLock(t) \in Locks
    BY <1>0, LockType
  <2>a. method' = method /\ \A u \in Threads : MyLock(u)' = MyLock(u)
    BY <1>5 DEF Progress, DoLock, Test, Relock, Signal, Unlock, SemWait, SemSignal,
                AddObject, RemoveLastObject, Recurse, DoSomething, MyLock
  <2>b. DepthInv
    BY DEF RecursionInv
  <2>1. CASE DoLock(t)
    <3>1. CASE MyLock(t) = "pthreadLock"
      BY <1>0, <2>0, <2>a, <2>b, <2>1, <3>1, SafeAssumption
         DEF DoLock, Acquire, Free, Goto, TypeOK, DepthInv, Inside, Waits
    <3>2. CASE MyLock(t) # "pthreadLock"
      BY <1>0, <2>0, <2>a, <2>b, <2>1, <3>2, DepthFrame
         DEF DoLock, Acquire, Goto, TypeOK, DepthInv
    <3> QED BY <3>1, <3>2
  <2>2. CASE Test(t)
    <3>1. method[t] # "pthread_mutex_recurecursive"
      BY <2>2 DEF Test, RecursionInv, TestInv, Waits
    <3>2. CASE MyLock(t) = "pthreadLock" /\ data = 0
      BY <1>0, <2>0, <2>a, <2>b, <2>2, <3>2, SafeAssumption DEF Test, Goto, TypeOK, DepthInv
    <3>3. CASE MyLock(t) # "pthreadLock" /\ data = 0
      BY <1>0, <2>0, <2>a, <2>b, <2>2, <3>3, DepthFrame DEF Test, Goto, TypeOK, DepthInv
    <3>4. CASE data > 0
      BY <1>0, <2>0, <2>a, <2>b, <2>2, <3>1, <3>4, DepthFrame DEF Test, Goto, TypeOK
    <3> QED BY <1>0, <3>2, <3>3, <3>4 DEF TypeOK
  <2>3. CASE Relock(t)
    <3>1. CASE MyLock(t) = "pthreadLock"
      BY <1>0, <2>0, <2>a, <2>b, <2>3, <3>1, SafeAssumption
         DEF Relock, Acquire, Free, Goto, TypeOK, DepthInv, Inside
    <3>2. CASE MyLock(t) # "pthreadLock"
      BY <1>0, <2>0, <2>a, <2>b, <2>3, <3>2, DepthFrame
         DEF Relock, Acquire, Goto, TypeOK, DepthInv
    <3> QED BY <3>1, <3>2
  <2>4. CASE Signal(t)
    BY <1>0, <2>a, <2>b, <2>4, DepthFrame DEF Signal, Goto, TypeOK, DepthInv, Inside
  <2>5. CASE Unlock(t)
    <3>1. CASE MyLock(t) = "pthreadLock"
      BY <1>0, <2>0, <2>a, <2>b, <2>5, <3>1, SafeAssumption
         DEF Unlock, Goto, TypeOK, DepthInv, HoldInv, Inside
    <3>2. CASE MyLock(t) # "pthreadLock"
      BY <1>0, <2>0, <2>a, <2>b, <2>5, <3>2, DepthFrame DEF Unlock, Goto, TypeOK, DepthInv
    <3> QED BY <3>1, <3>2
  <2>6. CASE SemWait(t) \/ SemSignal(t)
    BY <1>0, <2>a, <2>b, <2>6, DepthFrame DEF SemWait, SemSignal, Goto, TypeOK, DepthInv, Inside
  <2>7. CASE AddObject(t) \/ RemoveLastObject(t)
    BY <1>0, <2>a, <2>b, <2>7, DepthFrame DEF AddObject, RemoveLastObject, Goto, TypeOK
  <2>8. CASE DoSomething(t)
    BY <1>0, <2>a, <2>b, <2>8, DepthFrame DEF DoSomething, Goto, TypeOK
  <2>9. CASE Recurse(t)
    <3>1. MyLock(t) = "pthreadLock" /\ holder["pthreadLock"] = t
      BY <1>0, <2>9 DEF Recurse, HoldInv, Inside, MyLock, Lock
    <3> QED
      BY <1>0, <2>a, <2>b, <2>9, <3>1, SafeAssumption DEF Recurse, Goto, TypeOK, DepthInv, Inside
  <2> QED
    BY <1>5, <2>1, <2>2, <2>3, <2>4, <2>5, <2>6, <2>7, <2>8, <2>9 DEF Progress
<1>6. CASE UNCHANGED vars
  BY <1>0, <1>6, DepthFrame DEF vars, TypeOK
<1> QED
  BY <1>1, <1>2, <1>3, <1>4, <1>5, <1>6 DEF Next

\* The recursive mutex is never held more than MaxRecursion times, however many
\* threads call pthread_mutex_recurecursive and share its static counter.
THEOREM RecursionIsBounded == Spec => []RecursionBounded
<1>1. Init => RecursionInv
  BY TypeInit, SafeAssumption DEF Init, RecursionInv, LockInv, HoldInv, DepthInv, TestInv, Inside, Locks
<1>2. RecursionInv /\ [Next]_vars => RecursionInv'
  BY TypeStep, HoldStep, DepthStep, TestStep DEF RecursionInv, LockInv
<1>3. RecursionInv => RecursionBounded
  BY DEF RecursionInv, DepthInv, RecursionBounded
<1> QED
  BY <1>1, <1>2, <1>3, PTL DEF Spec

-----------------------------------------------------------------------------
\* Where a thread can be tells which kind of method it runs, and an adder that
\* has left its body has added an element.
PlaceInv ==
  \A t \in Threads :
    /\ pc[t] \in {"test", "waiting", "relock"} => method[t] \in Waits
    /\ pc[t] = "signal" => method[t] \in Signals
    /\ pc[t] \in {"semwait", "sembody"} => method[t] = "dispatch_semaphoreTestMethod"
    /\ pc[t] \in {"signal", "unlock", "done"} /\ method[t] \in Adders => adds > 0

Through == {"body", "unlock", "done"}

\* The condition lock: it is at 2 only after an add, and while it is at 1 no
\* adder has finished, so that an adder that got through is the holder.
CondationInv ==
  /\ condition = 2 => adds > 0
  /\ \A t \in Threads :
       /\ method[t] = "__condationLockRemove" /\ pc[t] \in Through => adds > 0
       /\ method[t] = "__condationLockAdd" /\ pc[t] = "done" => condition = 2
  /\ \A t, u \in Threads :
       (/\ method[t] = "__condationLockAdd" /\ pc[t] \in Through
        /\ method[u] = "__condationLockAdd" /\ pc[u] \in Through) => t = u

OrderInv == LockInv /\ PlaceInv /\ CondationInv

\* Every step keeps PlaceInv.
LEMMA PlaceStep == TypeOK /\ PlaceInv /\ [Next]_vars => PlaceInv'
<1> SUFFICES ASSUME TypeOK, PlaceInv, [Next]_vars PROVE PlaceInv'
  OBVIOUS
<1> USE DEF TypeOK, PlaceInv, Goto
<1>1. ASSUME NEW t \in Threads, NEW v \in Threads, StartPair(t, v) PROVE PlaceInv'
  BY <1>1 DEF StartPair
<1>2. CASE Dispatch_semaphoreMethod
  BY <1>2 DEF Dispatch_semaphoreMethod
<1>3. ASSUME NEW t \in Threads, NEW m \in called, Call(t, m) PROVE PlaceInv'
  BY <1>3 DEF Call
<1>4. ASSUME NEW t \in Threads, SpuriousWakeup(t) PROVE PlaceInv'
  BY <1>4 DEF SpuriousWakeup
<1>5. ASSUME NEW t \in Threads, Progress(t) PROVE PlaceInv'
  <2>1. CASE DoLock(t) \/ Test(t) \/ Relock(t)
    BY <2>1 DEF DoLock, Test, Relock, Waits, Adders
  <2>2. CASE Signal(t)
    BY <2>2 DEF Signal
  <2>3. CASE Unlock(t) \/ SemWait(t) \/ SemSignal(t)
    BY <2>3 DEF Unlock, SemWait, SemSignal, Adders
  <2>4. CASE AddObject(t)
    BY <2>4 DEF AddObject
  <2>5. CASE RemoveLastObject(t) \/ Recurse(t) \/ DoSomething(t)
    BY <2>5 DEF RemoveLastObject, Recurse, DoSomething, Adders, Removers, Direct
  <2> QED
    BY <1>5, <2>1, <2>2, <2>3, <2>4, <2>5, Zenon DEF Progress
<1>6. CASE UNCHANGED vars
  BY <1>6 DEF vars
<1> QED
  BY <1>1, <1>2, <1>3, <1>4, <1>5, <1>6 DEF Next

\* A thread that takes condationLock to add finds the lock free and at 1: no other
\* adder is inside, or has been.
LEMMA CondationLocked ==
  ASSUME OrderInv, NEW t \in Threads, DoLock(t) PROVE CondationInv'
<1> USE DEF OrderInv, LockInv
<1>1. method' = method /\ adds' = adds /\ condition' = condition
      /\ \A u \in Threads : u # t => pc'[u] = pc[u]
  BY DEF DoLock, Goto, TypeOK
<1>2. pc[t] = "lock" /\ pc'[t] \in {"test", "body"} /\ (method[t] \notin Waits => pc'[t] = "body")
  BY DEF DoLock, Goto, TypeOK
<1>3. CASE method[t] = "__condationLockAdd"
  <2>1. condition = 1 /\ MyLock(t) = "condationLock" /\ holder["condationLock"] = None
    BY <1>3 DEF DoLock, ConditionMet, Free, Recursive, MyLock, Lock
  <2>2. ASSUME NEW u \in Threads, method[u] = "__condationLockAdd", pc[u] \in Through PROVE FALSE
    <3>1. pc[u] # "done"
      BY <2>1, <2>2 DEF CondationInv
    <3>2. MyLock(u) = "condationLock" /\ holder[MyLock(u)] = u
      BY <2>2, <3>1 DEF HoldInv, Inside, Through, MyLock, Lock
    <3> QED
      BY <2>1, <3>2, SafeAssumption
  <2> QED
    BY <1>1, <1>2, <1>3, <2>1, <2>2 DEF CondationInv, Through, Waits
<1>4. CASE method[t] = "__condationLockRemove"
  <2>1. condition = 2
    BY <1>4 DEF DoLock, ConditionMet
  <2> QED
    BY <1>1, <1>2, <1>4, <2>1 DEF CondationInv, Through
<1>5. CASE method[t] \notin {"__condationLockAdd", "__condationLockRemove"}
  BY <1>1, <1>2, <1>5 DEF CondationInv, Through
<1> QED
  BY <1>3, <1>4, <1>5

\* Every step keeps CondationInv.
LEMMA CondationStep == OrderInv /\ [Next]_vars => CondationInv'
<1> SUFFICES ASSUME OrderInv, [Next]_vars PROVE CondationInv'
  OBVIOUS
<1> USE DEF OrderInv, LockInv, TypeOK, CondationInv, Goto, Through
<1>1. ASSUME NEW t \in Threads, NEW v \in Threads, StartPair(t, v) PROVE CondationInv'
  BY <1>1 DEF StartPair
<1>2. CASE Dispatch_semaphoreMethod
  BY <1>2 DEF Dispatch_semaphoreMethod
<1>3. ASSUME NEW t \in Threads, NEW m \in called, Call(t, m) PROVE CondationInv'
  BY <1>3 DEF Call
<1>4. ASSUME NEW t \in Threads, SpuriousWakeup(t) PROVE CondationInv'
  BY <1>4 DEF SpuriousWakeup
<1>5. ASSUME NEW t \in Threads, Progress(t) PROVE CondationInv'
  <2>1. CASE DoLock(t)
    BY <2>1, CondationLocked
  <2>2. CASE Test(t) \/ Relock(t)
    BY <2>2 DEF Test, Relock, PlaceInv, Waits
  <2>3. CASE Signal(t)
    BY <2>3 DEF Signal, PlaceInv, Signals
  <2>4. CASE Unlock(t)
    BY <2>4 DEF Unlock, PlaceInv, Adders
  <2>5. CASE SemWait(t) \/ SemSignal(t)
    BY <2>5 DEF SemWait, SemSignal, PlaceInv
  <2>6. CASE AddObject(t)
    BY <2>6 DEF AddObject
  <2>7. CASE RemoveLastObject(t) \/ Recurse(t) \/ DoSomething(t)
    BY <2>7 DEF RemoveLastObject, Recurse, DoSomething
  <2> QED
    BY <1>5, <2>1, <2>2, <2>3, <2>4, <2>5, <2>6, <2>7, ZenonT(30) DEF Progress
<1>6. CASE UNCHANGED vars
  BY <1>6 DEF vars
<1> QED
  BY <1>1, <1>2, <1>3, <1>4, <1>5, <1>6 DEF Next

-----------------------------------------------------------------------------
(* No deadlock among the locks, the conditions and the semaphore.          *)

\* Where a thread is tells what it runs, and who holds a lock is inside, or at
\* the lock of the recursive method again.
HolderInv ==
  /\ \A t \in Threads :
       /\ pc[t] = "new" <=> method[t] = "none"
       /\ pc[t] \in {"lock", "body", "unlock"} => method[t] \in Adders \cup Removers \cup Direct
  /\ \A l \in Locks : holder[l] = None <=> depth[l] = 0
  /\ \A l \in Locks, t \in Threads : holder[l] = t =>
       /\ MyLock(t) = l /\ pc[t] \in Inside \cup {"lock"}
       /\ pc[t] = "lock" => method[t] = "pthread_mutex_recurecursive"

\* The remover that is started with each adder.
Partner(m) ==
  CASE m = "__addObject" -> "__removeObject"
    [] m = "__condationAdd" -> "__condationRemove"
    [] m = "__condationLockAdd" -> "__condationLockRemove"

\* Threads run what was called; a remover on condationLock has an adder.
PairInv ==
  /\ \A t \in Threads : /\ method[t] \in Removers => method[t] \in called
                        /\ method[t] \in Adders => Partner(method[t]) \in called
  /\ \A t \in Threads : method[t] = "__condationLockRemove" =>
       \E u \in Threads : method[u] = "__condationLockAdd"

\* Every step keeps HolderInv.
LEMMA HolderStep == LockInv /\ PlaceInv /\ HolderInv /\ [Next]_vars => HolderInv'
<1> SUFFICES ASSUME LockInv, PlaceInv, HolderInv, [Next]_vars PROVE HolderInv'
  OBVIOUS
<1> USE DEF LockInv, TypeOK, Goto
<1>0. TypeOK' /\ None \notin Threads
  BY TypeStep, SafeAssumption
<1>1. ASSUME NEW t \in Threads, NEW v \in Threads, StartPair(t, v) PROVE HolderInv'
  BY <1>0, <1>1 DEF StartPair, HolderInv, MyLock, Adders, Removers, Inside
<1>2. CASE Dispatch_semaphoreMethod
  BY <1>0, <1>2 DEF Dispatch_semaphoreMethod, HolderInv, MyLock, Inside
<1>3. ASSUME NEW t \in Threads, NEW m \in called, Call(t, m) PROVE HolderInv'
  BY <1>0, <1>3 DEF Call, HolderInv, MyLock, Inside, Direct
<1>4. ASSUME NEW t \in Threads, SpuriousWakeup(t) PROVE HolderInv'
  BY <1>0, <1>4 DEF SpuriousWakeup, HolderInv, MyLock, Inside
<1>5. ASSUME NEW t \in Threads, Progress(t) PROVE HolderInv'
  <2>0. MyLock(t) \in Locks
    BY LockType
  <2>1. CASE DoLock(t)
    BY <1>0, <2>0, <2>1 DEF DoLock, Acquire, Free, HolderInv, MyLock, Inside
  <2>2. CASE Test(t)
    BY <1>0, <2>0, <2>2 DEF Test, HolderInv, HoldInv, PlaceInv, Waits, Removers, MyLock, Inside
  <2>3. CASE Relock(t)
    BY <1>0, <2>0, <2>3 DEF Relock, Acquire, Free, HolderInv, PlaceInv, Waits, Removers, MyLock, Inside
  <2>4. CASE Signal(t)
    BY <1>0, <2>0, <2>4 DEF Signal, HolderInv, PlaceInv, Signals, Adders, MyLock, Inside
  <2>5. CASE Unlock(t)
    BY <1>0, <2>0, <2>5 DEF Unlock, HolderInv, HoldInv, MyLock, Inside
  <2>6. CASE SemWait(t) \/ SemSignal(t)
    BY <1>0, <2>0, <2>6 DEF SemWait, SemSignal, HolderInv, MyLock, Inside
  <2>7. CASE AddObject(t) \/ RemoveLastObject(t)
    BY <1>0, <2>0, <2>7 DEF AddObject, RemoveLastObject, HolderInv, MyLock, Inside
  <2>8. CASE Recurse(t) \/ DoSomething(t)
    BY <1>0, <2>0, <2>8 DEF Recurse, DoSomething, HolderInv, MyLock, Inside, Direct
  <2> QED
    BY <1>5, <2>1, <2>2, <2>3, <2>4, <2>5, <2>6, <2>7, <2>8, Zenon DEF Progress
<1>6. CASE UNCHANGED vars
  BY <1>6 DEF vars, HolderInv, MyLock
<1> QED
  BY <1>1, <1>2, <1>3, <1>4, <1>5, <1>6, Zenon DEF Next

\* Every step keeps PairInv.
LEMMA PairStep == LockInv /\ HolderInv /\ PairInv /\ [Next]_vars => PairInv'
<1> SUFFICES ASSUME LockInv, HolderInv, PairInv, [Next]_vars PROVE PairInv'
  OBVIOUS
<1>0. TypeOK /\ TypeOK'
  BY TypeStep DEF LockInv
<1>1. ASSUME NEW t \in Threads, NEW v \in Threads, StartPair(t, v) PROVE PairInv'
  <2>1. PICK pair \in {<<"__removeObject", "__addObject">>,
                  <<"__condationRemove", "__condationAdd">>,
                  <<"__condationLockRemove", "__condationLockAdd">>} :
          pair[1] \in called /\ method' = [method EXCEPT ![t] = pair[1], ![v] = pair[2]]
    BY <1>1, Zenon DEF StartPair
  <2>2. called' = called /\ t # v /\ method[t] = "none" /\ method[v] = "none"
    BY <1>1 DEF StartPair, HolderInv
  <2> QED
    BY <1>0, <2>1, <2>2 DEF PairInv, TypeOK, Adders, Removers, Partner
<1>2. CASE Dispatch_semaphoreMethod
  BY <1>0, <1>2 DEF Dispatch_semaphoreMethod, PairInv, TypeOK, Adders, Removers
<1>3. ASSUME NEW t \in Threads, NEW m \in called, Call(t, m) PROVE PairInv'
  <2>1. method[t] = "none"
    BY <1>3 DEF Call, HolderInv
  <2> QED
    BY <1>0, <1>3, <2>1 DEF Call, PairInv, TypeOK, Adders, Removers, Direct
<1>4. CASE UNCHANGED <<called, method>>
  BY <1>4 DEF PairInv
<1>5. ASSUME NEW t \in Threads, SpuriousWakeup(t) \/ Progress(t) PROVE UNCHANGED <<called, method>>
  BY <1>5, Zenon DEF SpuriousWakeup, Progress, DoLock, Test, Relock, Signal, Unlock, SemWait, SemSignal,
    AddObject, RemoveLastObject, Recurse, DoSomething
<1>6. CASE UNCHANGED vars
  BY <1>4, <1>6 DEF vars
<1> QED
  BY <1>1, <1>2, <1>3, <1>4, <1>5, <1>6, Zenon DEF Next

-----------------------------------------------------------------------------
(* Every step moves a thread on.                                           *)

\* The steps t has at most to go: the rounds of the recursion that are left for
\* all threads, the unlocks t owes, and the rest of its method.
LeftAt(c) == IF c < MaxRecursion THEN MaxRecursion - c ELSE 0
Left == LeftAt(count)
Rounds(t) == IF method[t] = "pthread_mutex_recurecursive" THEN 10 * Left ELSE 0
Own(t) == IF holder[MyLock(t)] = t THEN depth[MyLock(t)] ELSE 0
RankAt(p, r, o) ==
  CASE p = "new" -> 11 + 10 * MaxRecursion
    [] p = "lock" -> 10 + r + o
    [] p = "test" -> 8 + o
    [] p = "waiting" -> 8
    [] p = "relock" -> 7
    [] p = "body" -> 4 + r + o
    [] p = "signal" -> 3 + o
    [] p = "unlock" -> 1 + r + o
    [] p = "semwait" -> 2
    [] p = "sembody" -> 1
    [] OTHER -> 0
Rank(t) == RankAt(pc[t], Rounds(t), Own(t))

\* No step takes a thread back, and every step takes one on.
Onward == (\A t \in Threads : Rank(t)' <= Rank(t)) /\ \E t \in Threads : Rank(t)' < Rank(t)

RankInv == LockInv /\ PlaceInv /\ HolderInv

\* The rounds left, as the counter grows.
LEMMA LeftFalls ==
  ASSUME NEW c \in Nat, NEW d \in Nat, c <= d
  PROVE  /\ LeftAt(c) \in Nat /\ LeftAt(d) \in Nat /\ LeftAt(c) <= MaxRecursion /\ LeftAt(d) <= LeftAt(c)
         /\ 10 * LeftAt(c) \in Nat /\ 10 * LeftAt(d) \in Nat /\ 10 * LeftAt(d) <= 10 * LeftAt(c)
         /\ 10 * LeftAt(c) <= 10 * MaxRecursion
<1>1. /\ LeftAt(c) \in Nat /\ LeftAt(d) \in Nat /\ LeftAt(c) <= MaxRecursion /\ LeftAt(d) <= LeftAt(c)
  BY SafeAssumption DEF LeftAt
<1> QED
  BY <1>1, SafeAssumption

\* Ranks are numbers.
LEMMA RankType ==
  ASSUME TypeOK, NEW t \in Threads
  PROVE  Left \in Nat /\ Left <= MaxRecursion /\ Rounds(t) \in Nat /\ Own(t) \in Nat /\ Rank(t) \in Nat
<1>1. Left \in Nat /\ Left <= MaxRecursion /\ 10 * Left \in Nat
  BY LeftFalls DEF Left, TypeOK
<1>2. Rounds(t) \in Nat
  BY <1>1 DEF Rounds
<1>3. Own(t) \in Nat
  BY LockType DEF Own, TypeOK
<1>4. Rank(t) \in Nat
  BY <1>2, <1>3, SafeAssumption DEF Rank, RankAt
<1> QED
  BY <1>1, <1>2, <1>3, <1>4

\* The rank after a step.
LEMMA RankNat == ASSUME TypeOK', NEW t \in Threads PROVE Rank(t)' \in Nat
<1>1. (MyLock(t) \in Locks)'
  BY DEF TypeOK, MyLock, Lock, Locks
<1>2. Own(t)' \in Nat
  BY <1>1 DEF Own, TypeOK
<1>3. count' \in Nat
  BY DEF TypeOK
<1>4. 10 * Left' \in Nat
  BY <1>3, LeftFalls DEF Left
<1>5. Rounds(t)' \in Nat
  BY <1>4 DEF Rounds
<1> QED
  BY <1>2, <1>5, SafeAssumption DEF Rank, RankAt

\* A thread that does not move, while the counter grows, is not taken back.
LEMMA RankKept ==
  ASSUME TypeOK, TypeOK', NEW t \in Threads, pc'[t] = pc[t], method'[t] = method[t],
         Own(t)' <= Own(t), count' >= count
  PROVE  Rank(t)' <= Rank(t)
<1>0. count \in Nat /\ count' \in Nat
  BY DEF TypeOK
<1>1. 10 * Left \in Nat /\ 10 * Left' \in Nat /\ 10 * Left' <= 10 * Left
  BY <1>0, LeftFalls DEF Left
<1>2. Rounds(t) \in Nat /\ Rounds(t)' \in Nat /\ Rounds(t)' <= Rounds(t)
  BY <1>1 DEF Rounds
<1>3. Own(t) \in Nat /\ Own(t)' \in Nat
  <2>1. MyLock(t) \in Locks /\ MyLock(t)' = MyLock(t)
    BY LockType DEF MyLock
  <2> QED
    BY <2>1 DEF Own, TypeOK
<1>4. RankAt(pc[t], Rounds(t)', Own(t)') <= RankAt(pc[t], Rounds(t), Own(t))
  BY <1>2, <1>3, SafeAssumption DEF RankAt
<1> QED
  BY <1>4 DEF Rank

\* Starting threads and waking them: nobody's lock changes.
LEMMA OwnKept ==
  ASSUME UNCHANGED <<holder, depth>>, NEW t \in Threads, method'[t] = method[t]
  PROVE  Own(t)' = Own(t)
BY DEF Own, MyLock

\* A step of t leaves the locks of the others alone.
LEMMA OwnFrame ==
  ASSUME TypeOK, NEW t \in Threads, NEW u \in Threads, u # t, method' = method,
         holder[MyLock(t)] \in {None, t},
         NEW h \in {None, t}, NEW d,
         \/ UNCHANGED <<holder, depth>>
         \/ /\ holder' = [holder EXCEPT ![MyLock(t)] = h]
            /\ depth' = [depth EXCEPT ![MyLock(t)] = d]
  PROVE  Own(u)' = Own(u)
<1>1. MyLock(t) \in Locks /\ MyLock(u) \in Locks /\ MyLock(u)' = MyLock(u)
  BY LockType DEF MyLock
<1>2. u # None
  BY SafeAssumption
<1>3. CASE UNCHANGED <<holder, depth>>
  BY <1>1, <1>3 DEF Own
<1>4. CASE /\ holder' = [holder EXCEPT ![MyLock(t)] = h]
           /\ depth' = [depth EXCEPT ![MyLock(t)] = d]
  <2>1. CASE MyLock(u) = MyLock(t)
    BY <1>1, <1>2, <1>4, <2>1 DEF Own, TypeOK
  <2>2. CASE MyLock(u) # MyLock(t)
    <3>1. holder'[MyLock(u)] = holder[MyLock(u)] /\ depth'[MyLock(u)] = depth[MyLock(u)]
      BY <1>1, <1>4, <2>2 DEF TypeOK
    <3> QED
      BY <1>1, <3>1 DEF Own
  <2> QED
    BY <2>1, <2>2
<1> QED
  BY <1>3, <1>4

\* A thread that starts has its method before it.
LEMMA RankStarts ==
  ASSUME TypeOK, TypeOK', HolderInv, HolderInv', NEW t \in Threads, pc[t] = "new",
         pc'[t] \in {"lock", "semwait"}, UNCHANGED <<holder, depth, count>>
  PROVE  Rank(t)' < Rank(t)
<1>1. Rank(t) = 11 + 10 * MaxRecursion
  BY DEF Rank, RankAt
<1>2. \A l \in Locks : holder[l] # t
  BY DEF HolderInv, Inside
<1>3. Own(t)' = 0
  <2>1. (MyLock(t) \in Locks)'
    BY LockType DEF MyLock, Lock, TypeOK, Locks
  <2> QED
    BY <1>2, <2>1 DEF Own
<1>4. 10 * Left' \in Nat /\ 10 * Left' <= 10 * MaxRecursion
  BY LeftFalls DEF Left, TypeOK
<1>5. Rounds(t)' \in Nat /\ Rounds(t)' <= 10 * MaxRecursion
  BY <1>4, SafeAssumption DEF Rounds
<1>6. Rank(t)' = 10 + Rounds(t)' \/ Rank(t)' = 2
  BY <1>3, <1>5 DEF Rank, RankAt
<1> QED
  BY <1>1, <1>5, <1>6, SafeAssumption

\* A step that takes t on and moves nobody else.
LEMMA RankOne ==
  ASSUME TypeOK, TypeOK', NEW t \in Threads, method' = method, count' >= count,
         \A u \in Threads : u # t => pc'[u] = pc[u] /\ Own(u)' = Own(u),
         Rank(t)' < Rank(t)
  PROVE  Onward
<1>1. \A u \in Threads : u # t => Rank(u)' <= Rank(u)
  <2> SUFFICES ASSUME NEW u \in Threads, u # t PROVE Rank(u)' <= Rank(u)
    OBVIOUS
  <2>1. Own(u)' = Own(u) /\ Own(u) \in Nat
    BY RankType
  <2> QED
    BY <2>1, RankKept
<1>2. Rank(t)' <= Rank(t)
  BY RankType, RankNat
<1> QED
  BY <1>1, <1>2, Zenon DEF Onward

\* The same for a step that leaves the counter alone.
LEMMA RankMoves ==
  ASSUME TypeOK, TypeOK', NEW t \in Threads, UNCHANGED <<method, count>>,
         \A u \in Threads : u # t => pc'[u] = pc[u],
         \A u \in Threads : u # t => Own(u)' = Own(u), Rank(t)' < Rank(t)
  PROVE  Onward
<1>1. count' >= count
  BY DEF TypeOK
<1> QED
  BY <1>1, RankOne

\* The rounds depend on the method and the counter.
LEMMA RoundsKept == ASSUME UNCHANGED <<method, count>>, NEW t \in Threads PROVE Rounds(t)' = Rounds(t)
BY DEF Rounds, Left, LeftAt

\* Starting a pair takes both threads on.
LEMMA RankPair ==
  ASSUME TypeOK, TypeOK', HolderInv, HolderInv', HoldInv, PlaceInv,
         NEW t \in Threads, NEW v \in Threads, StartPair(t, v)
  PROVE  Onward
<1>c. count \in Nat /\ count' \in Nat
  BY DEF TypeOK
<1>1. \A u \in Threads : u # t /\ u # v => pc'[u] = pc[u] /\ method'[u] = method[u]
  BY DEF StartPair, TypeOK
<1>2. pc[t] = "new" /\ pc[v] = "new" /\ pc'[t] = "lock" /\ pc'[v] = "lock"
  BY DEF StartPair, TypeOK
<1>3. UNCHANGED <<holder, depth, count>>
  BY DEF StartPair
<1>4. Rank(t)' < Rank(t) /\ Rank(v)' < Rank(v)
  BY <1>2, <1>3, RankStarts
<1>5. ASSUME NEW u \in Threads, u # t, u # v PROVE Rank(u)' <= Rank(u)
  <2>1. Own(u)' = Own(u)
    BY <1>1, <1>3, <1>5, OwnKept
  <2> QED
    BY <1>c, <1>1, <1>3, <1>5, <2>1, RankKept, RankType
<1>6. Rank(t)' <= Rank(t) /\ Rank(v)' <= Rank(v)
  BY <1>4, RankType, RankNat
<1> QED
  BY <1>4, <1>5, <1>6, Zenon DEF Onward

\* dispatch_semaphoreMethod takes every thread on.
LEMMA RankSemaphore ==
  ASSUME TypeOK, TypeOK', HolderInv, HolderInv', HoldInv, PlaceInv,
         Dispatch_semaphoreMethod, vars' # vars
  PROVE  Onward
<1>1. ASSUME NEW t \in Threads PROVE Rank(t)' < Rank(t)
  <2>1. pc[t] = "new" /\ pc'[t] = "semwait" /\ UNCHANGED <<holder, depth, count>>
    BY DEF Dispatch_semaphoreMethod
  <2> QED
    BY <2>1, RankStarts
<1>2. ASSUME NEW t \in Threads PROVE Rank(t)' <= Rank(t)
  BY <1>1, RankType, RankNat
<1>3. Threads # {}
  <2> SUFFICES ASSUME Threads = {} PROVE FALSE
    OBVIOUS
  <2>1. pc' = pc /\ method' = method
    BY DEF TypeOK
  <2> QED
    BY <2>1 DEF Dispatch_semaphoreMethod, vars
<1> QED
  BY <1>1, <1>2, <1>3, Zenon DEF Onward

\* A call takes its thread on.
LEMMA RankCall ==
  ASSUME TypeOK, TypeOK', HolderInv, HolderInv', HoldInv, PlaceInv,
         NEW t \in Threads, NEW m \in called, Call(t, m)
  PROVE  Onward
<1>c. count \in Nat /\ count' \in Nat
  BY DEF TypeOK
<1>1. pc[t] = "new" /\ pc'[t] = "lock" /\ UNCHANGED <<holder, depth, count>>
  BY DEF Call, Goto, TypeOK
<1>2. \A u \in Threads : u # t => pc'[u] = pc[u] /\ method'[u] = method[u]
  BY DEF Call, Goto, TypeOK
<1>3. Rank(t)' < Rank(t)
  BY <1>1, RankStarts
<1>4. ASSUME NEW u \in Threads, u # t PROVE Rank(u)' <= Rank(u)
  <2>1. Own(u)' = Own(u)
    BY <1>1, <1>2, <1>4, OwnKept
  <2> QED
    BY <1>c, <1>1, <1>2, <1>4, <2>1, RankKept, RankType
<1>5. Rank(t)' <= Rank(t)
  BY <1>3, RankType, RankNat
<1> QED
  BY <1>3, <1>4, <1>5, Zenon DEF Onward

\* So does a wakeup without a signal.
LEMMA RankSpurious ==
  ASSUME TypeOK, TypeOK', HolderInv, HolderInv', HoldInv, PlaceInv,
         NEW t \in Threads, SpuriousWakeup(t)
  PROVE  Onward
<1>c. count \in Nat /\ count' \in Nat
  BY DEF TypeOK
<1>1. pc[t] = "waiting" /\ pc'[t] = "relock" /\ UNCHANGED <<holder, depth, count, method>>
  BY DEF SpuriousWakeup, Goto, TypeOK
<1>2. \A u \in Threads : u # t => pc'[u] = pc[u]
  BY DEF SpuriousWakeup, Goto, TypeOK
<1>3. Rank(t)' < Rank(t)
  BY <1>1 DEF Rank, RankAt
<1>4. \A u \in Threads : Own(u)' = Own(u)
  BY <1>1, OwnKept
<1> QED
  BY <1>c, <1>1, <1>2, <1>3, <1>4, RankOne

\* Taking the lock adds an unlock and still is a step on.
LEMMA RankLock ==
  ASSUME TypeOK, TypeOK', HolderInv, HolderInv', HoldInv, PlaceInv,
         NEW t \in Threads, DoLock(t)
  PROVE  Onward
<1>o. MyLock(t) \in Locks /\ Rounds(t) \in Nat /\ Own(t) \in Nat /\ t # None
  BY LockType, RankType, SafeAssumption
<1>1. UNCHANGED <<method, count>> /\ pc[t] = "lock" /\ pc'[t] = (IF method[t] \in Waits THEN "test" ELSE "body")
  BY DEF DoLock, Goto, TypeOK
<1>2. \A u \in Threads : u # t => pc'[u] = pc[u]
  BY DEF DoLock, Goto, TypeOK
<1>3. /\ holder[MyLock(t)] \in {None, t}
      /\ holder' = [holder EXCEPT ![MyLock(t)] = t]
      /\ depth' = [depth EXCEPT ![MyLock(t)] = depth[MyLock(t)] + 1]
  BY DEF DoLock, Free, Acquire
<1>4. \A u \in Threads : u # t => Own(u)' = Own(u)
  BY <1>1, <1>3, OwnFrame, ZenonT(30)
<1>5. Own(t)' = Own(t) + 1
  <2>1. holder[MyLock(t)] = None => depth[MyLock(t)] = 0
    BY <1>o DEF HolderInv
  <2>2. MyLock(t)' = MyLock(t)
    BY <1>1 DEF MyLock
  <2>3. holder'[MyLock(t)] = t /\ depth'[MyLock(t)] = depth[MyLock(t)] + 1
    BY <1>o, <1>3 DEF TypeOK
  <2> QED
    BY <1>o, <1>3, <2>1, <2>2, <2>3 DEF Own
<1>6. Rank(t)' < Rank(t)
  BY <1>o, RoundsKept, <1>1, <1>5 DEF Rank, RankAt
<1> QED
  BY RankMoves, <1>1, <1>2, <1>4, <1>6

\* Going to wait gives the unlocks back; going on leaves the test behind.
LEMMA RankTest ==
  ASSUME TypeOK, TypeOK', HolderInv, HolderInv', HoldInv, PlaceInv,
         NEW t \in Threads, Test(t)
  PROVE  Onward
<1>o. MyLock(t) \in Locks /\ Rounds(t) \in Nat /\ Own(t) \in Nat /\ t # None
  BY LockType, RankType, SafeAssumption
<1>1. UNCHANGED <<method, count>> /\ pc[t] = "test"
  BY DEF Test
<1>2. \A u \in Threads : u # t => pc'[u] = pc[u]
  BY DEF Test, Goto, TypeOK
<1>3. holder[MyLock(t)] = t /\ Own(t) > 0
  <2>1. holder[MyLock(t)] = t
    BY <1>1 DEF HoldInv, Inside
  <2>2. depth[MyLock(t)] # 0
    BY <1>o, <2>1 DEF HolderInv
  <2> QED
    BY <1>o, <2>1, <2>2 DEF Own
<1>4. CASE data = 0
  <2>1. /\ holder' = [holder EXCEPT ![MyLock(t)] = None]
        /\ depth' = [depth EXCEPT ![MyLock(t)] = 0]
        /\ pc'[t] = "waiting"
    BY <1>4 DEF Test, Goto, TypeOK
  <2>2. \A u \in Threads : u # t => Own(u)' = Own(u)
    BY <1>1, <1>3, <2>1, OwnFrame, ZenonT(30)
  <2>3. Rank(t)' < Rank(t)
    BY <1>o, <1>1, <1>3, <2>1 DEF Rank, RankAt
  <2> QED
    BY RankMoves, <1>1, <1>2, <2>2, <2>3
<1>5. CASE data # 0
  <2>1. UNCHANGED <<holder, depth>> /\ pc'[t] = "body"
    BY <1>5 DEF Test, Goto, TypeOK
  <2>2. Rounds(t)' = 0
    BY <1>1 DEF PlaceInv, Waits, Rounds
  <2>3. \A u \in Threads : Own(u)' = Own(u)
    BY OwnKept, <1>1, <2>1
  <2>4. Rank(t)' < Rank(t)
    BY <1>o, <1>1, <2>1, <2>2, <2>3 DEF Rank, RankAt
  <2> QED
    BY RankMoves, <1>1, <1>2, <2>3, <2>4
<1> QED
  BY <1>4, <1>5

\* The lock a wait takes again is its first.
LEMMA RankRelock ==
  ASSUME TypeOK, TypeOK', HolderInv, HolderInv', HoldInv, PlaceInv,
         NEW t \in Threads, Relock(t)
  PROVE  Onward
<1>o. MyLock(t) \in Locks /\ Rounds(t) \in Nat /\ Own(t) \in Nat /\ t # None
  BY LockType, RankType, SafeAssumption
<1>1. UNCHANGED <<method, count>> /\ pc[t] = "relock" /\ pc'[t] = "body"
  BY DEF Relock, Goto, TypeOK
<1>2. \A u \in Threads : u # t => pc'[u] = pc[u]
  BY DEF Relock, Goto, TypeOK
<1>3. /\ holder[MyLock(t)] \in {None, t}
      /\ holder' = [holder EXCEPT ![MyLock(t)] = t]
      /\ depth' = [depth EXCEPT ![MyLock(t)] = depth[MyLock(t)] + 1]
  BY DEF Relock, Free, Acquire
<1>4. \A u \in Threads : u # t => Own(u)' = Own(u)
  BY <1>1, <1>3, OwnFrame, ZenonT(30)
<1>5. holder[MyLock(t)] # t
  BY <1>o, <1>1, ZenonT(30) DEF HolderInv, Inside
<1>6. depth[MyLock(t)] = 0
  BY <1>o, <1>3, <1>5, ZenonT(30) DEF HolderInv
<1>7. Own(t)' = 1
  <2>1. MyLock(t)' = MyLock(t)
    BY <1>1 DEF MyLock
  <2>2. holder'[MyLock(t)] = t /\ depth'[MyLock(t)] = 1
    BY <1>o, <1>3, <1>6 DEF TypeOK
  <2> QED
    BY <2>1, <2>2 DEF Own
<1>8. Rounds(t)' = 0
  BY <1>1 DEF PlaceInv, Waits, Rounds
<1>9. Rank(t)' < Rank(t)
  BY <1>1, <1>7, <1>8 DEF Rank, RankAt
<1> QED
  BY RankMoves, <1>1, <1>2, <1>4, <1>9

\* A signal takes two threads on.
LEMMA RankSignal ==
  ASSUME TypeOK, TypeOK', HolderInv, HolderInv', HoldInv, PlaceInv,
         NEW t \in Threads, Signal(t)
  PROVE  Onward
<1>c. count \in Nat /\ count' \in Nat
  BY DEF TypeOK
<1>o. MyLock(t) \in Locks /\ Rounds(t) \in Nat /\ Own(t) \in Nat /\ t # None
  BY LockType, RankType, SafeAssumption
<1>1. UNCHANGED <<method, count, holder, depth>> /\ pc[t] = "signal"
  BY DEF Signal
<1>2. \A u \in Threads : Own(u)' = Own(u)
  BY OwnKept, <1>1
<1>3. Rounds(t)' = 0
  BY <1>1 DEF PlaceInv, Signals, Rounds
<1>4. pc'[t] = "unlock" => Rank(t)' < Rank(t)
  BY <1>o, <1>1, <1>2, <1>3 DEF Rank, RankAt
<1>5. CASE pc' = [pc EXCEPT ![t] = "unlock"]
  <2>1. pc'[t] = "unlock" /\ \A u \in Threads : u # t => pc'[u] = pc[u]
    BY <1>5 DEF TypeOK
  <2> QED
    BY RankMoves, <1>1, <1>2, <1>4, <2>1
<1>6. ASSUME NEW x \in Threads, pc[x] = "waiting", pc' = [pc EXCEPT ![t] = "unlock", ![x] = "relock"]
      PROVE  Onward
  <2>1. pc'[t] = "unlock" /\ pc'[x] = "relock" /\ \A u \in Threads : u # t /\ u # x => pc'[u] = pc[u]
    BY <1>1, <1>6 DEF TypeOK
  <2>2. Rank(x)' < Rank(x)
    BY <1>6, <2>1 DEF Rank, RankAt
  <2>3. ASSUME NEW u \in Threads, u # t, u # x PROVE Rank(u)' <= Rank(u)
    <3>1. Own(u)' = Own(u) /\ Own(u) \in Nat /\ pc'[u] = pc[u]
      BY <1>2, <2>1, <2>3, RankType
    <3> QED
      BY <1>c, <1>1, <3>1, RankKept
  <2>4. Rank(t)' <= Rank(t) /\ Rank(x)' <= Rank(x)
    BY <1>4, <2>1, <2>2, RankType, RankNat
  <2> QED
    BY <2>2, <2>3, <2>4, Zenon DEF Onward
<1> QED
  BY <1>5, <1>6, Zenon DEF Signal, Goto

\* Every unlock is one less.
LEMMA RankUnlock ==
  ASSUME TypeOK, TypeOK', HolderInv, HolderInv', HoldInv, PlaceInv,
         NEW t \in Threads, Unlock(t)
  PROVE  Onward
<1>o. MyLock(t) \in Locks /\ Rounds(t) \in Nat /\ Own(t) \in Nat /\ t # None
  BY LockType, RankType, SafeAssumption
<1>1. UNCHANGED <<method, count>> /\ pc[t] = "unlock"
  BY DEF Unlock
<1>2. \A u \in Threads : u # t => pc'[u] = pc[u]
  BY DEF Unlock, Goto, TypeOK
<1>3. holder[MyLock(t)] = t /\ MyLock(t)' = MyLock(t) /\ Own(t) = depth[MyLock(t)]
  BY <1>1 DEF HoldInv, Inside, MyLock, Own
<1>4. CASE depth[MyLock(t)] = 1
  <2>1. /\ holder' = [holder EXCEPT ![MyLock(t)] = None]
        /\ depth' = [depth EXCEPT ![MyLock(t)] = depth[MyLock(t)] - 1]
        /\ pc'[t] = "done"
    BY <1>4 DEF Unlock, Goto, TypeOK
  <2>2. \A u \in Threads : u # t => Own(u)' = Own(u)
    BY <1>1, <1>3, <2>1, OwnFrame, ZenonT(30)
  <2>3. Rank(t)' < Rank(t)
    BY <1>o, <1>1, <2>1 DEF Rank, RankAt
  <2> QED
    BY RankMoves, <1>1, <1>2, <2>2, <2>3
<1>5. CASE depth[MyLock(t)] > 1
  <2>1. /\ holder' = [holder EXCEPT ![MyLock(t)] = t]
        /\ depth' = [depth EXCEPT ![MyLock(t)] = depth[MyLock(t)] - 1]
        /\ pc' = pc
    BY <1>o, <1>3, <1>5 DEF Unlock, TypeOK
  <2>2. \A u \in Threads : u # t => Own(u)' = Own(u)
    BY <1>1, <1>3, <2>1, OwnFrame, ZenonT(30)
  <2>3. Own(t)' = Own(t) - 1
    <3>1. holder'[MyLock(t)] = t /\ depth'[MyLock(t)] = depth[MyLock(t)] - 1
      BY <1>o, <2>1 DEF TypeOK
    <3> QED
      BY <1>3, <3>1, Zenon DEF Own
  <2>4. Rank(t)' < Rank(t)
    BY <1>o, RoundsKept, <1>1, <2>1, <2>3 DEF Rank, RankAt
  <2> QED
    BY RankMoves, <1>1, <1>2, <2>2, <2>4
<1> QED
  BY <1>4, <1>5 DEF Unlock

\* The bodies that do not recurse, and the semaphore.
LEMMA RankBody ==
  ASSUME TypeOK, TypeOK', HolderInv, HolderInv', HoldInv, PlaceInv,
         NEW t \in Threads, SemWait(t) \/ SemSignal(t) \/ AddObject(t) \/ RemoveLastObject(t) \/ DoSomething(t)
  PROVE  Onward
<1>o. MyLock(t) \in Locks /\ Rounds(t) \in Nat /\ Own(t) \in Nat /\ t # None
  BY LockType, RankType, SafeAssumption
<1>1. /\ UNCHANGED <<method, count, holder, depth>>
      /\ \/ pc[t] = "semwait" /\ pc'[t] = "sembody"
         \/ pc[t] = "sembody" /\ pc'[t] = "done"
         \/ pc[t] = "body" /\ pc'[t] \in {"signal", "unlock"}
  BY DEF SemWait, SemSignal, AddObject, RemoveLastObject, DoSomething, Goto, TypeOK
<1>2. \A u \in Threads : u # t => pc'[u] = pc[u]
  BY DEF SemWait, SemSignal, AddObject, RemoveLastObject, DoSomething, Goto, TypeOK
<1>3. \A u \in Threads : Own(u)' = Own(u)
  BY OwnKept, <1>1, Zenon
<1>4. Rank(t)' < Rank(t)
  BY <1>o, RoundsKept, <1>1, <1>3 DEF Rank, RankAt
<1> QED
  BY RankMoves, <1>1, <1>2, <1>3, <1>4, ZenonT(30)

\* A round of the recursion uses up one of the counter.
LEMMA RankRecurse ==
  ASSUME TypeOK, TypeOK', HolderInv, HolderInv', HoldInv, PlaceInv,
         NEW t \in Threads, Recurse(t)
  PROVE  Onward
<1>c. count \in Nat /\ count' \in Nat
  BY DEF TypeOK
<1>o. MyLock(t) \in Locks /\ Rounds(t) \in Nat /\ Own(t) \in Nat /\ t # None
  BY LockType, RankType, SafeAssumption
<1>1. /\ UNCHANGED <<method, holder, depth>> /\ count' = count + 1 /\ pc[t] = "body"
      /\ method[t] = "pthread_mutex_recurecursive"
      /\ pc'[t] = (IF count + 1 < MaxRecursion THEN "lock" ELSE "unlock")
  BY ZenonT(30) DEF Recurse, Goto, TypeOK
<1>2. \A u \in Threads : u # t => pc'[u] = pc[u]
  BY DEF Recurse, Goto, TypeOK
<1>3. \A u \in Threads : Own(u)' = Own(u)
  BY OwnKept, <1>1
<1>4. /\ Rounds(t) = 10 * Left /\ Rounds(t)' = 10 * Left'
      /\ Left \in Nat /\ Left' \in Nat
      /\ count + 1 < MaxRecursion => Left' = Left - 1
      /\ ~(count + 1 < MaxRecursion) => Left' = 0
  BY <1>c, <1>1, SafeAssumption DEF Rounds, Left, LeftAt
<1>5. Rank(t)' < Rank(t)
  BY <1>o, <1>1, <1>3, <1>4 DEF Rank, RankAt
<1> QED
  BY <1>c, <1>1, <1>2, <1>3, <1>5, RankOne

\* Every step takes a thread on.
LEMMA RankStep == RankInv /\ [Next]_vars => [Onward]_vars
<1> SUFFICES ASSUME RankInv, Next, vars' # vars PROVE Onward
  OBVIOUS
<1>1. TypeOK /\ TypeOK' /\ HolderInv /\ HolderInv' /\ PlaceInv /\ HoldInv
  BY TypeStep, HolderStep DEF RankInv, LockInv
<1>2. ASSUME NEW t \in Threads, Progress(t) PROVE Onward
  BY <1>1, <1>2, RankLock, RankTest, RankRelock, RankSignal, RankUnlock, RankBody, RankRecurse, Zenon DEF Progress
<1> QED
  BY <1>1, <1>2, RankPair, RankSemaphore, RankCall, RankSpurious, Zenon DEF Next

\* Whatever is called together, the execution ends: every step takes a thread
\* towards the end of its method and none back, wakeups without a signal and
\* the rounds of the recursion included.
THEOREM EveryStepOnward == Spec => [](\A t \in Threads : Rank(t) \in Nat) /\ [][Onward]_vars
<1>1. Init => RankInv
  <2> SUFFICES ASSUME Init PROVE RankInv
    OBVIOUS
  <2>1. LockInv /\ PlaceInv
    BY TypeInit DEF Init, LockInv, HoldInv, Inside, PlaceInv
  <2>2. HolderInv
    BY SafeAssumption DEF Init, HolderInv
  <2> QED
    BY <2>1, <2>2 DEF RankInv
<1>2. RankInv /\ [Next]_vars => RankInv'
  BY TypeStep, HoldStep, PlaceStep, HolderStep DEF RankInv, LockInv
<1>3. RankInv => \A t \in Threads : Rank(t) \in Nat
  BY RankType DEF RankInv, LockInv
<1>4. RankInv /\ [Next]_vars => [Onward]_vars
  BY RankStep
<1> QED
  BY <1>1, <1>2, <1>3, <1>4, PTL DEF Spec

-----------------------------------------------------------------------------
\* From here on sets are counted.
INSTANCE FiniteSetTheorems

\* nscondationLockMethod, for any number of threads: no element is removed before
\* one was added, and at most one thread ever adds one.
THEOREM CondationLockKeepsOrder == Spec => []CondationLockOrder
<1>1. Init => OrderInv
  BY TypeInit DEF Init, OrderInv, LockInv, HoldInv, Inside, PlaceInv, CondationInv, Through
<1>2. OrderInv /\ [Next]_vars => OrderInv'
  BY TypeStep, HoldStep, PlaceStep, CondationStep DEF OrderInv, LockInv
<1>3. OrderInv => CondationLockOrder
  <2> SUFFICES ASSUME OrderInv PROVE CondationLockOrder
    OBVIOUS
  <2> DEFINE T(m) == {t \in Threads : method[t] = m /\ pc[t] \in {"body", "unlock", "done"}}
             A == T("__condationLockAdd")
  <2>1. T("__condationLockRemove") # {} => adds > 0
    BY DEF OrderInv, CondationInv, Through
  <2>2. Cardinality(A) <= 1
    <3>1. CASE A = {}
      BY <3>1, FS_EmptySet
    <3>2. CASE A # {}
      <4>1. PICK t \in A : TRUE
        BY <3>2
      <4>2. A = {t}
        BY <4>1 DEF OrderInv, CondationInv, Through
      <4> QED
        BY <4>2, FS_Singleton
    <3> QED
      BY <3>1, <3>2
  <2> QED
    BY <2>1, <2>2 DEF CondationLockOrder
<1> QED
  BY <1>1, <1>2, <1>3, PTL DEF Spec

-----------------------------------------------------------------------------
\* The threads between dispatch_semaphore_wait and dispatch_semaphore_signal.
InSemaphore == {t \in Threads : pc[t] = "sembody"}

PermitInv == TypeOK /\ AtMostPermits

\* The threads in the semaphore are a finite set.
LEMMA InSemaphoreFinite == IsFiniteSet(InSemaphore) /\ Cardinality(InSemaphore) \in Nat
<1>1. IsFiniteSet(InSemaphore)
  BY SafeAssumption, FS_Subset DEF InSemaphore
<1> QED
  BY <1>1, FS_CardinalityType

\* Every step keeps the sum of the permits in use and the semaphore's value.
LEMMA PermitStep == PermitInv /\ [Next]_vars => AtMostPermits'
<1> SUFFICES ASSUME PermitInv, [Next]_vars PROVE AtMostPermits'
  OBVIOUS
<1> USE DEF PermitInv
<1>0. /\ IsFiniteSet(InSemaphore) /\ Cardinality(InSemaphore) \in Nat
      /\ Cardinality(InSemaphore) + semaphore = Permits
  BY InSemaphoreFinite DEF AtMostPermits, InSemaphore
<1>a. ASSUME InSemaphore' = InSemaphore, semaphore' = semaphore PROVE AtMostPermits'
  BY <1>0, <1>a DEF AtMostPermits, InSemaphore
<1>1. ASSUME NEW t \in Threads, SemWait(t) PROVE AtMostPermits'
  <2>1. t \notin InSemaphore /\ InSemaphore' = InSemaphore \cup {t}
    BY <1>1 DEF SemWait, Goto, TypeOK, InSemaphore
  <2>2. Cardinality(InSemaphore') = Cardinality(InSemaphore) + 1
    BY <1>0, <2>1, FS_AddElement
  <2> QED
    BY <1>0, <1>1, <2>2 DEF SemWait, TypeOK, AtMostPermits, InSemaphore
<1>2. ASSUME NEW t \in Threads, SemSignal(t) PROVE AtMostPermits'
  <2>1. t \in InSemaphore /\ InSemaphore' = InSemaphore \ {t}
    BY <1>2 DEF SemSignal, Goto, TypeOK, InSemaphore
  <2>2. Cardinality(InSemaphore') = Cardinality(InSemaphore) - 1
    BY <1>0, <2>1, FS_RemoveElement
  <2> QED
    BY <1>0, <1>2, <2>2 DEF SemSignal, TypeOK, AtMostPermits, InSemaphore
<1>3. ASSUME NEW t \in Threads, NEW u \in Threads, StartPair(t, u) PROVE AtMostPermits'
  BY <1>a, <1>3 DEF StartPair, TypeOK, InSemaphore
<1>4. CASE Dispatch_semaphoreMethod
  BY <1>a, <1>4 DEF Dispatch_semaphoreMethod, TypeOK, InSemaphore
<1>5. ASSUME NEW t \in Threads, NEW m \in called, Call(t, m) PROVE AtMostPermits'
  BY <1>a, <1>5 DEF Call, Goto, TypeOK, InSemaphore
<1>6. ASSUME NEW t \in Threads, SpuriousWakeup(t) PROVE AtMostPermits'
  BY <1>a, <1>6 DEF SpuriousWakeup, Goto, TypeOK, InSemaphore
<1>7. ASSUME NEW t \in Threads, DoLock(t) \/ Test(t) \/ Relock(t) \/ Unlock(t) PROVE AtMostPermits'
  BY <1>a, <1>7 DEF DoLock, Test, Relock, Unlock, Goto, TypeOK, InSemaphore
<1>8. ASSUME NEW t \in Threads, Signal(t) PROVE AtMostPermits'
  BY <1>a, <1>8 DEF Signal, Goto, TypeOK, InSemaphore
<1>9. ASSUME NEW t \in Threads,
             AddObject(t) \/ RemoveLastObject(t) \/ Recurse(t) \/ DoSomething(t)
      PROVE AtMostPermits'
  BY <1>a, <1>9 DEF AddObject, RemoveLastObject, Recurse, DoSomething, Goto, TypeOK, InSemaphore
<1>10. CASE UNCHANGED vars
  BY <1>a, <1>10 DEF vars, InSemaphore
<1> QED
  BY <1>1, <1>2, <1>3, <1>4, <1>5, <1>6, <1>7, <1>8, <1>9, <1>10 DEF Next, Progress

\* dispatch_semaphoreMethod: for any number of threads and permits, no more
\* threads than permits run at a time and no permit is lost.
THEOREM SemaphoreBounds == Spec => []AtMostPermits
<1>1. Init => PermitInv
  <2> SUFFICES ASSUME Init PROVE AtMostPermits
    BY TypeInit DEF PermitInv
  <2>1. {t \in Threads : pc[t] = "sembody"} = {}
    BY DEF Init
  <2> QED
    BY <2>1, FS_EmptySet, SafeAssumption DEF Init, AtMostPermits
<1>2. PermitInv /\ [Next]_vars => PermitInv'
  BY TypeStep, PermitStep DEF PermitInv
<1>3. PermitInv => AtMostPermits
  BY DEF PermitInv
<1> QED
  BY <1>1, <1>2, <1>3, PTL DEF Spec

-----------------------------------------------------------------------------
(* No wakeup is lost.                                                      *)

\* Removers that did not remove yet, adders that did not add yet; the threads
\* that wait, and those that will still signal.
ToRemove == {t \in Threads : method[t] \in Removers /\ pc[t] \in {"lock", "test", "waiting", "relock", "body"}}
ToAdd == {t \in Threads : method[t] \in Adders /\ pc[t] \in {"lock", "body"}}
Waiting == {t \in Threads : pc[t] = "waiting"}
ToSignal == {t \in Threads : method[t] \in Signals /\ pc[t] \in {"lock", "body", "signal"}}

\* data is used under one lock.
OneKind == \A m, n \in called \cap Removers : m = n

\* Nobody has to wait for an element that nobody adds ...
CountInv == Cardinality(ToRemove) <= Cardinality(ToAdd) + data
\* ... and every thread that waits has a signal of its own to come.
WaitInv == OneKind => Cardinality(Waiting) <= Cardinality(ToSignal)

\* The counted sets are finite.
LEMMA CountFinite ==
  /\ IsFiniteSet(ToRemove) /\ IsFiniteSet(ToAdd) /\ IsFiniteSet(Waiting) /\ IsFiniteSet(ToSignal)
  /\ IsFiniteSet(ToRemove') /\ IsFiniteSet(ToAdd') /\ IsFiniteSet(Waiting') /\ IsFiniteSet(ToSignal')
  /\ Cardinality(ToRemove) \in Nat /\ Cardinality(ToAdd) \in Nat
  /\ Cardinality(Waiting) \in Nat /\ Cardinality(ToSignal) \in Nat
  /\ Cardinality(ToRemove') \in Nat /\ Cardinality(ToAdd') \in Nat
  /\ Cardinality(Waiting') \in Nat /\ Cardinality(ToSignal') \in Nat
<1>1. /\ ToRemove \subseteq Threads /\ ToAdd \subseteq Threads /\ Waiting \subseteq Threads
      /\ ToSignal \subseteq Threads /\ ToRemove' \subseteq Threads /\ ToAdd' \subseteq Threads
      /\ Waiting' \subseteq Threads /\ ToSignal' \subseteq Threads
  BY Zenon DEF ToRemove, ToAdd, Waiting, ToSignal
<1>2. \A S : S \subseteq Threads => IsFiniteSet(S)
  BY SafeAssumption, FS_Subset, Zenon
<1>3. \A S : IsFiniteSet(S) => Cardinality(S) \in Nat
  BY FS_CardinalityType, Zenon
<1> QED
  BY <1>1, <1>2, <1>3, Zenon

\* One element less, one more.
LEMMA OneLess ==
  ASSUME NEW S, NEW x \in S, IsFiniteSet(S)
  PROVE  IsFiniteSet(S \ {x}) /\ Cardinality(S \ {x}) = Cardinality(S) - 1
BY FS_RemoveElement

\* And one with one element more.
LEMMA OneMore ==
  ASSUME NEW S, NEW x, x \notin S, IsFiniteSet(S)
  PROVE  IsFiniteSet(S \cup {x}) /\ Cardinality(S \cup {x}) = Cardinality(S) + 1
BY FS_AddElement

\* Every step keeps an element, or an adder, for each remover.
LEMMA CountStep == LockInv /\ PlaceInv /\ HolderInv /\ CountInv /\ [Next]_vars => CountInv'
<1> SUFFICES ASSUME LockInv, PlaceInv, HolderInv, CountInv, [Next]_vars PROVE CountInv'
  OBVIOUS
<1>0. TypeOK /\ TypeOK'
  BY TypeStep DEF LockInv
<1>a. data \in Nat /\ data' \in Nat
  BY <1>0 DEF TypeOK
<1>b. ASSUME ToRemove' = ToRemove, ToAdd' = ToAdd, data' = data PROVE CountInv'
  BY <1>b DEF CountInv
<1>1. ASSUME NEW t \in Threads, NEW v \in Threads, StartPair(t, v) PROVE CountInv'
  <2>1. PICK pair \in {<<"__removeObject", "__addObject">>,
                  <<"__condationRemove", "__condationAdd">>,
                  <<"__condationLockRemove", "__condationLockAdd">>} :
          method' = [method EXCEPT ![t] = pair[1], ![v] = pair[2]]
    BY <1>1, Zenon DEF StartPair
  <2>2. t # v /\ pc[t] = "new" /\ pc[v] = "new" /\ pc' = [pc EXCEPT ![t] = "lock", ![v] = "lock"] /\ data' = data
    BY <1>1 DEF StartPair
  <2>3. ToRemove' = ToRemove \cup {t} /\ t \notin ToRemove
    BY <1>0, <2>1, <2>2 DEF ToRemove, TypeOK, Removers
  <2>4. ToAdd' = ToAdd \cup {v} /\ v \notin ToAdd
    BY <1>0, <2>1, <2>2 DEF ToAdd, TypeOK, Adders
  <2>5. Cardinality(ToRemove') = Cardinality(ToRemove) + 1
    BY <2>3, CountFinite, OneMore
  <2>6. Cardinality(ToAdd') = Cardinality(ToAdd) + 1
    BY <2>4, CountFinite, OneMore
  <2> QED
    BY <1>a, <2>2, <2>5, <2>6, CountFinite DEF CountInv
<1>2. CASE Dispatch_semaphoreMethod
  <2>1. ToRemove' = {} /\ ToAdd' = {} /\ ToRemove = {} /\ ToAdd = {} /\ data' = data
    BY <1>0, <1>2 DEF Dispatch_semaphoreMethod, ToRemove, ToAdd, Removers, Adders
  <2> QED
    BY <1>b, <2>1
<1>3. ASSUME NEW t \in Threads, NEW m \in called, Call(t, m) PROVE CountInv'
  <2>1. ToRemove' = ToRemove /\ ToAdd' = ToAdd /\ data' = data
    BY <1>0, <1>3 DEF Call, Goto, ToRemove, ToAdd, Removers, Adders, Direct, TypeOK
  <2> QED
    BY <1>b, <2>1
<1>4. ASSUME NEW t \in Threads, SpuriousWakeup(t) PROVE CountInv'
  <2>1. ToRemove' = ToRemove /\ ToAdd' = ToAdd /\ data' = data
    BY <1>0, <1>4 DEF SpuriousWakeup, Goto, ToRemove, ToAdd, TypeOK
  <2> QED
    BY <1>b, <2>1
<1>5. ASSUME NEW t \in Threads, Progress(t) PROVE CountInv'
  <2>1. CASE DoLock(t)
    <3>1. ToRemove' = ToRemove /\ ToAdd' = ToAdd /\ data' = data
      BY <1>0, <2>1 DEF DoLock, Goto, ToRemove, ToAdd, TypeOK, Waits, Adders
    <3> QED
      BY <1>b, <3>1
  <2>2. CASE Test(t)
    <3>1. ToRemove' = ToRemove /\ data' = data
      BY <1>0, <2>2 DEF Test, Goto, ToRemove, TypeOK
    <3>2. ToAdd' = ToAdd
      BY <1>0, <2>2 DEF Test, Goto, ToAdd, TypeOK, PlaceInv, Waits, Adders
    <3> QED
      BY <1>b, <3>1, <3>2
  <2>3. CASE Relock(t)
    <3>1. ToRemove' = ToRemove /\ data' = data
      BY <1>0, <2>3 DEF Relock, Goto, ToRemove, TypeOK
    <3>2. ToAdd' = ToAdd
      BY <1>0, <2>3 DEF Relock, Goto, ToAdd, TypeOK, PlaceInv, Waits, Adders
    <3> QED
      BY <1>b, <3>1, <3>2
  <2>4. CASE Signal(t)
    <3>1. ToRemove' = ToRemove /\ data' = data
      BY <1>0, <2>4 DEF Signal, Goto, ToRemove, TypeOK, PlaceInv
    <3>2. ToAdd' = ToAdd
      BY <1>0, <2>4 DEF Signal, Goto, ToAdd, TypeOK, PlaceInv, Waits, Adders
    <3> QED
      BY <1>b, <3>1, <3>2
  <2>5. CASE Unlock(t) \/ SemWait(t) \/ SemSignal(t) \/ DoSomething(t) \/ Recurse(t)
    <3>1. ToRemove' = ToRemove /\ data' = data
      BY <1>0, <2>5 DEF Unlock, SemWait, SemSignal, DoSomething, Recurse, Goto, ToRemove, TypeOK, Direct, Removers
    <3>2. ToAdd' = ToAdd
      BY <1>0, <2>5 DEF Unlock, SemWait, SemSignal, DoSomething, Recurse, Goto, ToAdd, TypeOK, Direct, Adders
    <3> QED
      BY <1>b, <3>1, <3>2
  <2>6. CASE AddObject(t)
    <3>1. ToRemove' = ToRemove /\ data' = data + 1
      BY <1>0, <2>6 DEF AddObject, Goto, ToRemove, TypeOK, Adders, Removers
    <3>2. ToAdd' = ToAdd \ {t} /\ t \in ToAdd
      BY <1>0, <2>6 DEF AddObject, Goto, ToAdd, TypeOK
    <3>3. Cardinality(ToAdd') = Cardinality(ToAdd) - 1
      BY <3>2, CountFinite, OneLess
    <3> QED
      BY <1>a, <3>1, <3>3, CountFinite DEF CountInv
  <2>7. CASE RemoveLastObject(t)
    <3>1. ToAdd' = ToAdd /\ data' >= data - 1
      BY <1>0, <2>7 DEF RemoveLastObject, Goto, ToAdd, TypeOK, Adders, Removers
    <3>2. ToRemove' = ToRemove \ {t} /\ t \in ToRemove
      BY <1>0, <2>7 DEF RemoveLastObject, Goto, ToRemove, TypeOK
    <3>3. Cardinality(ToRemove') = Cardinality(ToRemove) - 1
      BY <3>2, CountFinite, OneLess
    <3> QED
      BY <1>a, <3>1, <3>3, CountFinite DEF CountInv
  <2> QED
    BY <1>5, <2>1, <2>2, <2>3, <2>4, <2>5, <2>6, <2>7, ZenonT(30) DEF Progress
<1>6. CASE UNCHANGED vars
  BY <1>6 DEF vars, CountInv, ToRemove, ToAdd
<1> QED
  BY <1>1, <1>2, <1>3, <1>4, <1>5, <1>6, Zenon DEF Next

\* With data under one lock, adders that did not add yet signal, and whoever
\* signals or waits uses the same lock.
LEMMA SameKind ==
  ASSUME TypeOK, PairInv, PlaceInv, OneKind,
         NEW t \in Threads, method[t] \in Waits, NEW u \in Threads, method[u] \in Adders
  PROVE  method[u] \in Signals /\ MyLock(u) = MyLock(t)
<1>1. method[t] \in called \cap Removers /\ Partner(method[u]) \in called \cap Removers
  BY DEF PairInv, Waits, Removers, Adders, Partner
<1>2. method[t] = Partner(method[u])
  BY <1>1 DEF OneKind
<1> QED
  BY <1>2 DEF Partner, Adders, Waits, Signals, MyLock, Lock

\* A thread only begins to wait when data is empty, so that among the adders to
\* come there is one more than there are threads waiting.
LEMMA WaitBegins ==
  ASSUME LockInv, PlaceInv, PairInv, CountInv, OneKind, data = 0,
         NEW t \in Threads, pc[t] = "test"
  PROVE  Cardinality(Waiting) + 1 <= Cardinality(ToSignal)
<1> USE DEF LockInv
<1>1. t \notin Waiting /\ Waiting \cup {t} \subseteq ToRemove
  BY DEF Waiting, ToRemove, PlaceInv, Waits, Removers
<1>2. ToAdd \subseteq ToSignal
  <2> SUFFICES ASSUME NEW u \in ToAdd PROVE u \in ToSignal
    OBVIOUS
  <2>1. u \in Threads /\ method[u] \in Adders /\ pc[u] \in {"lock", "body"}
    BY DEF ToAdd
  <2>2. method[t] \in Waits
    BY DEF PlaceInv
  <2>3. method[u] \in Signals
    BY <2>1, <2>2, SameKind
  <2> QED
    BY <2>1, <2>3 DEF ToSignal
<1>3. Cardinality(Waiting \cup {t}) = Cardinality(Waiting) + 1
  BY <1>1, CountFinite, OneMore, Zenon
<1>4. Cardinality(Waiting \cup {t}) <= Cardinality(ToRemove)
  BY <1>1, CountFinite, FS_Subset
<1>5. Cardinality(ToAdd) <= Cardinality(ToSignal)
  BY <1>2, CountFinite, FS_Subset
<1> QED
  BY <1>3, <1>4, <1>5, CountFinite DEF CountInv

\* Every step keeps a signal for each thread that waits.
LEMMA WaitStep ==
  LockInv /\ PlaceInv /\ HolderInv /\ PairInv /\ CountInv /\ WaitInv /\ [Next]_vars => WaitInv'
<1> SUFFICES ASSUME LockInv, PlaceInv, HolderInv, PairInv, CountInv, WaitInv, [Next]_vars, OneKind'
             PROVE  Cardinality(Waiting') <= Cardinality(ToSignal')
  BY DEF WaitInv
<1>0. TypeOK /\ TypeOK'
  BY TypeStep DEF LockInv
<1>k. called' = called
  BY Zenon DEF Next, vars, StartPair, Dispatch_semaphoreMethod, Call, SpuriousWakeup, Progress, DoLock,
    Test, Relock, Signal, Unlock, SemWait, SemSignal, AddObject, RemoveLastObject, Recurse, DoSomething
<1>o. OneKind /\ Cardinality(Waiting) <= Cardinality(ToSignal)
  BY <1>k DEF OneKind, WaitInv
<1>b. ASSUME Waiting' \subseteq Waiting, ToSignal \subseteq ToSignal'
      PROVE  Cardinality(Waiting') <= Cardinality(ToSignal')
  <2>1. Cardinality(Waiting') <= Cardinality(Waiting)
    BY <1>b, CountFinite, FS_Subset
  <2>2. Cardinality(ToSignal) <= Cardinality(ToSignal')
    BY <1>b, CountFinite, FS_Subset
  <2> QED
    BY <1>o, <2>1, <2>2, CountFinite
<1> DEFINE Goal == Cardinality(Waiting') <= Cardinality(ToSignal')
<1>1. ASSUME NEW t \in Threads, NEW v \in Threads, StartPair(t, v) PROVE Goal
  <2>1. \A u \in Threads : u # t /\ u # v => pc'[u] = pc[u] /\ method'[u] = method[u]
    BY <1>0, <1>1 DEF StartPair, TypeOK
  <2>2. pc[t] = "new" /\ pc[v] = "new" /\ pc'[t] = "lock" /\ pc'[v] = "lock"
    BY <1>0, <1>1 DEF StartPair, TypeOK
  <2>3. Waiting' \subseteq Waiting /\ ToSignal \subseteq ToSignal'
    BY <2>1, <2>2 DEF Waiting, ToSignal
  <2> QED
    BY <1>b, <2>3
<1>2. CASE Dispatch_semaphoreMethod
  <2>1. Waiting' = {} /\ ToSignal = {}
    BY <1>0, <1>2 DEF Dispatch_semaphoreMethod, Waiting, ToSignal
  <2> QED
    BY <1>b, <2>1
<1>3. ASSUME NEW t \in Threads, NEW m \in called, Call(t, m) PROVE Goal
  <2>1. Waiting' \subseteq Waiting /\ ToSignal \subseteq ToSignal'
    BY <1>0, <1>3 DEF Call, Goto, Waiting, ToSignal, TypeOK
  <2> QED
    BY <1>b, <2>1, Zenon
<1>4. ASSUME NEW t \in Threads, SpuriousWakeup(t) PROVE Goal
  <2>1. Waiting' \subseteq Waiting /\ ToSignal \subseteq ToSignal'
    BY <1>0, <1>4 DEF SpuriousWakeup, Goto, Waiting, ToSignal, TypeOK
  <2> QED
    BY <1>b, <2>1, Zenon
<1>5. ASSUME NEW t \in Threads, Progress(t) PROVE Goal
  <2>1. CASE DoLock(t)
    <3>1. Waiting' \subseteq Waiting /\ ToSignal \subseteq ToSignal'
      BY <1>0, <2>1 DEF DoLock, Goto, Waiting, ToSignal, TypeOK, Waits, Signals
    <3> QED
      BY <1>b, <3>1
  <2>2. CASE Test(t)
    <3>0. ToSignal' = ToSignal
      BY <1>0, <2>2 DEF Test, Goto, ToSignal, TypeOK, PlaceInv, Waits, Signals
    <3>1. CASE data = 0
      <4>1. Cardinality(Waiting) + 1 <= Cardinality(ToSignal)
        BY <1>o, <2>2, <3>1, WaitBegins DEF Test
      <4>2. Waiting' = Waiting \cup {t} /\ t \notin Waiting
        BY <1>0, <2>2, <3>1 DEF Test, Goto, Waiting, TypeOK
      <4>3. Cardinality(Waiting') = Cardinality(Waiting) + 1
        BY <4>2, CountFinite, OneMore
      <4> QED
        BY <3>0, <4>1, <4>3, CountFinite
    <3>2. CASE data # 0
      <4>1. Waiting' \subseteq Waiting
        BY <1>0, <2>2, <3>2 DEF Test, Goto, Waiting, TypeOK
      <4> QED
        BY <1>b, <3>0, <4>1, ZenonT(30)
    <3> QED
      BY <3>1, <3>2
  <2>3. CASE Relock(t) \/ RemoveLastObject(t)
    <3>1. Waiting' \subseteq Waiting
      BY <1>0, <2>3 DEF Relock, RemoveLastObject, Goto, Waiting, TypeOK
    <3>2. ToSignal \subseteq ToSignal'
      BY <1>0, <2>3 DEF Relock, RemoveLastObject, Goto, ToSignal, TypeOK, Signals, Removers
    <3> QED
      BY <1>b, <3>1, <3>2
  <2>4. CASE Signal(t)
    <3>1. t \in ToSignal /\ method' = method /\ pc[t] = "signal"
      BY <2>4, Zenon DEF Signal, ToSignal, PlaceInv
    <3>2. CASE Waiting = {}
      <4>1. Waiting' = {}
        BY <1>0, <2>4, <3>1, <3>2 DEF Signal, Goto, Waiting, TypeOK
      <4> QED
        BY <4>1, CountFinite, FS_EmptySet
    <3>3. CASE Waiting # {}
      <4>1. PICK u \in Threads : pc[u] = "waiting"
        BY <3>3 DEF Waiting
      <4>2. method[u] \in Waits /\ method[t] \in Adders
        BY <3>1, <4>1 DEF PlaceInv, Signals, Adders
      <4>3. MyLock(u) = MyLock(t)
        BY <1>0, <1>o, <4>2, SameKind
      <4>4. {w \in Threads : pc[w] = "waiting" /\ MyLock(w) = MyLock(t)} # {}
        BY <4>1, <4>3
      <4>5. PICK x \in {w \in Threads : pc[w] = "waiting" /\ MyLock(w) = MyLock(t)} :
              pc' = [pc EXCEPT ![t] = "unlock", ![x] = "relock"]
        BY <2>4, <4>4, Zenon DEF Signal
      <4>6. x \in Threads /\ x \in Waiting /\ x # t
        BY <3>1, <4>5, Zenon DEF Waiting
      <4>7. Waiting' = Waiting \ {x}
        BY <1>0, <3>1, <4>5, <4>6 DEF Waiting, TypeOK
      <4>8. ToSignal' = ToSignal \ {t}
        BY <1>0, <3>1, <4>5, <4>6 DEF ToSignal, TypeOK, Waiting
      <4>9. Cardinality(Waiting') = Cardinality(Waiting) - 1
        BY <4>6, <4>7, CountFinite, OneLess
      <4>10. Cardinality(ToSignal') = Cardinality(ToSignal) - 1
        BY <3>1, <4>8, CountFinite, OneLess, Zenon
      <4> QED
        BY <1>o, <4>9, <4>10, CountFinite
    <3> QED
      BY <3>2, <3>3
  <2>5. CASE Unlock(t) \/ SemWait(t) \/ SemSignal(t) \/ DoSomething(t) \/ Recurse(t)
    <3>1. Waiting' \subseteq Waiting
      BY <1>0, <2>5 DEF Unlock, SemWait, SemSignal, DoSomething, Recurse, Goto, Waiting, TypeOK
    <3>2. ToSignal \subseteq ToSignal'
      BY <1>0, <2>5 DEF Unlock, SemWait, SemSignal, DoSomething, Recurse, Goto, ToSignal, TypeOK, Direct, Signals
    <3> QED
      BY <1>b, <3>1, <3>2
  <2>6. CASE AddObject(t)
    <3>1. Waiting' \subseteq Waiting /\ ToSignal \subseteq ToSignal'
      BY <1>0, <2>6 DEF AddObject, Goto, Waiting, ToSignal, TypeOK
    <3> QED
      BY <1>b, <3>1
  <2> HIDE DEF Goal
  <2> QED
    BY <1>5, <2>1, <2>2, <2>3, <2>4, <2>5, <2>6, ZenonT(30) DEF Progress
<1>6. CASE UNCHANGED vars
  <2>1. Waiting' = Waiting /\ ToSignal' = ToSignal
    BY <1>6 DEF vars, Waiting, ToSignal
  <2> QED
    BY <1>b, <2>1
<1> QED
  BY <1>1, <1>2, <1>3, <1>4, <1>5, <1>6, Zenon DEF Next

\* Everything the threads keep.
StuckInv ==
  OrderInv /\ HolderInv /\ PairInv /\ CountInv /\ WaitInv /\ AtMostPermits

\* Whoever holds a lock can go on.
LEMMA HolderGoesOn ==
  ASSUME TypeOK, HolderInv, NEW l \in Locks, holder[l] # None
  PROVE  holder[l] \in Threads /\ CanStep(holder[l]) /\ MyLock(holder[l]) = l
<1> DEFINE h == holder[l]
<1>1. h \in Threads
  BY DEF TypeOK
<1>2. /\ MyLock(h) = l /\ pc[h] \in Inside \cup {"lock"} /\ depth[l] > 0
      /\ pc[h] = "lock" => method[h] = "pthread_mutex_recurecursive"
  BY <1>1 DEF HolderInv, TypeOK
<1>3. pc[h] = "body" => method[h] \in Adders \cup Removers \cup Direct
  BY <1>1 DEF HolderInv
<1>4. CASE pc[h] = "lock"
  <2>1. l = "pthreadLock" /\ ConditionMet(h)
    BY <1>2, <1>4 DEF MyLock, Lock, ConditionMet
  <2> QED
    BY <1>1, <1>2, <1>4, <2>1 DEF CanStep, Free, Recursive
<1>5. CASE pc[h] \in Inside
  BY <1>1, <1>2, <1>3, <1>5 DEF CanStep, Inside
<1> QED
  BY <1>2, <1>4, <1>5

\* Whoever wants a lock can have it, or its holder can go on.
LEMMA LockMoves ==
  ASSUME TypeOK, HolderInv, NEW t \in Threads,
         \/ pc[t] = "relock"
         \/ pc[t] = "lock" /\ ConditionMet(t)
  PROVE  \E u \in Threads : CanStep(u) /\ MyLock(u) = MyLock(t)
<1>0. MyLock(t) \in Locks
  BY LockType
<1>1. CASE holder[MyLock(t)] = None
  BY <1>1 DEF CanStep, Free
<1>2. CASE holder[MyLock(t)] # None
  BY <1>0, <1>2, HolderGoesOn
<1> QED
  BY <1>1, <1>2

\* A thread that waits on a condition has a thread that will signal it.
LEMMA WaitMoves ==
  ASSUME StuckInv, OneKind, NEW t \in Threads, pc[t] = "waiting"
  PROVE  \E u \in Threads : CanStep(u) /\ MyLock(u) = MyLock(t)
<1> USE DEF StuckInv, OrderInv, LockInv
<1>1. ToSignal # {}
  <2>1. Waiting # {} /\ IsFiniteSet(Waiting)
    BY CountFinite DEF Waiting
  <2>2. Cardinality(Waiting) # 0
    BY <2>1, FS_EmptySet
  <2>3. Cardinality(ToSignal) # 0
    BY <2>2, CountFinite DEF WaitInv
  <2> QED
    BY <2>3, FS_EmptySet
<1>2. PICK u \in Threads : method[u] \in Signals /\ pc[u] \in {"lock", "body", "signal"}
  BY <1>1 DEF ToSignal
<1>3. method[t] \in Waits /\ method[u] \in Adders
  BY <1>2 DEF PlaceInv, Signals, Adders
<1>4. MyLock(u) = MyLock(t)
  BY <1>3, SameKind
<1>5. CASE pc[u] = "lock"
  <2>1. ConditionMet(u)
    BY <1>2 DEF ConditionMet, Signals
  <2> QED
    BY <1>4, <1>5, <2>1, LockMoves
<1>6. CASE pc[u] \in {"body", "signal"}
  BY <1>3, <1>4, <1>6 DEF CanStep
<1> QED
  BY <1>2, <1>5, <1>6

\* A remover on condationLock whose condition is not met has an adder that did
\* not finish.
LEMMA CondationMoves ==
  ASSUME StuckInv, NEW t \in Threads, pc[t] = "lock", ~ConditionMet(t), method[t] # "__condationLockAdd"
  PROVE  \E u \in Threads : CanStep(u) /\ MyLock(u) = MyLock(t)
<1> USE DEF StuckInv, OrderInv, LockInv
<1>1. method[t] = "__condationLockRemove" /\ condition = 1
  BY DEF ConditionMet, TypeOK
<1>2. PICK u \in Threads : method[u] = "__condationLockAdd"
  BY <1>1 DEF PairInv
<1>3. MyLock(t) = "condationLock" /\ MyLock(u) = "condationLock"
  BY <1>1, <1>2 DEF MyLock, Lock
<1>4. pc[u] # "done" /\ pc[u] # "new"
  BY <1>1, <1>2 DEF CondationInv, HolderInv
<1>5. pc[u] \in {"lock", "body", "unlock"}
  BY <1>2, <1>4 DEF TypeOK, PCs, PlaceInv, Waits, Signals
<1>6. CASE pc[u] = "lock"
  <2>1. ConditionMet(u)
    BY <1>1, <1>2 DEF ConditionMet
  <2> QED
    BY <1>3, <1>6, <2>1, LockMoves
<1>7. CASE pc[u] \in {"body", "unlock"}
  <2>1. holder["condationLock"] = u
    BY <1>3, <1>7 DEF HoldInv, Inside
  <2>2. "condationLock" \in Locks /\ u # None
    BY SafeAssumption DEF Locks
  <2> QED
    BY <1>3, <2>1, <2>2, HolderGoesOn
<1> QED
  BY <1>5, <1>6, <1>7

\* Nobody waits for somebody who waits, for any number of threads, permits and
\* recursions, and whether or not a wait ends by itself: a thread that waits on
\* a condition has its signal to come, a lock is held by a thread that can go
\* on, the condition lock reaches 2, and a semaphore at zero has threads inside.
THEOREM NobodyStuck == Spec => []Helped
<1>1. Init => StuckInv
  <2> SUFFICES ASSUME Init PROVE StuckInv
    OBVIOUS
  <2>1. OrderInv
    BY TypeInit DEF Init, OrderInv, LockInv, HoldInv, Inside, PlaceInv, CondationInv, Through
  <2>2. HolderInv
    BY SafeAssumption DEF Init, HolderInv
  <2>3. PairInv
    BY DEF Init, PairInv, Removers, Adders
  <2>4. ToRemove = {} /\ ToAdd = {} /\ Waiting = {} /\ ToSignal = {} /\ {t \in Threads : pc[t] = "sembody"} = {}
    BY DEF Init, ToRemove, ToAdd, Waiting, ToSignal
  <2>5. CountInv /\ WaitInv
    BY <2>4, FS_EmptySet DEF Init, CountInv, WaitInv
  <2>6. AtMostPermits
    BY <2>4, FS_EmptySet, SafeAssumption DEF Init, AtMostPermits
  <2> QED
    BY <2>1, <2>2, <2>3, <2>5, <2>6 DEF StuckInv
<1>2. StuckInv /\ [Next]_vars => StuckInv'
  <2> SUFFICES ASSUME StuckInv, [Next]_vars PROVE StuckInv'
    OBVIOUS
  <2>1. OrderInv'
    BY TypeStep, HoldStep, PlaceStep, CondationStep DEF StuckInv, OrderInv, LockInv
  <2>2. HolderInv' /\ PairInv' /\ CountInv' /\ WaitInv'
    BY HolderStep, PairStep, CountStep, WaitStep DEF StuckInv, OrderInv
  <2>3. AtMostPermits'
    BY PermitStep DEF StuckInv, OrderInv, LockInv, PermitInv
  <2> QED
    BY <2>1, <2>2, <2>3 DEF StuckInv
<1>3. StuckInv => Helped
  <2> SUFFICES ASSUME StuckInv, OneKind, NEW t \in Threads, pc[t] \notin {"new", "done"},
                      method[t] # "__condationLockAdd"
               PROVE  \E u \in Threads :
                        CanStep(u) /\ (MyLock(u) = MyLock(t) \/ (pc[t] = "semwait" /\ pc[u] = "sembody"))
    BY DEF Helped, OneKind
  <2>0. TypeOK
    BY DEF StuckInv, OrderInv, LockInv
  <2>1. CASE pc[t] = "lock"
    BY <2>0, <2>1, LockMoves, CondationMoves, Zenon DEF StuckInv
  <2>2. CASE pc[t] = "relock"
    BY <2>0, <2>2, LockMoves, Zenon DEF StuckInv
  <2>3. CASE pc[t] = "waiting"
    BY <2>3, WaitMoves, Zenon
  <2>4. CASE pc[t] \in Inside
    <3>1. holder[MyLock(t)] = t /\ MyLock(t) \in Locks /\ t # None
      BY <2>0, <2>4, LockType, SafeAssumption, Zenon DEF StuckInv, OrderInv, LockInv, HoldInv
    <3> QED
      BY <2>0, <3>1, HolderGoesOn DEF StuckInv
  <2>5. CASE pc[t] = "sembody"
    BY <2>5 DEF CanStep
  <2>6. CASE pc[t] = "semwait"
    <3>1. CASE semaphore > 0
      BY <2>6, <3>1, Zenon DEF CanStep
    <3>2. CASE semaphore = 0
      <4>1. Cardinality(InSemaphore) + 0 = Permits
        BY <3>2 DEF StuckInv, AtMostPermits, InSemaphore
      <4>2. InSemaphore # {}
        BY <4>1, SafeAssumption, InSemaphoreFinite, FS_EmptySet
      <4>3. PICK u \in Threads : pc[u] = "sembody"
        BY <4>2 DEF InSemaphore
      <4> QED
        BY <2>6, <4>3 DEF CanStep
    <3> QED
      BY <2>0, <3>1, <3>2 DEF TypeOK
  <2> QED
    BY <2>0, <2>1, <2>2, <2>3, <2>4, <2>5, <2>6 DEF TypeOK, PCs, Inside
<1> QED
  BY <1>1, <1>2, <1>3, PTL DEF Spec
=============================================================================
