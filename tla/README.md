# iOSBasicDemo in TLA+

iOSBasicDemo is an app of small Objective-C components, each of which shows one
technique: timers, run loops, threads and locks, GCD queues, key-value observing,
method hooking. Most are short; what makes them hard is that threads, queues,
run loops and object lifetimes interleave in ways the demos never print. Beside them
stand a method hooking library, a stall monitor and a set of algorithms. This
directory models the parts with such behaviour, model-checks them with TLC and
proves the main properties with TLAPS for every value of the constants.

Paths below are relative to `src/iOSBasicDemo/iOSBasicDemo/iOSTech/`.

## 1. Inventory

| Part | State | Operations | What is hard | Status |
|---|---|---|---|---|
| `RunLoop/Class/SKTimerTest.m`, class methods | `timerDict`, `semphore`, GCD sources | `executeTask`, `cancelTask`, event handlers | identifiers taken from a count; handlers that cancel their own timer while threads add and cancel | modelled |
| `RunLoop/SKRunloopVC.m` | `taskID`, `schemeTimer` | `timerAction`, `cancelAction`, `dealloc`, ... | registry and run loop outlive the screen | timers only |
| `RunLoop/Class/SKAliveThread.m` | the thread, its run loop, `stopped` | `run`, `executeTaskWithBlock`, `stop` | callers wait on a thread that may spin, sleep or end | modelled |
| `Thread&Lock/GCD/SKGCDSafeAnalysis.m` | locks of nine kinds and a semaphore, `data`, counters | every lock method | signals, spurious wakeups, recursion with a shared counter | modelled |
| `Thread&Lock/GCD/SKGCDObj.m`, `SKGCDTestObj.m`, `SKGCDPrintObj.m` | queues, groups, semaphores | 25 demos | which output orders are possible, which demos block | modelled |
| `Thread&Lock/GCD/SKGCDAdditions.m` | rwlock, concurrent queue | read and write, two ways | readers and writers exclusion | modelled |
| `KVOKVC/NSObject+SKKVO.m` | `isa`, run-time classes, registrations | add, remove, setters, observer `dealloc` | isa-swizzling, weak observers, order of old values | modelled |
| `KVOKVC/SKKVCKVOVC.m` | registrations of the screen | registration, `dealloc` | removing in `dealloc` | partly |
| `Aspects/Aspects.m` | method tables, trackers, containers, the calls in progress | add, remove, forwarding of a message | messages take no lock; several hooks, class hierarchies, classes made by KVO | modelled |
| `Optimization/FPS/LXDAppFluecyMonitor` | observer, two loops, two semaphores, the main run loop | start, stop, callback, both loops | restart while an old loop runs; a loop that stops its own monitor | modelled |
| `../Algorithm`, loops | an array, a matrix, a list | median, staircase search, best trade, cycle, reversal | why the loop ends and what holds at every turn | modelled |
| `../Algorithm`, functions | none | sorts, merges, rotations, trees, ... | boundaries | partly |
| `Block/SpacemanBlocks.h`, `SKTimerTest.m` instance methods | handle; `timeValue` | perform, cancel; countdown | cancel against the delay; one count for two timers | not modelled, unused |
| `Runtime/Class/SKMessageSendAction.m`, `RunLoop/Class/SKRunLoopObject.m`, `Aspects/NSObject+SKHookSelector.m` | none | forwarding, observing, swizzling | the order is the runtime's | not modelled |
| `Block`, `Property`, `Runtime`, `Object`, `CategoryExtention`, `../Main`, ... | little | logging, UIKit | memory management shown by output | not modelled |

Vendored or generated code is left aside: `src/gnustep-base-1.26.0`,
`src/libdispatch-1008.220.2`, `src/objc4-756.2`, `src/RunLoopSouceCode`, YYModel and
the `*-arm64.cpp` compiler outputs. They were read for what the app's calls do
(for instance `CFRunLoopRunSpecific` in a mode that does not exist returns at once); what
`Dispatch` and `SKAliveThread` take from `libdispatch` and `CFRunLoop.c` is mapped there.
`src/AlgorithmExercise`, `src/interview` and `src/post` are exercises and notes.

The hazards, with the line each one bites at and the properties that cover it,
are in `PROJECT.json`; a note says what a property leaves open.

## 2. Modules

| Module | Models |
|---|---|
| `TimerRegistry` | abstract: a table of timers, `Store` and `Cancel` in one step each |
| `SKTimerTest` | the class methods, one statement at a time, for threads and handlers; implements `TimerRegistry` |
| `SKRunloopVC` | the screen's timers, composed with `TimerRegistry` |
| `SKAliveThread` | the thread bodies of `init`, `initWithCLau` and `threadMethod07`, and their callers |
| `SKGCDSafeAnalysis` | locks, conditions and the semaphore on one shared object |
| `ReadersWriters` | abstract: many readers or one writer |
| `Dispatch` | an interpreter of GCD as the demos use it |
| `SKGCDAdditions` | reading and writing a file under the rwlock or on the queue, as code for `Dispatch`; implements `ReadersWriters` |
| `SKGCDDemos` | the 25 demos as tables of blocks, the output their comments tell of and the output they have |
| `KeyValueObserving` | abstract: values, registrations, notifications; no classes |
| `SKKVO` | the run-time subclass, its methods and the `isa` pointer; implements `KeyValueObserving` |
| `Aspects` | `aspect_add`, `aspect_remove` and `__ASPECTS_ARE_BEING_CALLED__` over method tables |
| `LXDAppFluecyMonitor` | the main thread, both monitor loops, `startMonitoring` and `stopMonitoring` |
| `SKFindMiddleCount`, `SKFindNumberIn2DArray`, `SKMaxProfitOne`, `SKHasCycle`, `SKReverseList` | the algorithm of that name, a step per turn of its loop |
| `SKAlgorithms` | the other algorithms as operators, each with what it is to compute |
| `MCSKTimerTest`, `MCSKKVO`, `MCAspects` | constants and symmetry sets for TLC |
| `MCRunLoop`, `MCThreadLock`, `MCAlgorithms` | several components in one run: a behaviour is one of any one of them |
| `...Proofs` | theorems |

**State and actions.** Variables and actions have the names of the ivars and
methods they stand for; `PROJECT.json` maps each definition to its lines.

- In `SKTimerTest` a call is a `pc` that walks through the statements, because
  the semaphore protects only some of them: `dispatch_resume` comes after the
  signal. A source lives as long as `timerDict` or a local variable refers to it;
  a source that is cancelled or unreferenced does not fire. Time is abstracted to
  "a source that can fire may fire".
- In `SKRunloopVC` everything is on the main thread, so a tap is one step and the
  registry's calls are those of `TimerRegistry`. The refinement checked and proved
  for `SKTimerTest` is what permits this.
- In `SKAliveThread` the run loop is the set of modes with their ports and the
  queue of performed selectors; a caller waits, returns, or gets the exception
  raised when the target thread exits.
- In `SKGCDSafeAnalysis` each thread runs one method; the sleeps are left out since
  any interleaving is allowed. The constants `Permits` (5 in the code) and
  `MaxRecursion` (10) are parameters.
- `Dispatch` executes a table of blocks: each statement is a log line, a submission,
  a wait or a lock. `dispatch_sync` on a queue the caller occupies waits for ever.
- In `SKGCDAdditions` an access to the file is a statement of its own, between `rdlock` or
  `wrlock` and `unlock`, or alone in the block that is submitted. `FileAssumption`: a demo
  uses the file by the lock or by the queue, as both of the code do; the two ways do not
  exclude each other.
- In `SKKVO` a class is a base class and a number of prefixes; `kvo_class` and
  `hasPrefix` work on that. Keys are names in two spellings, since the setter's name
  capitalises the first letter and the getter's name lowers it. Setters and
  registrations run on the main thread; notification blocks are delivered in any order.
- In `Aspects` a class is a name and whether it is the `_Aspects_` subclass; it has its
  own implementations, its own aliases and its own `forwardInvocation:`, and looks up
  the rest in its superclasses. `op` is the call that holds the spin lock, which
  goes on statement by statement where the statement changes the runtime; `send` is
  the message of each thread, which takes no lock. Finding `forwardInvocation:`, reading
  the containers and calling the aspects before the method are one step. A send that finds
  no alias calls the aspects after the method, too, and then ends in the exception of
  `doesNotRecognizeSelector:` (`Raise`), without the removal of line 520. Blocks do
  nothing but run, and neither they nor the methods hook or send themselves. The program
  hooks objects and its own classes, not the class objects that KVO makes (`Hookable`).
  The selectors that may never be hooked and the positions allowed for `dealloc` are left
  out.
- In `LXDAppFluecyMonitor` the main thread follows the activities of a run loop, may
  begin and end a handler, and serves its queue between them; a time-out may come at
  any moment, a sleep may take any time. `stopMonitoring` is split at every statement
  since the fluency loop calls it, too. `early` records that a start came before the
  last fluency loop had ended; only the properties read it.
- The algorithms that loop are machines over their arguments; `MCAlgorithms` calls one
  of them, or one operator of `SKAlgorithms`, in each behaviour. `constructNodeList`
  does not set the `next` of the last node, so that it is NULL or wild. Words have
  `WordSize` values; a sum that overflows in `SwapAdd`, undefined in C, wraps around.

**Mutants.** Definitions with a comment that starts with `Mutant:` are deliberately
wrong variants of the definition below them. Each property is violated under one of
them, which shows that the property does depend on the code.

## 3. Runs

| Run | Question and answer |
|---|---|
| `timer_safety` | Do the calls behave as if atomic, can every timer that fires be cancelled, is no dead entry left? Yes. |
| `timer_calls` | Does every call return, those of handlers included? Yes. |
| `timer_overwritten` | Does a timer stop only by `cancelTask`? **No**, see finding 1. |
| `run_loops` | The screen: is it always given a fresh identifier, and does it leave other taps' timers alone? Yes: it only ever cancels the newest entry. The thread: is no waiting caller forgotten when it ends, and does a wait end where the body can end it? Yes: `initWithCLau` raises in its waiters, `threadMethod07` goes on when its selector was performed. The monitor, over restarts: is the observer kept, are the event loop's answers its own, do the loops end after a stop, is a stall reported? Yes, if a start comes after the end of the last fluency loop where the observer or the event loop's end is concerned. |
| `alive_task` | Does the thread of `init` perform the tasks it is given, and end when stopped? **No**, see finding 3. |
| `thread_lock` | The locks: exclusion, recursion bound, condition order, does nobody wait for somebody who waits (`Helped`), and does everybody finish? Yes, except that only one add on the condition lock ever gets through. The queues: what do the 25 demos print under every schedule? What the comment at the method says, or for the five wrong comments what `Printed` says, and nothing more. Do the accesses to the file keep the rules of `ReadersWriters`? Yes, by the lock and by the barrier. |
| `safe_missed` | Does a remover that was woken find an element? **No**, see finding 2. |
| `gcd_comments` | Does each demo print what its comment says? **No**, see finding 4. |
| `kvo` | Does the run-time subclass implement the contract of observing? Yes. Registrations of a deallocated observer stay. |
| `aspects` | Hooks on a class, its superclass and their objects, added and removed while messages are sent: is there an alias wherever a selector is forwarded, and is the alias of a class what the program implements there; does adding lose a message or silence another hook; is everything put back; is an automatic hook removed when a send that called it returns? Yes. |
| `aspects_original` | Is the method between the aspects the receiver's own? **No**, see finding 5. |
| `algorithms` | Does each algorithm compute what it should on all small inputs, and do the loops end? Yes. |

### Bounds

- Timers: three sources give the shortest reuse of an identifier (store two, cancel
  the first, store again); two threads and three handlers give five actors at the
  semaphore. `timer_calls` uses two sources: liveness does not admit symmetry.
- Screen: four timers and three instances allow two taps in each of two screens.
- Alive thread: two callers with `MaxCalls` = 2 allow a task and a stop by each.
- Locks: four threads are two pairs of adder and remover, or two threads more than
  `Permits` = 2. `MaxRecursion` = 3 has a first, a middle and a last level.
- Demos: the programs are finite and are run as they are, without a bound; `while (1)` is
  a statement that never ends.
- KVO: two objects of one class share the run-time class; three names, one without a
  setter; two values; `MaxCalls` = 4 setter or registration calls allow two
  registrations and two changes, or register, change, remove, change.
  Deallocation and delivery are not counted.
- Aspects: a class, its superclass, which it overrides in one of two selectors, and a
  class made by KVO; an object of the class and an observed one; two hooks and two
  threads that send. Two hooks are what it takes for one to disturb the other.
  An aspect is automatic and before the method, or instead of it: the first can be called
  by a send that then loses its alias, the second decides whether the method runs.
- Monitor: `Misses` = 2 (5 in the code) has a miss that is counted and one that is
  reported; `MaxStarts` = 2 is a start and a restart that meets the loops of the first (the
  safety properties are proved for any number); `MaxSignals` = 2 caps the callback's
  semaphore, and the run loop waits where it would be exceeded.
- Algorithms: arrays of up to five elements over four values (up to four for the operators), matrices of 3 x 3, lists of
  five nodes with every way to close them, words of four bits, trees of depth two.
  `findMiddleCount` is called with at least one element: it reads `a[-1]` otherwise.

Symmetry sets permute timers, screens, objects, observers, values, hooks or senders, in runs without
liveness properties only.

`CHECK_DEADLOCK FALSE` is used where the system may stop: demos end or block by
design, threads finish, calls are bounded.

### Fairness

- `timer_calls`: a method in progress goes on (weak fairness), and a waiter of the
  semaphore is served if it is free again and again (strong fairness), because
  `dispatch_semaphore` wakes its waiters in order. Nobody has to call, no timer has
  to fire.
- `run_loops`, `alive_task`: the started thread is scheduled (weak fairness on its
  steps). Callers need not call.
- `thread_lock`, locks: strong fairness per thread, as locks are released again and again and
  the kernel serves each waiter. Spurious wakeups are not fair: they may never happen.
- `thread_lock`, queues: some enabled step is taken (weak fairness on `DispatchNext`). This is enough
  because the demos are finite.
- `run_loops`, monitor: each loop and a call on the main thread go on (weak fairness). The main
  thread serves its queue if it comes by it again and again (strong fairness: the run
  loop does so on every turn). A handler need not end, a start or a stop need not come.
- `algorithms`: the loop goes on (weak fairness).

## 4. Theorems

All hold for every value of the constants that satisfies the named assumptions.

**`TimerAlgorithmProofs`**, `SKTimerTest` (`TimerAssumption`: the main thread is a thread,
threads and timers differ). `LockInv` adds to the types that locals are set at the
statements that use them, that the table is finite, and that a free semaphore means that
nobody is inside; it gives `Typed` and `DictionarySafe`. The table's properties need
`TableInv`: which call owns a source in creation, that an entry is either resumed with
the same identifier captured by its handler or still in creation, and that only an
entry about to be removed is cancelled. From it follow `AlwaysStoppable`,
`NeverDeadEntry` and `Atomic`, the refinement of `TimerRegistry`, where the entry that
a `cancelTask` in progress has looked up counts as removed. `EveryCallOnward` is what
`CallsReturn` rests on: a semaphore that is taken has somebody inside, at a statement
that waits for nothing (`Held`), and a call or handler has at most six statements to
go, which each of its steps lowers and no other actor changes.

**`TimerAlgorithmProofs`**, the loops of the algorithms. `SearchAlwaysExact`: the number is
in none of the rows above and the columns right of the current element.
`ProfitAlwaysBest`: `lowPrice` and `maxP` are right for the days so far.
`MiddleAlwaysFound`: everything outside the part that is searched is on its right side
(`Parted`), the elements scanned so far are (`Scanned`), and `PartSort` puts its key in
place (`InPlace`). `MiddleOnItsWay` is why `findMiddleCount` returns for every array
although it never narrows its range: no exchange takes an element from its place,
and a step that puts none in its place goes on in the partition or to a shorter part. A
partition that goes back to the end of the array has put a new element in its place
before (`LastInv`: once `high` has moved, the element there is larger than the key). `CycleAlwaysFound` needs no induction over the list: that it has no end is that
some set of nodes holds the head and the successor of each of its nodes, and both
pointers stay in every such set; as long as the pointers run, some set of nodes that the
fast pointer has left behind holds the slow one (`CycleInv`), so when they meet, that set
has no way out. `ListAlwaysKept` (`ReverseInv`): the links of the nodes turned so far
point back, those of the others forward.

**`RunLoopProofs`**, for the components built on run loops.

- The screen. `ScreenInv`: the identifiers are an initial segment of the numbers and
  `taskID`, if it is in use, is the last of them. It gives `ScreenIDsFresh` and
  `ScreenTouchesOnlyItsTask`.
- The alive thread (`AliveAssumption`). `AliveInv` adds to the properties that a body in
  the common modes is never inside the run loop and that no caller has two selectors in
  the queue, so that performing one lets exactly its caller go. It gives `AliveTyped`,
  `NeverServesCommonModes` and `WaitersAlwaysQueued`. `WaitsEndAsTheBodySays` needs
  `BodyInv`, too: the body of `init` is never over, and under `threadMethod07` only the
  caller that started the thread gives it a selector, one, and the body is over exactly
  when it was performed.
- The monitor (`MonitorAssumption`). `TypeInv` gives `MonitorTyped`; `EventsAlwaysMatched`
  is inductive with it. `ObserverAlwaysKept` needs `KeptInv`, which says for every statement
  of `startMonitoring` and `stopMonitoring` which observers exist, are in the run loop and
  are released, and that a fluency loop that runs on found an observer.
  `MonitorAlwaysWatched`: a monitor that is on and not just being started has both loops.
  Two ranks carry `StopEnds` and `StallReported`.
  `LoopsComeToRest`: while the monitor is off, a loop's blocks in its queue and the
  statements up to its end fall with each of its turns and are raised by nobody.
  `StallsComeToReport`: while the main thread stays in a handler, the pending signals, the
  misses still to count and the statements up to the next one fall in the lexicographic
  order with each turn of the fluency loop, until it logs or turns the monitor off.

**`SKGCDSafeProofs`**, the locks of `Thread&Lock/GCD` (`SafeAssumption`: finitely many
threads, numbers are numbers, at least one permit, where the code has 5). `HoldInv` (a
thread inside is the holder of its lock) gives `LocksExclude`; `RecursionInv`, which
relates the depth of the recursive mutex to the shared counter, gives
`RecursionIsBounded`; `PermitInv` gives `SemaphoreBounds`; `SafeTyped`.
`CondationLockKeepsOrder` needs `OrderInv`: where a thread is tells which method it runs
and whether it has added (`PlaceInv`), and the condition is 2 only after an add and from
the end of the first adder on (`CondationInv`). That two adders are never through
together follows from exclusion.

- `NobodyStuck` is freedom from deadlock, the safety part of `AllFinish`: whoever is not
  done can go on, or another thread can that uses the same lock or holds a permit
  (`Helped`). Who holds a lock is inside or at the
  recursive lock again (`HolderInv`), so a lock that is taken is given back. Who waits on
  a condition has a signal to come: an element that is to be removed is there or to be added
  (`CountInv`), and no more threads wait than are going to signal (`WaitInv`). `PairInv`
  says that a remover on `condationLock` has its adder. It is stated for `data` used
  under one lock, as in each demo; under different locks the array is raced on. The adder on
  `condationLock` is left out: a second one waits for ever (`CondationLockOrder`).
- `EveryStepOnward`: the rank of a thread is what its method has still to do, a wakeup
  without a signal and the rounds of the recursion included; every step lowers the rank of
  a thread and raises none, so no execution goes on for ever; where `NobodyStuck` applies,
  none stops before its threads are done.

**`DispatchProofs`**, for any demos, not only those of `SKGCDDemos` (`CodeAssumption`: the
table of demos is well formed; `OnceAssumption`: the name of a block stands for one
statement that makes it run). `DispatchTyped`, and:

- `FilesKept` is `FileRules` for any demos that use the file as `SKGCDAdditions.m` does
  (`FileAssumption`), any number of readers and writers, and whatever else their blocks do.
  By the lock: a block at its access holds the lock in the way its method took it
  (`LockInv`). On the queue: a block at its access is active on the queue, a writer's is a
  barrier (`QueueInv`), and a barrier is active alone (`BarrierAlone`), for which a block
  that is active must have been started and not be submitted anew (`ActiveStarted`). Both
  give `Exclusion`; that each step begins or ends one access (`OneMoves`) makes it a step of
  `ReadersWriters`. It fails if `writeMethod` takes the lock for reading, or if
  `writeMethod01` submits a plain block.
- `SyncDeadlocks` is `StuckForEver`: `dispatch_sync` onto a serial queue that the caller
  occupies, itself or through the target of a queue, leaves it waiting for a block behind
  itself, and blocks that wait for each other in this way never go on. It needs `OnceInv`:
  only the statement that names a block makes it run, and a block is queued once, in one
  queue.
- `EveryDemoOnward`: what a block has before it (`ToGo`) is a natural number, every step
  lowers it for some block and raises it for none. So every demo ends or comes to a stop,
  which is why weak fairness is enough for `OutputAsExpected`.

**`SKKVOProofs`**. `KVOInv`: an object's class has at most one prefix, and an object
with a registration has the run-time class, which implements the setter of each
registered key. It gives `KVOTyped`, `ClassStaysHidden` and `ObservingImplemented`,
the refinement of `KeyValueObserving`. `DeallocRemovesNothing` and `OrphansAreForever`
follow from what removing and clearing do to a sequence of registrations.
`ValuesAlwaysChain` needs `ChainInv`: registrations and notifications carry the number of
their call, a registration that was told of a property is one for its key, and while it
is there the last value it was told is the value of the property. So the next change,
which it is told of as well, starts from there.

**`AspectsProofs`** (`AspectsAssumption`: superclasses form a line above each class and
no class is above itself otherwise; `NilAssumption`: the marks for no value, for a refused
aspect, for forwarding and for the results of a send differ from values). `AspectsTyped`
with what the call in progress and the sends refer to; `AliasAlwaysKept`, for which the
class that is about to forward a selector has to have found or made the alias, an alias
is never taken away, and a class that finds none has the methods of the program
(`OriginalsInv`), since it is only changed after it found one; `OncePerHierarchyAlways`, for which the trackers have to record every
class with aspects in itself and below each of its superclasses; and
`AlwaysAutomaticallyRemoved`: an automatic aspect that a send called is gone, or still
noted by that send, or being removed; a send that raises leaves it as it is. The next two modules rest on its lemmas.

**`AspectsAddingProofs`**. While nothing is removed, `AddingInv` holds: a class that
forwards a selector, or is about to, has the `forwardInvocation:` of Aspects, every aspect
that is added completely is found from the class of its subject (`HooksInv`), and what a
send found (the forwarder, the alias, an aspect instead of the method) is still there
for its next step (`SendsInv`). Adding an implementation to a class changes what its
subclasses find, so every step of `aspect_add` is followed through the lookup along the
line of superclasses. What a send has run stands for an alias that its class still finds
(`Reached`), which with `AliasAlwaysKept` is an implementation of the program. It gives
`AddingAlwaysSafe` and `AddingAlwaysKeepsHooks`.

**`AspectsRemovalProofs`**. `RestoringInv` has three parts. A container holds the
live aspects of its subject and selector but the one being removed (`ContentsInv`). An
implementation or alias that is not a forward is one of the program, from the class or
above it (`MethodsInv`). Each change is on account of a live aspect, or of an object that
went away with an aspect (`ChangesInv`): the class of an object (`IsaInv`), a class changed
in place and its `forwardInvocation:` (`SwizzledInv`, `ForwarderInv`), a forwarded method
(`ImpInv`), and what a call in progress is about to change (`AddInv`). With no live aspect
left and every object there, nothing is changed: `AlwaysRestored`.

Proved and not checked again by the runs: the type invariants, `CommonModesNeverServe`, `WaitOutcome`,
`AtMostPermits`, `DeallocLeavesAll`, `StuckForEver`, and the ranks and `Watched`, which are
defined in the proof modules.

Only model-checked: everything under fairness (`CallsReturn`, `WaitsEnd`,
`AllFinish`, `OutputAsExpected`, `StopEnds`, `StallReported`, `LoopsReturn`), which is out
of the prover's reach. The safety part of the arguments is proved: for `CallsReturn`,
`AllFinish`, `StopEnds`, `StallReported` and the median of `LoopsReturn` a rank falls, and
for the first two nobody waits for somebody who waits; for `OutputAsExpected` a rank falls,
but which output a demo ends with is TLC's; for `WaitsEnd` it is proved how a wait can end
(`WaitOutcome`), not that it does. What is left is the step to "eventually", which
takes the fairness. The end of the chase of `hasCycleMore` needs induction over the list,
and what the recursive operators compute (`FunctionsCompute`) induction over data: both
stay with TLC. So do the five violations of section 5.

## 5. Findings

1. `SKTimerTest.m:206` takes the identifier from `timerDict.count`. After a cancel of a
   lower identifier the next timer is stored over a live one, which is released and
   stops. The comment at `SKRunloopVC.m:271` says timers are not destroyed on their own.
   `SKRunloopVC` itself never gets there (`NextIDFresh`).
2. `SKGCDSafeAnalysis.m:167` waits under an `if`: with two removers the one that is
   woken may find the array empty.
3. `SKAliveThread.m:29` runs the loop in `NSRunLoopCommonModes`, which is not a mode: it
   returns at once, the thread spins, and neither a task nor the stop is performed; who
   waits for one waits for ever. The header says that the thread executes a task (`:22`)
   and that it is ended (`:27`). Proved for any callers: `NeverServesCommonModes`.
4. Five comments on the output of a demo are wrong: `SKGCDObj.m:67` and `:91` (5 cannot
   come before 2), `SKGCDTestObj.m:105` and `:109` (task 3 may follow the notification),
   `SKGCDPrintObj.m:128` (the line after the submissions need not come before the tasks)
   and `SKGCDSafeAnalysis.m:231` (the code below is executed). `gcd_comments` stops at the
   first it meets; with `Demos` one of the five, each is violated by itself.
5. `Aspects.m:279` makes no alias if instances respond to one, and they do if a superclass
   is hooked. Hook a class, then an object of a subclass that overrides the method: the
   override is replaced and kept nowhere, and messages to the object reach the superclass's
   method. The comment at `:276` speaks of an alias for the existing implementation,
   `Aspects.h:13` of the original one.

Also seen:

- `SKRunloopVC.m:168` overwrites `taskID`; `dealloc` cancels only the last task, and the
  tasks of earlier taps run on (`OthersUntouched` says that nobody touches them).
- An observer that calls `sk_removeObserver:` in its `dealloc` removes nothing, since its
  weak reference already reads nil (`DeallocLeavesAll`, `OrphansStay`).
- After one round the condition lock lets no adder in (`CondationLockOrder`).
- `Aspects.m:304-313` restores the implementation whenever an aspect is removed, before
  line 319 looks whether "there are any hooks remaining": the other aspects of the
  selector are no longer called. `HooksRemain` in `Aspects` says the contrary; checked as
  an invariant it fails after two hooks and one removal, and `AddingKeepsHooks` is what
  is left of it. A removal may also leave out a method once, when it comes between lines
  491 and 492, and may make a message unrecognized that is on its way.
- `Aspects.m:515` raises before line 520 for a message that lost its alias to a removal: an
  automatic aspect it called stays until another send returns, unlike `Aspects.h:15` says
  ("Will remove the hook after the first execution").
- `Aspects.m:664` drops a tracker that still records hooked subclasses, after which
  a superclass can be hooked as well; a hook refused for its block (line 126) stays tracked.
- `LXDAppFluecyMonitor.m:161` reads a nil observer and stops the monitor some time
  later: a start in between loses its observer, which is why `ObserverKept` assumes that
  starts wait for the last loop.
- `findMiddleCount` goes back to an end of the array in every search instead of narrowing
  the part that holds the middle. It still returns (`LoopsReturn`, for up to five elements; `MiddleOnItsWay` for every array).
- `SKArrayFindNum.m:17` sets up columns that do not ascend, for which the staircase search
  (line 44: the array is ordered) misses the number 3. `randomCir` (`SKHasCycle.m:62`)
  makes no cycle if it draws 0.

`NSObject+SKKVO.m:214` speaks of comparing the key, the code compares the observer too.

## 6. Not modelled

The app's own code is Objective-C (`.m` files, some 11,500 lines), and the models map to
that. The C, C++ and header files of the tree are vendored sources of the system, compiler
outputs and interface files: a hundred times as many lines, which are not the program that
is modelled here, but for the few functions of `libdispatch` and `CFRunLoop.c` that the
app's calls end in.

UIKit screens, Foundation's own KVO and KVC, the stack walker `LXDBacktraceLogger`,
memory management shown by logging (blocks, properties, autorelease), and real time.
`SKTaggedPointTest` assigns a nonatomic string property from many blocks at once: what
that does is decided by the reference counting of the runtime. `SpacemanBlocks.h` (a
cancel between its two dispatches has no effect) and the countdown of `SKTimerTest` (its
count is shared by two timers and never reset) are used nowhere. `SKMessageSendAction` and
`SKRunLoopObject` log the stages of the runtime and of the run loop.
`NSObject+SKHookSelector.m` exchanges one method and hooks one selector; no other code uses
Aspects. Of the algorithms, `isValid` and `constructArr` read memory they did not set
for some inputs, so that nothing general can be said of their result; the sudoku and
first-character tests restate their definition; the traversals log.
`intersect` returns NULL if `malloc` fails, which is left out. In `SKKVO` properties whose own
name starts with a capital are left out, and two threads that create the same class at once, as the app
registers on the main thread. In `Dispatch` the recursive lock of
`dispatch_reentrant`, taken by one block alone, is left out, and a deadlock is a wait
for ever though libdispatch may also trap. In `SKRunloopVC` the observer demos and the
plain `NSThread` demo are left out.

## 7. Next

A refinement of `Aspects`: "a selector is hooked while it has aspects", which the code
meets only once removal looks at the remaining aspects first.
