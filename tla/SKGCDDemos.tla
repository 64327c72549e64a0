------------------------------ MODULE SKGCDDemos ------------------------------
(***************************************************************************)
(* The demos of SKGCDObj.m, SKGCDTestObj.m, SKGCDPrintObj.m,               *)
(* SKGCDAdditions.m and SKGCDSafeAnalysis.m as tables of blocks for the    *)
(* interpreter of module Dispatch, and what each one prints.               *)
(***************************************************************************)
EXTENDS SKGCDAdditions, SequencesExt

(* SKGCDObj *)

threadMethod01 ==
  [method |-> <<Log("1"), Sync("main", "b0"), Log("3")>>, b0 |-> <<Log("2")>>]
threadMethod02 ==
  [method |-> <<Log("1"), Async("main", "b0"), Log("3")>>, b0 |-> <<Log("2")>>]
\* Three methods differ in the queues of their two synchronous blocks.
Nested(q0, q1) ==
  [method |-> <<Log("1"), Sync(q0, "b0"), Log("5")>>,
   b0 |-> <<Log("2"), Sync(q1, "b1"), Log("4")>>, b1 |-> <<Log("3")>>]
threadMethod03 == Nested("serial", "serial")
threadMethod04 == Nested("serial", "concurrent")
threadMethod05 == Nested("concurrent", "concurrent")
\* afterDelay: adds a timer to a run loop that nobody runs
threadMethod06 ==
  [method |-> <<Async("global", "b0")>>, b0 |-> <<Log("1"), Log("3")>>]
threadMethod08 ==
  [method |-> <<GroupAsync("global", "b0"), GroupAsync("global", "b1"), Notify("global", "b2")>>,
   b0 |-> <<Log("1")>>, b1 |-> <<Log("2")>>,
   b2 |-> <<Async("main", "b3")>>, b3 |-> <<Log("3")>>]

(* SKGCDTestObj *)

ThreeAsync(q) ==
  [method |-> <<Async(q, "b0"), Async(q, "b1"), Async(q, "b2")>>,
   b0 |-> <<Log("1")>>, b1 |-> <<Log("2")>>, b2 |-> <<Log("3")>>]
createSerialQueue == ThreeAsync("serial")
createConcurrentQueue == ThreeAsync("concurrent")
\* Mutant: dispatch_async in place of dispatch_barrier_async.
createDispatchBarrierAsyncPlain ==
  [method |-> <<Async("concurrent", "b0"), Async("concurrent", "b1"),
                Async("concurrent", "b2"), Async("concurrent", "b3")>>,
   b0 |-> <<Log("1")>>, b1 |-> <<Log("barrier")>>, b2 |-> <<Log("2")>>, b3 |-> <<Log("4")>>]
createDispatchBarrierAsync ==
  [method |-> <<Async("concurrent", "b0"), Barrier("concurrent", "b1"),
                Async("concurrent", "b2"), Async("concurrent", "b3")>>,
   b0 |-> <<Log("1")>>, b1 |-> <<Log("barrier")>>, b2 |-> <<Log("2")>>, b3 |-> <<Log("4")>>]
createDispatchNotify ==
  [method |-> <<GroupAsync("global", "b0"), GroupAsync("global", "b1"),
                Notify("global", "b2"), GroupAsync("global", "b3")>>,
   b0 |-> <<Log("1")>>, b1 |-> <<Log("2")>>, b2 |-> <<Log("notify")>>, b3 |-> <<Log("3")>>]
\* func: dispatch_get_current_queue() is the queue of the running block only
func(current, queue, b) == IF current = queue THEN Inline(b) ELSE Sync(queue, b)
createDeadLock ==
  [method |-> <<Sync("queueA", "b0")>>, b0 |-> <<Sync("queueB", "b1")>>,
   b1 |-> <<func("queueB", "queueA", "b2")>>, b2 |-> <<Log("Block")>>]
\* dispatch_get_specific looks the value set for queueA up in the queue of the
\* running block and the queues it targets
queueSetSpecificFunc ==
  [method |-> <<Sync("queueBonA", "b0")>>,
   b0 |-> <<IF "queueA" \in Hierarchy("queueBonA") THEN Inline("b1") ELSE Sync("queueBonA", "b1")>>,
   b1 |-> <<Log("ha")>>]
\* dispatch_reentrant: its recursive lock is left out, this block alone takes it
reentrantMethod ==
  [method |-> <<Sync("queueA", "b0")>>, b0 |-> <<Inline("b1")>>, b1 |-> <<Log("reentrant")>>]
syncMainThread == threadMethod01

(* SKGCDPrintObj *)

threadMethondOneDemo ==
  [method |-> <<Log("1"), Sync("global", "b0"), Log("3")>>, b0 |-> <<Log("2")>>]
AsyncThenSync(q0, q1) ==
  [method |-> <<Log("1"), Async(q0, "b0"), Log("5")>>,
   b0 |-> <<Log("2"), Sync(q1, "b1"), Log("4")>>, b1 |-> <<Log("3")>>]
threadMethondTwoDemo == AsyncThenSync("serial", "serial")
threadMethondThreeDemo == AsyncThenSync("global", "main")
threadMethondFourDemo ==
  [method |-> <<Async("global", "b0"), Log("4"), Do("spin"), Log("5")>>,
   b0 |-> <<Log("1"), Sync("main", "b1"), Log("3")>>, b1 |-> <<Log("2")>>]
dispatch_semaphore ==
  [method |-> <<Async("main", "b0")>>, b0 |-> <<Do("wait"), Log("wait"), Do("signal")>>]
asyncConcurrent ==
  [method |-> <<Log("before"), Async("concurrent", "b0"), Async("concurrent", "b1"),
                Async("concurrent", "b2"), Log("after")>>,
   b0 |-> <<Log("1")>>, b1 |-> <<Log("2")>>, b2 |-> <<Log("3")>>]

(* SKGCDSafeAnalysis *)

threadSerial ==
  [method |-> <<Sync("serial", "b0"), Sync("serial", "b1"), Sync("serial", "b2"), Sync("serial", "b3")>>,
   b0 |-> <<Log("1")>>, b1 |-> <<Log("2")>>, b2 |-> <<Log("3")>>, b3 |-> <<Log("4")>>]
\* performSelectorOnMainThread: with waitUntilDone:NO
threadLifeCycleTest ==
  [method |-> <<Thread("b0"), Async("main", "b1")>>, b0 |-> <<Log("11111")>>, b1 |-> <<Log("22222")>>]

(* SKGCDAdditions *)

\* Two calls of rw_file_method
rw_file_method ==
  [method |-> <<Thread("b0"), Thread("b1"), Thread("b2"), Thread("b3")>>,
   b0 |-> readMethod, b1 |-> writeMethod, b2 |-> readMethod, b3 |-> writeMethod]
\* Two readers, a writer, a reader and a writer on the queue
ReadWrite01 ==
  [method |-> <<readMethod01("b0"), readMethod01("b1"), writeMethod01("b2"),
                readMethod01("b3"), writeMethod01("b4")>>,
   b0 |-> <<Read>>, b1 |-> <<Read>>, b2 |-> <<Write>>, b3 |-> <<Read>>, b4 |-> <<Write>>]
-----------------------------------------------------------------------------
DemoTable ==
  [threadMethod01 |-> threadMethod01, threadMethod02 |-> threadMethod02,
   threadMethod03 |-> threadMethod03, threadMethod04 |-> threadMethod04,
   threadMethod05 |-> threadMethod05, threadMethod06 |-> threadMethod06,
   threadMethod08 |-> threadMethod08, createSerialQueue |-> createSerialQueue,
   createConcurrentQueue |-> createConcurrentQueue,
   createDispatchBarrierAsync |-> createDispatchBarrierAsync,
   createDispatchNotify |-> createDispatchNotify, createDeadLock |-> createDeadLock,
   queueSetSpecificFunc |-> queueSetSpecificFunc, reentrantMethod |-> reentrantMethod,
   syncMainThread |-> syncMainThread, threadMethondOneDemo |-> threadMethondOneDemo,
   threadMethondTwoDemo |-> threadMethondTwoDemo,
   threadMethondThreeDemo |-> threadMethondThreeDemo,
   threadMethondFourDemo |-> threadMethondFourDemo,
   dispatch_semaphore |-> dispatch_semaphore, asyncConcurrent |-> asyncConcurrent,
   threadSerial |-> threadSerial, threadLifeCycleTest |-> threadLifeCycleTest,
   rw_file_method |-> rw_file_method, ReadWrite01 |-> ReadWrite01]

DemoNames == DOMAIN DemoTable
BlockNames == {"method", "b0", "b1", "b2", "b3", "b4"}
DemoCode ==
  [d \in Demos |-> [b \in BlockNames |->
     IF b \in DOMAIN DemoTable[d] THEN DemoTable[d][b] ELSE <<>>]]

-----------------------------------------------------------------------------
\* What the demos print before they end or block, as the comments at the methods
\* say it; for dispatch_semaphore, threadSerial and the two of SKGCDAdditions,
\* which have no such comment, what their statements amount to.
Commented ==
  LET One(s) == {s} IN
  [threadMethod01 |-> One(<<"1">>), threadMethod02 |-> One(<<"1", "3", "2">>),
   threadMethod03 |-> One(<<"1", "5", "2">>), threadMethod04 |-> One(<<"1", "5", "2", "3", "4">>),
   threadMethod05 |-> One(<<"1", "2", "3", "4", "5">>), threadMethod06 |-> One(<<"1", "3">>),
   threadMethod08 |-> {<<"1", "2", "3">>, <<"2", "1", "3">>},
   createSerialQueue |-> One(<<"1", "2", "3">>),
   createConcurrentQueue |-> SetToSeqs({"1", "2", "3"}),
   createDispatchBarrierAsync |-> {<<"1", "barrier", "2", "4">>, <<"1", "barrier", "4", "2">>},
   createDispatchNotify |-> {s \o <<"notify">> : s \in SetToSeqs({"1", "2", "3"})},
   createDeadLock |-> One(<<>>), queueSetSpecificFunc |-> One(<<"ha">>),
   reentrantMethod |-> One(<<"reentrant">>), syncMainThread |-> One(<<"1">>),
   threadMethondOneDemo |-> One(<<"1", "2", "3">>),
   threadMethondTwoDemo |-> {<<"1", "5", "2">>, <<"1", "2", "5">>},
   threadMethondThreeDemo |-> {<<"1", "5", "2", "3", "4">>, <<"1", "2", "5", "3", "4">>},
   threadMethondFourDemo |-> {<<"1", "4">>, <<"4", "1">>},
   dispatch_semaphore |-> One(<<"wait">>),
   asyncConcurrent |-> {<<"before", "after">> \o s : s \in SetToSeqs({"1", "2", "3"})},
   threadSerial |-> One(<<"1", "2", "3", "4">>),
   threadLifeCycleTest |-> One(<<"11111">>),
   rw_file_method |-> {s \in [1..4 -> {"read", "write"}] :
                         Cardinality({i \in 1..4 : s[i] = "read"}) = 2},
   ReadWrite01 |-> One(<<"read", "read", "write", "read", "write">>)]

\* What the five demos print whose comments are wrong.
Printed ==
  [threadMethod03 |-> {<<"1", "2">>}, threadMethod04 |-> {<<"1", "2", "3", "4", "5">>},
   createDispatchNotify |->
     {s \in SetToSeqs({"1", "2", "3", "notify"}) :
        \A i, j \in 1..4 : s[i] = "notify" /\ s[j] \in {"1", "2"} => j < i},
   asyncConcurrent |-> {<<"before">> \o s : s \in SetToSeqs({"after", "1", "2", "3"})},
   threadLifeCycleTest |-> SetToSeqs({"11111", "22222"})]
WrongComments == DOMAIN Printed

Expected == [d \in DemoNames |-> IF d \in WrongComments THEN Printed[d] ELSE Commented[d]]

\* Every demo gets to the output that is expected of it, whatever the schedule,
\* and prints nothing more, be it that it ends or that it blocks for ever: the
\* deadlocks of threadMethod01, threadMethod03, createDeadLock, syncMainThread,
\* threadMethondTwoDemo and threadMethondFourDemo included.  Expected is what the
\* comment at the method says; five comments are wrong, see OutputAsCommented.
OutputAsExpected == <>[](log \in Expected[demo])

\* What a demo has printed is how the output that the comment at its method tells
\* of begins.  The comments at SKGCDObj.m:67 and :91, SKGCDTestObj.m:105 and :109,
\* SKGCDPrintObj.m:128 and SKGCDSafeAnalysis.m:231 are wrong: threadMethod03 and
\* threadMethod04 do not print 5 before 2, task 3 of createDispatchNotify may come
\* after notify, tasks of asyncConcurrent before "after", and the second line of
\* threadLifeCycleTest is printed.
OutputAsCommented == \E s \in Commented[demo] : IsPrefix(log, s)
==============================================================================
