------------------------------- MODULE Dispatch -------------------------------
(***************************************************************************)
(* Grand Central Dispatch as the classes under Thread&Lock/GCD use it: a   *)
(* method that submits blocks to the main queue, to serial and concurrent  *)
(* queues, alone or in a group, as barriers or synchronously.  A demo is a *)
(* table of blocks, each a sequence of statements; "method" is the demo's  *)
(* method and runs on the main queue.  SKGCDDemos has the demos.           *)
(*                                                                         *)
(* A block runs one statement at a time, interleaved with the others.      *)
(* dispatch_sync waits for its block; on a queue that the caller itself    *)
(* occupies it waits for ever (libdispatch may also trap there).           *)
(***************************************************************************)
EXTENDS Naturals, Sequences, FiniteSets

CONSTANTS Demos,  \* names of the demos
          Blocks, \* names of blocks
          Code    \* the statements of each block of each demo

\* queueBonA is a serial queue with queueA as its target.
Serial == {"main", "serial", "queueA", "queueB", "queueBonA"}
Concurrent == {"concurrent", "global"}
Queues == Serial \cup Concurrent
\* A queue and the queues its blocks occupy.
Hierarchy(q) == IF q = "queueBonA" THEN {"queueBonA", "queueA"} ELSE {q}

Statement == [op : STRING, q : STRING, b : STRING]
\* The statements that name a queue and a block.
Submits == {"async", "barrier", "groupAsync", "sync", "notify"}
Submission == [op : Submits, q : Queues, b : Blocks]
NoBlock == ""

St(op, q, b) == [op |-> op, q |-> q, b |-> b]
Log(x) == St("log", "", x)
Async(q, b) == St("async", q, b)
Sync(q, b) == St("sync", q, b)
Barrier(q, b) == St("barrier", q, b)
GroupAsync(q, b) == St("groupAsync", q, b)
Notify(q, b) == St("notify", q, b)
Inline(b) == St("call", "", b)
Thread(b) == St("thread", "", b)
Do(op) == St(op, "", "")

ASSUME CodeAssumption ==
  /\ "method" \in Blocks /\ NoBlock \notin Blocks
  /\ Code \in [Demos -> [Blocks -> Seq(Statement)]]
  /\ \A d \in Demos, b \in Blocks : \A i \in 1..Len(Code[d][b]) :
       /\ Code[d][b][i].op \in Submits => Code[d][b][i] \in Submission
       /\ Code[d][b][i].op \in {"call", "thread"} => Code[d][b][i].b \in Blocks

\* The statements that make the block they name run, and the name of a block
\* stands for one of them: a block that runs twice has two names.
Starts == Submits \cup {"call", "thread"}
ASSUME OnceAssumption ==
  \A d \in Demos : \A a, b \in Blocks : \A i \in 1..Len(Code[d][a]), j \in 1..Len(Code[d][b]) :
    Code[d][a][i].op \in Starts =>
      /\ Code[d][a][i].b # "method"
      /\ Code[d][b][j].op \in Starts /\ Code[d][b][j].b = Code[d][a][i].b => a = b /\ i = j

\* A demo registers at most one block for its group.
ASSUME NotifyAssumption ==
  \A d \in Demos : \A a, b \in Blocks : \A i \in 1..Len(Code[d][a]), j \in 1..Len(Code[d][b]) :
    Code[d][a][i].op = "notify" /\ Code[d][b][j].op = "notify" => a = b /\ i = j

VARIABLES
  demo,     \* the demo that runs
  status,   \* "new", "queued", "running" or "done" for each block
  nextStmt, \* next statement of each block
  waitsFor, \* the block a synchronous call or an inline call waits for
  fifo,     \* blocks submitted to a queue and not started
  active,   \* blocks that occupy a queue
  barriers, \* blocks submitted as barriers
  group,    \* blocks of the dispatch group that are not done
  notify,   \* what dispatch_group_notify registered
  semphore, \* the semaphore of dispatch_semaphore
  readers,  \* blocks that hold the rwlock for reading
  writers,  \* blocks that hold it for writing
  log       \* output of the demo

dispatchVars == <<demo, status, nextStmt, waitsFor, fifo, active, barriers, group, notify,
                  semphore, readers, writers, log>>

DispatchInit ==
  /\ demo \in Demos
  /\ status = [b \in Blocks |-> IF b = "method" THEN "running" ELSE "new"]
  /\ nextStmt = [b \in Blocks |-> 1]
  /\ waitsFor = [b \in Blocks |-> NoBlock]
  /\ fifo = [q \in Queues |-> <<>>]
  /\ active = [q \in Queues |-> IF q = "main" THEN {"method"} ELSE {}]
  /\ barriers = {}
  /\ group = {}
  /\ notify = <<>>
  /\ semphore = 1
  /\ readers = {}
  /\ writers = {}
  /\ log = <<>>
-----------------------------------------------------------------------------
(* Statements.                                                             *)

\* b is at a statement of this kind.
At(b, ops) ==
  /\ status[b] = "running" /\ waitsFor[b] = NoBlock
  /\ nextStmt[b] <= Len(Code[demo][b])
  /\ Code[demo][b][nextStmt[b]].op \in ops

Stmt(b) == Code[demo][b][nextStmt[b]]
Advance(b) == nextStmt' = [nextStmt EXCEPT ![b] = @ + 1]
Submit(q, c) ==
  /\ status[c] = "new"
  /\ fifo' = [fifo EXCEPT ![q] = Append(@, c)]
  /\ status' = [status EXCEPT ![c] = "queued"]

\* NSLog
DoLog(b) ==
  /\ At(b, {"log"})
  /\ log' = Append(log, Stmt(b).b)
  /\ Advance(b)
  /\ UNCHANGED <<demo, status, waitsFor, fifo, active, barriers, group, notify,
                 semphore, readers, writers>>

\* dispatch_async, dispatch_barrier_async and dispatch_group_async
DispatchAsync(b) ==
  /\ At(b, {"async", "barrier", "groupAsync"})
  /\ Submit(Stmt(b).q, Stmt(b).b)
  /\ barriers' = IF Stmt(b).op = "barrier" THEN barriers \cup {Stmt(b).b} ELSE barriers
  /\ group' = IF Stmt(b).op = "groupAsync" THEN group \cup {Stmt(b).b} ELSE group
  /\ Advance(b)
  /\ UNCHANGED <<demo, waitsFor, active, notify, semphore, readers, writers, log>>

\* dispatch_sync
DispatchSync(b) ==
  /\ At(b, {"sync"})
  /\ Submit(Stmt(b).q, Stmt(b).b)
  /\ waitsFor' = [waitsFor EXCEPT ![b] = Stmt(b).b]
  /\ UNCHANGED <<demo, nextStmt, active, barriers, group, notify, semphore, readers,
                 writers, log>>

\* A block called in place (it occupies no queue of its own), or the body of a
\* thread that is started.
CallBlock(b) ==
  /\ At(b, {"call", "thread"})
  /\ status' = [status EXCEPT ![Stmt(b).b] = "running"]
  /\ \/ /\ Stmt(b).op = "call"
        /\ waitsFor' = [waitsFor EXCEPT ![b] = Stmt(b).b]
        /\ UNCHANGED nextStmt
     \/ /\ Stmt(b).op = "thread"
        /\ Advance(b)
        /\ UNCHANGED waitsFor
  /\ UNCHANGED <<demo, fifo, active, barriers, group, notify, semphore, readers,
                 writers, log>>

\* The synchronous call returns.
Return(b) ==
  /\ waitsFor[b] # NoBlock
  /\ status[waitsFor[b]] = "done"
  /\ waitsFor' = [waitsFor EXCEPT ![b] = NoBlock]
  /\ Advance(b)
  /\ UNCHANGED <<demo, status, fifo, active, barriers, group, notify, semphore,
                 readers, writers, log>>

\* dispatch_group_notify: at once when the group is empty
DispatchGroupNotify(b) ==
  /\ At(b, {"notify"})
  /\ \/ group = {} /\ Submit(Stmt(b).q, Stmt(b).b) /\ UNCHANGED notify
     \/ group # {} /\ notify' = Append(notify, Stmt(b)) /\ UNCHANGED <<fifo, status>>
  /\ Advance(b)
  /\ UNCHANGED <<demo, waitsFor, active, barriers, group, semphore, readers, writers, log>>

DispatchSemaphore(b) ==
  /\ At(b, {"wait", "signal"})
  /\ \/ Stmt(b).op = "wait" /\ semphore > 0 /\ semphore' = semphore - 1
     \/ Stmt(b).op = "signal" /\ semphore' = semphore + 1
  /\ Advance(b)
  /\ UNCHANGED <<demo, status, waitsFor, fifo, active, barriers, group, notify,
                 readers, writers, log>>

\* pthread_rwlock_rdlock, pthread_rwlock_wrlock and pthread_rwlock_unlock
PthreadRWLock(b) ==
  /\ At(b, {"rdlock", "wrlock", "unlock"})
  /\ \/ /\ Stmt(b).op = "rdlock" /\ writers = {}
        /\ readers' = readers \cup {b} /\ UNCHANGED writers
     \/ /\ Stmt(b).op = "wrlock" /\ readers = {} /\ writers = {}
        /\ writers' = {b} /\ UNCHANGED readers
     \/ /\ Stmt(b).op = "unlock"
        /\ readers' = readers \ {b} /\ writers' = writers \ {b}
  /\ Advance(b)
  /\ UNCHANGED <<demo, status, waitsFor, fifo, active, barriers, group, notify,
                 semphore, log>>
-----------------------------------------------------------------------------
(* The queues.                                                             *)

\* The first block of q may start: a serial queue and the queues it targets
\* must be free; on a concurrent queue a barrier must be alone (on a global
\* queue it is an ordinary block).
MayStart(q) ==
  /\ fifo[q] # <<>>
  /\ \/ q \in Serial /\ \A h \in Hierarchy(q) : active[h] = {}
     \/ q = "global"
     \/ /\ q = "concurrent"
        /\ active[q] \cap barriers = {}
        /\ Head(fifo[q]) \in barriers => active[q] = {}

StartBlock(q) ==
  /\ MayStart(q)
  /\ LET c == Head(fifo[q]) IN
       /\ fifo' = [fifo EXCEPT ![q] = Tail(@)]
       /\ active' = [h \in Queues |-> active[h] \cup IF h \in Hierarchy(q) THEN {c} ELSE {}]
       /\ status' = [status EXCEPT ![c] = "running"]
  /\ UNCHANGED <<demo, nextStmt, waitsFor, barriers, group, notify, semphore, readers,
                 writers, log>>

\* A block ends; the last one of the group submits the block that waits for the
\* group.
Finish(b) ==
  /\ status[b] = "running" /\ waitsFor[b] = NoBlock
  /\ nextStmt[b] > Len(Code[demo][b])
  /\ active' = [q \in Queues |-> active[q] \ {b}]
  /\ group' = group \ {b}
  /\ \/ /\ group' = {} /\ notify # <<>>
        /\ fifo' = [fifo EXCEPT ![notify[1].q] = Append(@, notify[1].b)]
        /\ status' = [status EXCEPT ![b] = "done", ![notify[1].b] = "queued"]
        /\ notify' = Tail(notify)
     \/ /\ group' # {} \/ notify = <<>>
        /\ status' = [status EXCEPT ![b] = "done"]
        /\ UNCHANGED <<fifo, notify>>
  /\ UNCHANGED <<demo, nextStmt, waitsFor, barriers, semphore, readers, writers, log>>

DispatchNext ==
  \/ \E b \in Blocks : \/ DoLog(b) \/ DispatchAsync(b) \/ DispatchSync(b) \/ CallBlock(b)
                       \/ Return(b) \/ DispatchGroupNotify(b) \/ DispatchSemaphore(b)
                       \/ PthreadRWLock(b) \/ Finish(b)
  \/ \E q \in Queues : StartBlock(q)

DispatchSpec == DispatchInit /\ [][DispatchNext]_dispatchVars

\* Threads and queues are served.
FairDispatch == DispatchSpec /\ WF_dispatchVars(DispatchNext)
-----------------------------------------------------------------------------
\* The values of the variables.
DispatchTypeOK ==
  /\ demo \in Demos
  /\ status \in [Blocks -> {"new", "queued", "running", "done"}]
  /\ nextStmt \in [Blocks -> Nat \ {0}]
  /\ waitsFor \in [Blocks -> Blocks \cup {NoBlock}]
  /\ fifo \in [Queues -> Seq(Blocks)]
  /\ active \in [Queues -> SUBSET Blocks]
  /\ barriers \subseteq Blocks /\ group \subseteq Blocks
  /\ notify \in Seq(Submission)
  /\ semphore \in Nat
  /\ readers \subseteq Blocks /\ writers \subseteq Blocks
  /\ log \in Seq(STRING)

\* Every block of S waits for one of S, or for a block that is queued on a
\* serial queue which a block of S occupies.
Stuck(S) ==
  \A b \in S :
    /\ waitsFor[b] # NoBlock
    /\ \/ waitsFor[b] \in S
       \/ \E q \in Serial : /\ \E i \in 1..Len(fifo[q]) : fifo[q][i] = waitsFor[b]
                            /\ \E h \in Hierarchy(q) : active[h] \cap S # {}

\* The deadlocks of threadMethod01, threadMethod03, createDeadLock,
\* syncMainThread and threadMethondTwoDemo: dispatch_sync onto a serial queue
\* that the caller occupies is stuck, and blocks that are stuck stay so.
StuckForEver ==
  [][/\ \A S \in SUBSET Blocks : Stuck(S) => Stuck(S)'
     /\ \A b \in Blocks :
          (/\ DispatchSync(b) /\ Stmt(b).q \in Serial
           /\ \E h \in Hierarchy(Stmt(b).q) : b \in active[h]) => Stuck({b})']_dispatchVars
=============================================================================
