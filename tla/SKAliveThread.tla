---------------------------- MODULE SKAliveThread ----------------------------
(***************************************************************************)
(* Threads kept alive by a run loop, and callers that perform selectors on *)
(* them with waitUntilDone:YES.  The variants are the thread bodies of the *)
(* program: SKAliveThread's init and initWithCLau                          *)
(* (RunLoop/Class/SKAliveThread.m) and threadMethod07 of                   *)
(* Thread&Lock/GCD/SKGCDObj.m.  They differ in the mode they run the loop  *)
(* in and in whether they run it again after it returned.                  *)
(*                                                                         *)
(* The run loop is CFRunLoop: running it in a mode it has no entry for, as *)
(* the pseudo mode of the common modes, returns at once; otherwise it      *)
(* sleeps until it handled one source, or was stopped.                     *)
(***************************************************************************)
EXTENDS Naturals, Sequences

CONSTANTS Callers,  \* the threads that use the object
          MaxCalls  \* bound on the calls of one caller

ASSUME AliveAssumption == MaxCalls \in Nat

VARIABLES
  variant,      \* the thread body
  nsThread,     \* state of the NSThread: "new", "started", "finished"
  at,           \* where the thread body is: "begin", "check", "run", "end"
  modes,        \* the modes the run loop has, each with the number of its ports
  currenThread, \* is the property currenThread set
  stopped,      \* the property stopped
  performs,     \* selectors waiting for the run loop (modes: common)
  pc,           \* "idle", "waiting" for a perform, or "raised" an exception
  calls,        \* calls made by each caller
  performed     \* number of selectors the thread performed

vars == <<variant, nsThread, at, modes, currenThread, stopped, performs, pc,
          calls, performed>>

Variants == {"init", "initWithCLau", "threadMethod07"}

\* Mutant: threadMethod07 runs the common modes, too.
ModeAlwaysCommon(v) == "common"

\* The mode passed to runMode:beforeDate: or CFRunLoopRunInMode, and to addPort.
Mode(v) == IF v = "threadMethod07" THEN "default" ELSE "common"
\* Whether the body runs the loop again while (weakSelf && !weakSelf.stopped).
Repeats(v) == v = "init"

Init ==
  /\ variant \in Variants
  /\ nsThread = "new"
  /\ at = "begin"
  /\ modes = [m \in {"default"} |-> 0]
  /\ currenThread = TRUE
  /\ stopped = FALSE
  /\ performs = <<>>
  /\ pc = [c \in Callers |-> "idle"]
  /\ calls = [c \in Callers |-> 0]
  /\ performed = 0
-----------------------------------------------------------------------------
(* The callers.                                                            *)

Calling(c) ==
  /\ pc[c] = "idle"
  /\ calls[c] < MaxCalls
  /\ calls' = [calls EXCEPT ![c] = @ + 1]

\* run: an NSThread that was started before raises an exception.
Run(c) ==
  /\ Calling(c)
  /\ variant = "threadMethod07" => nsThread = "new"
  /\ currenThread
  /\ \/ /\ nsThread = "new"
        /\ nsThread' = "started"
        /\ UNCHANGED pc
     \/ /\ nsThread # "new"
        /\ pc' = [pc EXCEPT ![c] = "raised"]
        /\ UNCHANGED nsThread
  /\ UNCHANGED <<variant, at, modes, currenThread, stopped, performs, performed>>

\* performSelector:onThread:withObject:waitUntilDone:YES, which raises when the
\* thread has exited.
Perform(c, selector) ==
  \/ /\ nsThread # "finished"
     /\ performs' = Append(performs, [caller |-> c, selector |-> selector])
     /\ pc' = [pc EXCEPT ![c] = "waiting"]
  \/ /\ nsThread = "finished"
     /\ pc' = [pc EXCEPT ![c] = "raised"]
     /\ UNCHANGED performs

\* executeTaskWithBlock:.  threadMethod07 performs additionMethod, once, in the
\* caller that started the thread.
ExecuteTaskWithBlock(c) ==
  /\ Calling(c)
  /\ variant = "threadMethod07" => calls[c] = 1
  /\ currenThread
  /\ Perform(c, "__excuteTask")
  /\ UNCHANGED <<variant, nsThread, at, modes, currenThread, stopped, performed>>

Stop(c) ==
  /\ variant # "threadMethod07"
  /\ Calling(c)
  /\ currenThread
  /\ Perform(c, "__stop")
  /\ UNCHANGED <<variant, nsThread, at, modes, currenThread, stopped, performed>>
-----------------------------------------------------------------------------
(* The thread.                                                             *)

\* addPort:forMode: or CFRunLoopAddSource; the common modes are {default}.
AddPort ==
  /\ nsThread = "started" /\ at = "begin"
  /\ modes' = [modes EXCEPT !["default"] = @ + 1]
  /\ at' = "check"
  /\ UNCHANGED <<variant, nsThread, currenThread, stopped, performs, pc, calls, performed>>

\* Where the body goes on when the run loop returned.
AfterRun == IF Repeats(variant) THEN "check" ELSE "end"

\* __CFRunLoopFindMode(rl, modeName, false) and the check for an empty mode
FindMode(m) == m \in DOMAIN modes /\ modes[m] > 0

\* Enter the run loop, or return from it at once; init's body first tests
\* stopped (the block holds self, so weakSelf is never nil here).
RunMode ==
  /\ nsThread = "started" /\ at = "check"
  /\ at' = CASE Repeats(variant) /\ stopped -> "end"
             [] ~(Repeats(variant) /\ stopped) /\ FindMode(Mode(variant)) -> "run"
             [] OTHER -> AfterRun
  /\ UNCHANGED <<variant, nsThread, modes, currenThread, stopped, performs, pc, calls, performed>>

\* The run loop handles one source: the selector is performed, its caller goes
\* on, and the run loop returns.  __stop sets stopped, stops the run loop and
\* clears currenThread.
HandlePerform ==
  /\ nsThread = "started" /\ at = "run"
  /\ performs # <<>>
  /\ performs' = Tail(performs)
  /\ performed' = performed + 1
  /\ pc' = [pc EXCEPT ![Head(performs).caller] = "idle"]
  /\ stopped' = (stopped \/ Head(performs).selector = "__stop")
  /\ currenThread' = (currenThread /\ Head(performs).selector # "__stop")
  /\ at' = AfterRun
  /\ UNCHANGED <<variant, nsThread, modes, calls>>

\* Mutant: the waiting callers are forgotten.
ExitForgetsWaiters ==
  /\ nsThread = "started" /\ at = "end"
  /\ nsThread' = "finished"
  /\ performs' = <<>>
  /\ UNCHANGED <<variant, at, modes, currenThread, stopped, pc, calls, performed>>

\* The body returns.  Callers still waiting get the exception "target thread
\* exited while waiting for the perform".
Exit ==
  /\ nsThread = "started" /\ at = "end"
  /\ nsThread' = "finished"
  /\ pc' = [c \in Callers |-> IF pc[c] = "waiting" THEN "raised" ELSE pc[c]]
  /\ performs' = <<>>
  /\ UNCHANGED <<variant, at, modes, currenThread, stopped, calls, performed>>

ThreadStep == AddPort \/ RunMode \/ HandlePerform \/ Exit

Next ==
  \/ \E c \in Callers : Run(c) \/ ExecuteTaskWithBlock(c) \/ Stop(c)
  \/ ThreadStep

Spec == Init /\ [][Next]_vars

\* A started thread is scheduled; callers need not call.
FairSpec == Spec /\ WF_vars(ThreadStep)
-----------------------------------------------------------------------------
\* The values of the variables.
TypeOK ==
  /\ variant \in Variants
  /\ nsThread \in {"new", "started", "finished"}
  /\ at \in {"begin", "check", "run", "end"}
  /\ modes \in [{"default"} -> Nat]
  /\ currenThread \in BOOLEAN /\ stopped \in BOOLEAN
  /\ performs \in Seq([caller : Callers, selector : {"__excuteTask", "__stop"}])
  /\ pc \in [Callers -> {"idle", "waiting", "raised"}]
  /\ calls \in [Callers -> 0..MaxCalls]
  /\ performed \in Nat

\* Both bodies of SKAliveThread run the loop in NSRunLoopCommonModes, so no
\* selector is ever performed there and neither stopped nor currenThread changes.
CommonModesNeverServe ==
  Mode(variant) = "common" => performed = 0 /\ ~stopped /\ currenThread

\* A caller that waits has its selector queued on a thread that is not over: no
\* waiter is forgotten when the thread body returns.
WaitersQueued ==
  \A c \in Callers : pc[c] = "waiting" <=>
    \E i \in DOMAIN performs : performs[i].caller = c

\* "The current thread executes a task" and "end a thread" (SKAliveThread.h:22 and
\* :27, on executeTaskWithBlock: and stop): a caller that gave a selector to a
\* thread of SKAliveThread goes on once the thread, which was started, has
\* performed it.  It does not: see WaitOutcome.
CallsServed ==
  \A c \in Callers :
    (variant # "threadMethod07" /\ nsThread = "started" /\ pc[c] = "waiting") ~> (pc[c] = "idle")

\* How a wait for the thread may end: for the body of init it never does, for
\* that of initWithCLau by an exception only, and for threadMethod07 only when
\* the one selector was performed ("prints 1 2", its comment).  The first two
\* contradict the header, see CallsServed.
WaitOutcome ==
  [][\A c \in Callers : pc[c] = "waiting" /\ pc'[c] # "waiting" =>
       \/ variant = "initWithCLau" /\ pc'[c] = "raised"
       \/ variant = "threadMethod07" /\ pc'[c] = "idle" /\ performed' = 1]_vars

\* A caller that waits for a thread that can answer is let go: for
\* threadMethod07, with a port in the default mode, the thread
\* lives until the selector was performed; the body of initWithCLau returns at
\* once, and a wait for its thread ends with an exception.
WaitsEnd ==
  \A c \in Callers :
    /\ (variant = "threadMethod07" /\ pc[c] = "waiting")
         ~> (performed = 1 /\ pc[c] = "idle")
    /\ (variant = "initWithCLau" /\ nsThread = "started" /\ pc[c] = "waiting")
         ~> (pc[c] = "raised")
=============================================================================
