---------------------------- MODULE RunLoopProofs ----------------------------
(***************************************************************************)
(* Proofs about the components built on run loops: SKAliveThread, for any  *)
(* number of callers and calls; LXDAppFluecyMonitor, for any number of     *)
(* starts, any count of misses and any bound on the signals; and the       *)
(* screen SKRunloopVC, which never makes SKTimerTest reuse an identifier,  *)
(* for any number of timers and of instances of the screen.                *)
(***************************************************************************)
EXTENDS SKRunloopVC, SKAliveThread, LXDAppFluecyMonitor, TLAPS

\* A leaf that names no prover is tried with SMT, with Zenon, and at length with
\* SMT again.
USE SMT, Zenon, SMTT(30)

\* What is left of a queue when its first element is taken off.
LEMMA TailElements ==
  ASSUME NEW S, NEW s \in Seq(S), s # <<>>
  PROVE  /\ Head(s) \in S /\ Tail(s) \in Seq(S) /\ Len(Tail(s)) = Len(s) - 1
         /\ \A i \in 1..Len(Tail(s)) : Tail(s)[i] = s[i + 1]
OBVIOUS

-----------------------------------------------------------------------------
(* SKAliveThread                                                           *)

\* The thread never gets into the run loop of the common modes, and a selector
\* that waits to be performed has a caller of its own, who waits for it.
AliveInv ==
  /\ TypeOK /\ CommonModesNeverServe /\ WaitersQueued
  /\ Mode(variant) = "common" => at # "run"
  /\ \A i, j \in DOMAIN performs : performs[i].caller = performs[j].caller => i = j

Performs == [caller : Callers, selector : {"__excuteTask", "__stop"}]

\* executeTaskWithBlock: and stop queue a selector of a caller that has none in
\* the queue, or raise.
LEMMA PerformKeeps ==
  ASSUME AliveInv, NEW c \in Callers, Calling(c), NEW s \in {"__excuteTask", "__stop"}, Perform(c, s),
         UNCHANGED <<variant, nsThread, at, modes, currenThread, stopped, performed>>
  PROVE  AliveInv'
<1> USE DEF AliveInv
<1>1. pc[c] = "idle" /\ calls' \in [Callers -> 0..MaxCalls]
  BY AliveAssumption DEF Calling, TypeOK
<1>2. CASE nsThread = "finished"
  <2>1. performs' = performs /\ pc' = [pc EXCEPT ![c] = "raised"]
    BY <1>2 DEF Perform
  <2> QED
    BY <1>1, <2>1 DEF TypeOK, CommonModesNeverServe, WaitersQueued, Mode
<1>3. CASE nsThread # "finished"
  <2> DEFINE e == [caller |-> c, selector |-> s]
  <2>1. performs' = Append(performs, e) /\ pc' = [pc EXCEPT ![c] = "waiting"]
    BY <1>3 DEF Perform
  <2>2. performs \in Seq(Performs) /\ e \in Performs
    BY DEF TypeOK, Performs
  <2>3. /\ performs' \in Seq(Performs) /\ DOMAIN performs' = 1..(Len(performs) + 1)
        /\ DOMAIN performs = 1..Len(performs) /\ Len(performs) \in Nat
        /\ performs'[Len(performs) + 1] = e
        /\ \A i \in 1..Len(performs) : performs'[i] = performs[i]
    BY <2>1, <2>2
  <2>4. \A i \in DOMAIN performs : performs[i].caller # c
    BY <1>1 DEF WaitersQueued
  <2>5. e.caller = c
    OBVIOUS
  <2> HIDE DEF e
  <2>6. WaitersQueued'
    <3> SUFFICES ASSUME NEW d \in Callers
                 PROVE  pc'[d] = "waiting" <=> \E i \in DOMAIN performs' : performs'[i].caller = d
      BY DEF WaitersQueued
    <3>1. CASE d = c
      <4>1. pc'[d] = "waiting" /\ Len(performs) + 1 \in DOMAIN performs'
        BY <2>1, <2>3, <3>1 DEF TypeOK
      <4> QED
        BY <2>3, <2>5, <3>1, <4>1
    <3>2. CASE d # c
      <4>1. pc'[d] = pc[d]
        BY <2>1, <3>2 DEF TypeOK
      <4>2. (\E i \in DOMAIN performs' : performs'[i].caller = d)
              <=> \E i \in DOMAIN performs : performs[i].caller = d
        BY <2>3, <2>5, <3>2
      <4> QED
        BY <4>1, <4>2 DEF WaitersQueued
    <3> QED
      BY <3>1, <3>2
  <2>7. \A i, j \in DOMAIN performs' : performs'[i].caller = performs'[j].caller => i = j
    BY <2>3, <2>4, <2>5
  <2>8. TypeOK'
    BY <1>1, <2>1, <2>3 DEF TypeOK, Performs
  <2> QED
    BY <2>6, <2>7, <2>8 DEF CommonModesNeverServe, Mode
<1> QED
  BY <1>2, <1>3

\* The run loop performs the first selector and lets its caller, and no other, go.
LEMMA HandlePerformKeeps == ASSUME AliveInv, HandlePerform PROVE AliveInv'
<1> USE DEF AliveInv
<1> DEFINE h == Head(performs)
<1>1. performs \in Seq(Performs) /\ performs # <<>>
  BY DEF HandlePerform, TypeOK, Performs
<1>2. /\ h = performs[1] /\ h \in Performs
      /\ performs' \in Seq(Performs) /\ DOMAIN performs' = 1..(Len(performs) - 1)
      /\ DOMAIN performs = 1..Len(performs) /\ Len(performs) \in Nat \ {0}
      /\ \A i \in 1..(Len(performs) - 1) : performs'[i] = performs[i + 1]
  <2>1. performs' = Tail(performs)
    BY DEF HandlePerform
  <2>2. Len(performs) \in Nat \ {0} /\ DOMAIN performs = 1..Len(performs) /\ performs[1] \in Performs
    BY <1>1
  <2> QED
    BY <1>1, <2>1, <2>2, TailElements
<1>3. h.caller \in Callers /\ pc' = [pc EXCEPT ![h.caller] = "idle"]
  BY <1>2 DEF HandlePerform, Performs
<1> HIDE DEF h
<1>4. WaitersQueued'
  <2> SUFFICES ASSUME NEW d \in Callers
               PROVE  pc'[d] = "waiting" <=> \E i \in DOMAIN performs' : performs'[i].caller = d
    BY DEF WaitersQueued
  <2>1. CASE d = h.caller
    <3>1. pc'[d] = "idle"
      BY <1>3, <2>1 DEF TypeOK
    <3>2. \A i \in 1..(Len(performs) - 1) : performs[i + 1].caller # performs[1].caller
      BY <1>2
    <3> QED
      BY <1>2, <2>1, <3>1, <3>2
  <2>2. CASE d # h.caller
    <3>1. pc'[d] = pc[d]
      BY <1>3, <2>2 DEF TypeOK
    <3>2. ASSUME NEW i \in DOMAIN performs, performs[i].caller = d
          PROVE  \E j \in DOMAIN performs' : performs'[j].caller = d
      <4>0. i # 1 /\ i \in 1..Len(performs) /\ Len(performs) \in Nat
        BY <1>2, <2>2, <3>2
      <4>1. i - 1 \in 1..(Len(performs) - 1) /\ (i - 1) + 1 = i
        BY <4>0
      <4>2. performs'[i - 1] = performs[i]
        BY <1>2, <4>1
      <4>3. i - 1 \in DOMAIN performs' /\ performs'[i - 1].caller = d
        BY <1>2, <3>2, <4>1, <4>2
      <4> QED
        BY <4>3, Zenon
    <3>3. ASSUME NEW j \in DOMAIN performs', performs'[j].caller = d
          PROVE  \E i \in DOMAIN performs : performs[i].caller = d
      <4>1. j + 1 \in DOMAIN performs
        BY <1>2
      <4> QED
        BY <1>2, <3>3, <4>1
    <3> QED
      BY <3>1, <3>2, <3>3 DEF WaitersQueued
  <2> QED
    BY <2>1, <2>2
<1>5. \A i, j \in DOMAIN performs' : performs'[i].caller = performs'[j].caller => i = j
  <2> SUFFICES ASSUME NEW i \in DOMAIN performs', NEW j \in DOMAIN performs',
                      performs'[i].caller = performs'[j].caller
               PROVE  i = j
    OBVIOUS
  <2>1. /\ i + 1 \in DOMAIN performs /\ j + 1 \in DOMAIN performs
        /\ performs'[i] = performs[i + 1] /\ performs'[j] = performs[j + 1]
    BY <1>2
  <2>2. i + 1 = j + 1
    BY <2>1
  <2> QED
    BY <1>2, <2>2
<1>6. at' \in {"check", "end"} /\ Mode(variant) # "common"
  BY DEF HandlePerform, AfterRun
<1>7. stopped' \in BOOLEAN /\ currenThread' \in BOOLEAN
  BY Zenon DEF HandlePerform
<1>8. TypeOK'
  BY <1>2, <1>3, <1>6, <1>7 DEF HandlePerform, TypeOK, Performs
<1> QED
  BY <1>4, <1>5, <1>6, <1>8 DEF HandlePerform, CommonModesNeverServe, Mode

\* Every step of the callers and of the thread keeps the invariant.
LEMMA AliveStep == AliveInv /\ [Next]_vars => AliveInv'
<1> SUFFICES ASSUME AliveInv, [Next]_vars PROVE AliveInv'
  OBVIOUS
<1> USE DEF AliveInv
<1>1. ASSUME NEW c \in Callers, Run(c) PROVE AliveInv'
  <2>1. calls' \in [Callers -> 0..MaxCalls] /\ pc[c] = "idle"
    BY <1>1, AliveAssumption DEF Run, Calling, TypeOK
  <2>2. /\ UNCHANGED <<variant, at, modes, currenThread, stopped, performs, performed>>
        /\ nsThread' \in {"started", nsThread} /\ pc' \in {pc, [pc EXCEPT ![c] = "raised"]}
    BY <1>1 DEF Run
  <2>3. TypeOK'
    BY <2>1, <2>2, Zenon DEF TypeOK
  <2>4. WaitersQueued'
    BY <2>1, <2>2 DEF TypeOK, WaitersQueued
  <2> QED
    BY <2>2, <2>3, <2>4 DEF CommonModesNeverServe, Mode
<1>2. ASSUME NEW c \in Callers, ExecuteTaskWithBlock(c) \/ Stop(c) PROVE AliveInv'
  BY <1>2, PerformKeeps DEF ExecuteTaskWithBlock, Stop
<1>3. CASE AddPort
  BY <1>3 DEF AddPort, TypeOK, CommonModesNeverServe, WaitersQueued, Mode
<1>4. CASE RunMode
  <2>1. Mode(variant) = "common" => ~FindMode(Mode(variant))
    BY DEF FindMode, TypeOK
  <2>2. at' \in {"check", "run", "end"} /\ (Mode(variant) = "common" => at' # "run")
    BY <1>4, <2>1 DEF RunMode, AfterRun
  <2> QED
    BY <1>4, <2>2 DEF RunMode, TypeOK, CommonModesNeverServe, WaitersQueued, Mode
<1>5. CASE HandlePerform
  BY <1>5, HandlePerformKeeps
<1>6. CASE Exit
  <2>1. performs' = <<>> /\ \A c \in Callers : pc'[c] # "waiting"
    BY <1>6 DEF Exit, TypeOK
  <2> QED
    BY <1>6, <2>1 DEF Exit, TypeOK, CommonModesNeverServe, WaitersQueued, Mode
<1>7. CASE UNCHANGED vars
  BY <1>7 DEF vars, TypeOK, CommonModesNeverServe, WaitersQueued, Mode
<1> QED
  BY <1>1, <1>2, <1>3, <1>4, <1>5, <1>6, <1>7 DEF Next, ThreadStep

LEMMA AliveInvariant == Spec => []AliveInv
<1>1. Init => AliveInv
  <2> SUFFICES ASSUME Init PROVE AliveInv
    OBVIOUS
  <2>1. currenThread \in BOOLEAN /\ stopped \in BOOLEAN /\ ~stopped /\ currenThread
    BY Zenon DEF Init
  <2>2. TypeOK
    BY <2>1, AliveAssumption DEF Init, TypeOK
  <2> QED
    BY <2>1, <2>2 DEF Init, AliveInv, CommonModesNeverServe, WaitersQueued
<1> QED
  BY <1>1, AliveStep, PTL DEF Spec

\* For any callers and any number of calls, the thread, its run loop and the
\* callers keep to their types; the run loop never gets a mode but the default one.
THEOREM AliveTyped == Spec => []TypeOK
BY AliveInvariant, PTL DEF AliveInv

\* For any callers, a thread body that runs the loop in NSRunLoopCommonModes never
\* performs a selector, so that stop has no effect.
THEOREM NeverServesCommonModes == Spec => []CommonModesNeverServe
BY AliveInvariant, PTL DEF AliveInv

\* For any callers, exactly those wait whose selector is queued: none is forgotten
\* when the thread ends, and none is let go before its selector was performed.
THEOREM WaitersAlwaysQueued == Spec => []WaitersQueued
BY AliveInvariant, PTL DEF AliveInv
-----------------------------------------------------------------------------
\* What each thread body makes of the calls: the one of init never returns; under
\* threadMethod07 only the caller that started the thread gives it a selector,
\* one, the port keeps the run loop going until then, and the body is over
\* exactly when the selector was performed.
BodyInv ==
  /\ variant = "init" => nsThread # "finished" /\ at # "end"
  /\ nsThread = "finished" => at = "end"
  /\ variant = "threadMethod07" =>
       /\ at \in {"check", "run"} => modes["default"] > 0
       /\ at = "end" <=> performed = 1
       /\ nsThread = "new" => performed = 0 /\ performs = <<>> /\ \A c \in Callers : calls[c] = 0
       /\ nsThread # "new" =>
            \E d \in Callers :
              /\ \A c \in Callers \ {d} : calls[c] = 0
              /\ \/ calls[d] = 1 /\ performed = 0 /\ performs = <<>>
                 \/ calls[d] = 2 /\ performed + Len(performs) = 1

\* Every step keeps BodyInv.
LEMMA BodyStep == AliveInv /\ BodyInv /\ [Next]_vars => BodyInv'
<1> SUFFICES ASSUME AliveInv, BodyInv, [Next]_vars PROVE BodyInv'
  OBVIOUS
<1>0. TypeOK /\ performs \in Seq(Performs)
  BY DEF AliveInv, TypeOK, Performs
<1>1. ASSUME NEW c \in Callers, Run(c) PROVE BodyInv'
  <2>1. /\ UNCHANGED <<variant, at, modes, performs, performed>>
        /\ nsThread' # "finished" \/ nsThread' = nsThread
        /\ calls' = [calls EXCEPT ![c] = @ + 1]
        /\ variant = "threadMethod07" => nsThread = "new" /\ nsThread' = "started"
        /\ nsThread' # "new"
    BY <1>1 DEF Run, Calling
  <2>2. ASSUME variant = "threadMethod07"
        PROVE  /\ \A d \in Callers \ {c} : calls'[d] = 0
               /\ calls'[c] = 1 /\ performed' = 0 /\ performs' = <<>>
    BY <1>0, <2>1, <2>2 DEF BodyInv, TypeOK
  <2> QED
    BY <2>1, <2>2 DEF BodyInv
<1>2. ASSUME NEW c \in Callers, ExecuteTaskWithBlock(c) PROVE BodyInv'
  <2>1. /\ UNCHANGED <<variant, nsThread, at, modes, performed>>
        /\ calls' = [calls EXCEPT ![c] = @ + 1]
        /\ variant = "threadMethod07" => calls[c] = 1
        /\ Perform(c, "__excuteTask")
    BY <1>2 DEF ExecuteTaskWithBlock, Calling
  <2>2. ASSUME variant = "threadMethod07"
        PROVE  /\ nsThread # "new" /\ \A d \in Callers \ {c} : calls'[d] = 0
               /\ calls'[c] = 2 /\ performed' + Len(performs') = 1
    <3>1. nsThread # "new"
      BY <2>1, <2>2 DEF BodyInv
    <3>2. performed = 0 /\ performs = <<>> /\ \A d \in Callers \ {c} : calls[d] = 0
      BY <2>1, <2>2, <3>1 DEF BodyInv
    <3>3. nsThread # "finished"
      BY <2>2, <3>2 DEF BodyInv
    <3>4. Len(performs') = 1
      BY <2>1, <3>2, <3>3 DEF Perform
    <3> QED
      BY <1>0, <2>1, <2>2, <3>1, <3>2, <3>4 DEF TypeOK
  <2> QED
    BY <2>1, <2>2 DEF BodyInv
<1>3. ASSUME NEW c \in Callers, Stop(c) PROVE BodyInv'
  BY <1>3 DEF Stop, BodyInv
<1>4. CASE AddPort
  <2>1. modes'["default"] > 0
    BY <1>0, <1>4 DEF AddPort, TypeOK
  <2> QED
    BY <1>4, <2>1 DEF AddPort, BodyInv
<1>5. CASE RunMode
  <2>1. variant = "init" => at' # "end"
    BY <1>5 DEF RunMode, AfterRun, Repeats, AliveInv, CommonModesNeverServe, Mode
  <2>2. ASSUME variant = "threadMethod07" PROVE at' = "run" /\ at = "check" /\ modes["default"] > 0
    <3>1. ~Repeats(variant) /\ at = "check" /\ modes["default"] > 0
      BY <1>5, <2>2 DEF RunMode, Repeats, BodyInv
    <3>2. FindMode(Mode(variant))
      BY <1>0, <2>2, <3>1 DEF FindMode, Mode, TypeOK
    <3> QED
      BY <1>5, <3>1, <3>2 DEF RunMode
  <2>3. nsThread = "started" /\ UNCHANGED <<variant, nsThread, modes, performs, calls, performed>>
    BY <1>5 DEF RunMode
  <2> QED
    BY <2>1, <2>2, <2>3 DEF BodyInv
<1>6. CASE HandlePerform
  <2>1. /\ variant = "threadMethod07" /\ nsThread = "started" /\ at' = "end"
        /\ performs # <<>> /\ performs' = Tail(performs) /\ performed' = performed + 1
        /\ UNCHANGED <<variant, nsThread, modes, calls>>
    BY <1>6, <1>0 DEF HandlePerform, AfterRun, Repeats, AliveInv, TypeOK, Variants, Mode
  <2>2. PICK d \in Callers :
          /\ \A c \in Callers \ {d} : calls[c] = 0
          /\ calls[d] = 2 /\ performed + Len(performs) = 1
    BY <2>1 DEF BodyInv
  <2>3. Len(performs) \in Nat \ {0} /\ performed \in Nat /\ Len(performs') = Len(performs) - 1
    BY <1>0, <2>1, TailElements DEF TypeOK
  <2>4. performed' = 1 /\ performed' + Len(performs') = 1
    BY <2>1, <2>2, <2>3
  <2> QED
    BY <2>1, <2>2, <2>4 DEF BodyInv
<1>7. CASE Exit
  <2>1. variant # "init" /\ nsThread' = "finished" /\ at = "end" /\ nsThread = "started" /\ performs' = <<>>
        /\ UNCHANGED <<variant, at, modes, calls, performed>>
    BY <1>7 DEF Exit, BodyInv
  <2>2. ASSUME variant = "threadMethod07"
        PROVE  performed = 1 /\ \E d \in Callers :
                  (\A c \in Callers \ {d} : calls[c] = 0) /\ calls[d] = 2
    BY <2>1, <2>2 DEF BodyInv
  <2>3. Len(performs') = 0
    BY <2>1
  <2> QED
    BY <2>1, <2>2, <2>3 DEF BodyInv
<1>8. CASE UNCHANGED vars
  BY <1>8 DEF vars, BodyInv
<1> QED
  BY <1>1, <1>2, <1>3, <1>4, <1>5, <1>6, <1>7, <1>8 DEF Next, ThreadStep

\* A step lets a caller go that waits only as WaitOutcome says.
LEMMA WaitStep ==
  ASSUME AliveInv, BodyInv, [Next]_vars, NEW c \in Callers, pc[c] = "waiting", pc'[c] # "waiting"
  PROVE  \/ variant = "initWithCLau" /\ pc'[c] = "raised"
         \/ variant = "threadMethod07" /\ pc'[c] = "idle" /\ performed' = 1
<1>0. TypeOK /\ performs \in Seq(Performs)
  BY DEF AliveInv, TypeOK, Performs
<1>1. ASSUME NEW d \in Callers, Run(d) \/ ExecuteTaskWithBlock(d) \/ Stop(d) PROVE FALSE
  <2>1. pc[d] = "idle"
    BY <1>1 DEF Run, ExecuteTaskWithBlock, Stop, Calling
  <2>2. pc' = pc \/ \E v \in {"waiting", "raised"} : pc' = [pc EXCEPT ![d] = v]
    BY <1>1 DEF Run, ExecuteTaskWithBlock, Stop, Perform
  <2> QED
    BY <1>0, <2>1, <2>2 DEF TypeOK
<1>2. CASE AddPort \/ RunMode \/ UNCHANGED vars
  BY <1>2 DEF AddPort, RunMode, vars
<1>3. CASE HandlePerform
  <2>1. variant = "threadMethod07" /\ BodyInv' /\ at' = "end" /\ UNCHANGED variant
    BY <1>3, <1>0, BodyStep DEF HandlePerform, AfterRun, Repeats, AliveInv, TypeOK, Variants, Mode
  <2>2. performed' = 1
    BY <2>1 DEF BodyInv
  <2>3. pc' = [pc EXCEPT ![Head(performs).caller] = "idle"]
    BY <1>3 DEF HandlePerform
  <2> QED
    BY <1>0, <2>1, <2>2, <2>3 DEF TypeOK
<1>4. CASE Exit
  <2>1. pc'[c] = "raised" /\ at = "end" /\ nsThread = "started"
    BY <1>4 DEF Exit
  <2>2. ASSUME variant = "threadMethod07" PROVE FALSE
    <3>1. performed = 1
      BY <2>1, <2>2 DEF BodyInv
    <3>2. Len(performs) = 0
      BY <1>0, <2>1, <2>2, <3>1 DEF BodyInv
    <3>3. \E i \in DOMAIN performs : performs[i].caller = c
      BY DEF AliveInv, WaitersQueued
    <3> QED
      BY <1>0, <3>2, <3>3
  <2> QED
    BY <1>0, <2>1, <2>2 DEF TypeOK, Variants, BodyInv
<1> QED
  BY <1>1, <1>2, <1>3, <1>4 DEF Next, ThreadStep

\* For any callers and calls: whoever waits for the thread of init waits for
\* ever; a wait for the thread of initWithCLau ends by an exception or not at
\* all; and threadMethod07 goes on only when its selector was performed.
THEOREM WaitsEndAsTheBodySays == Spec => WaitOutcome
<1>1. Init => BodyInv
  BY DEF Init, BodyInv
<1>2. AliveInv /\ BodyInv /\ [Next]_vars =>
        [\A c \in Callers : pc[c] = "waiting" /\ pc'[c] # "waiting" =>
           \/ variant = "initWithCLau" /\ pc'[c] = "raised"
           \/ variant = "threadMethod07" /\ pc'[c] = "idle" /\ performed' = 1]_vars
  BY WaitStep
<1> QED
  BY <1>1, <1>2, AliveInvariant, BodyStep, PTL DEF Spec, WaitOutcome
-----------------------------------------------------------------------------
(* The monitor of the main run loop.                                       *)

\* MonitorTypeOK, and what keeps the counters below their bounds.
TypeInv ==
  /\ MonitorTypeOK
  /\ step["main"] = "signal" => semphore < MaxSignals
  /\ step["main"] = "create" => starts < MaxStarts
  /\ step["fluency"] \notin {"log", "reset"} => timeOut < Misses

\* The observer as the main thread goes through a start and a stop.
ObserverAt ==
  \/ /\ step["main"] \in {"none", "signal"}
     /\ isMonitoring <=> observer # 0
     /\ observers = {observer} \ {0}
     /\ released = (1..starts) \ observers
  \/ /\ step["main"] = "create"
     /\ isMonitoring /\ observer = 0
     /\ observers = {} /\ released = 1..starts
  \/ /\ step["main"] = "addObserver"
     /\ isMonitoring /\ observer # 0
     /\ observers = {} /\ released = (1..starts) \ {observer}
  \/ /\ step["main"] \in {"dispatch", "clear", "removeObserver"}
     /\ isMonitoring <=> step["main"] # "removeObserver"
     /\ observer # 0
     /\ observers = {observer} /\ released = (1..starts) \ {observer}
  \/ /\ step["main"] = "release"
     /\ ~isMonitoring /\ observer # 0
     /\ observers = {} /\ released = (1..starts) \ {observer}
  \/ /\ step["main"] = "forget"
     /\ ~isMonitoring /\ observer # 0
     /\ observers = {} /\ released = 1..starts

\* The inductive invariant behind ObserverKept: while the main thread starts the
\* monitor there is no fluency loop, so the loop finds nil only when the
\* monitor is off.
KeptInv ==
  ~early =>
    /\ ~fault
    /\ ObserverAt
    /\ step["main"] \in {"create", "addObserver", "dispatch"} => LoopEnded("fluency")
    /\ step["fluency"] \notin {"clear", "removeObserver", "release", "forget"}
    /\ step["fluency"] = "stop" => ~isMonitoring

USE MonitorAssumption DEF Loops

LEMMA MonitorTypeInit == MonitorInit => TypeInv
<1> SUFFICES ASSUME MonitorInit PROVE TypeInv
  OBVIOUS
<1>1. phase \in DOMAIN Following
  BY DEF MonitorInit, Following
<1>2. starts = 0 /\ observer = 0 /\ observers = {} /\ released = {}
  BY DEF MonitorInit
<1>3. starts \in 0..MaxStarts /\ observer \in 0..starts
      /\ observers \subseteq 1..starts /\ released \subseteq 1..starts
  BY <1>2
<1>4. step \in [{"main"} \cup Loops -> Labels] /\ queued \in [Loops -> Nat]
      /\ step["main"] = "none" /\ step["fluency"] = "none"
  BY DEF MonitorInit, Labels
<1>5. /\ isMonitoring \in BOOLEAN /\ early \in BOOLEAN /\ fault \in BOOLEAN
      /\ busy \in BOOLEAN /\ eventTimeOut \in BOOLEAN
  BY Zenon DEF MonitorInit
<1>6. /\ timeOut \in 0..Misses /\ timeOut < Misses /\ semphore \in 0..MaxSignals
      /\ eventSemphore \in Nat /\ mainQueue \in Nat
      /\ currentActivity \in DOMAIN Following \cup {"none"}
  BY DEF MonitorInit
<1> QED
  BY <1>1, <1>3, <1>4, <1>5, <1>6 DEF TypeInv, MonitorTypeOK

\* Every step keeps TypeInv.
LEMMA TypeNext == TypeInv /\ [MonitorNext]_monitorVars => TypeInv'
<1> SUFFICES ASSUME TypeInv, [MonitorNext]_monitorVars PROVE TypeInv'
  OBVIOUS
<1> USE DEF Labels, TypeInv, MonitorTypeOK, properties, runLoop, observing, monitorVars
<1>1. CASE UNCHANGED monitorVars
  BY <1>1
<1>2. CASE Observe
  <2>1. PICK activity \in Following[phase] :
          /\ phase' = activity
          /\ currentActivity' = IF observers = {} THEN currentActivity ELSE activity
    BY <1>2 DEF Observe
  <2>2. activity \in DOMAIN Following
    BY DEF Following
  <2> QED
    BY <1>2, <2>1, <2>2 DEF Observe
<1>3. CASE Signal
  BY <1>3 DEF Signal
<1>4. CASE BeginHandler
  BY <1>4 DEF BeginHandler
<1>5. CASE EndHandler
  BY <1>5, Zenon DEF EndHandler
<1>6. CASE ServeMainQueue
  <2>1. mainQueue' \in Nat /\ eventSemphore' \in Nat
    BY <1>6 DEF ServeMainQueue
  <2>2. eventTimeOut' \in BOOLEAN
    BY <1>6, Zenon DEF ServeMainQueue
  <2> QED
    BY <1>6, <2>1, <2>2 DEF ServeMainQueue
<1>7. CASE StartMonitoring
  BY <1>7 DEF StartMonitoring
<1>8. CASE CreateObserver
  BY <1>8 DEF CreateObserver
<1>9. CASE AddObserver
  <2>1. observers' \subseteq 1..starts
    <3>1. observers' = observers \/ (observer # 0 /\ observers' = observers \cup {observer})
      BY <1>9, Zenon DEF AddObserver
    <3>2. observer # 0 => observer \in 1..starts
      OBVIOUS
    <3>3. observers \subseteq 1..starts
      OBVIOUS
    <3> HIDE DEF TypeInv
    <3> QED
      BY <3>1, <3>2, <3>3, Zenon
  <2>2. fault' \in BOOLEAN
    BY <1>9, Zenon DEF AddObserver
  <2> QED
    BY <1>9, <2>1, <2>2 DEF AddObserver
<1>10. CASE DispatchLoops
  BY <1>10 DEF DispatchLoops
<1>11. ASSUME NEW p \in Stoppers, StopSteps(p) PROVE TypeInv'
  <2> USE DEF Stoppers, Return
  <2>1. CASE StopMonitoring(p)
    BY <2>1 DEF StopMonitoring
  <2>2. CASE ClearMonitoring(p)
    BY <2>2, Zenon DEF ClearMonitoring
  <2>3. CASE RemoveObserver(p)
    BY <2>3 DEF RemoveObserver
  <2>4. CASE Release(p)
    BY <2>4 DEF Release
  <2>5. CASE ForgetObserver(p)
    BY <2>5 DEF ForgetObserver
  <2> QED
    BY <1>11, <2>1, <2>2, <2>3, <2>4, <2>5 DEF StopSteps
<1>12. ASSUME NEW l \in Loops, BeginLoop(l) \/ While(l) PROVE TypeInv'
  <2>1. CASE BeginLoop(l)
    BY <2>1 DEF BeginLoop
  <2>2. CASE While(l)
    BY <2>2 DEF While
  <2> QED
    BY <1>12, <2>1, <2>2
<1>13. CASE SendEvent
  <2>1. eventTimeOut' = eventTimeOut \/ eventTimeOut' = TRUE
    BY <1>13, Zenon DEF SendEvent
  <2>3. mainQueue' \in Nat
    BY <1>13 DEF SendEvent
  <2>2. step' \in [{"main"} \cup Loops -> Labels] /\ step'["main"] = step["main"]
          /\ step'["fluency"] = step["fluency"]
    BY <1>13 DEF SendEvent
  <2> QED
    BY <1>13, <2>1, <2>2, <2>3, ZenonT(30) DEF SendEvent
<1>14. CASE TestTimeOut \/ LogEvent \/ WaitEvent
  <2>1. CASE TestTimeOut
    BY <2>1 DEF TestTimeOut
  <2>2. CASE LogEvent
    BY <2>2 DEF LogEvent
  <2>3. CASE WaitEvent
    BY <2>3 DEF WaitEvent
  <2> QED
    BY <1>14, <2>1, <2>2, <2>3
<1>15. CASE WaitSignal
  BY <1>15 DEF WaitSignal
<1>16. CASE CheckObserver
  BY <1>16 DEF CheckObserver
<1>17. CASE CountMiss
  BY <1>17 DEF CountMiss
<1>18. CASE LogFluency \/ Reset
  <2>1. CASE LogFluency
    BY <2>1 DEF LogFluency
  <2>2. CASE Reset
    BY <2>2 DEF Reset
  <2> QED
    BY <1>18, <2>1, <2>2
<1> QED
  BY <1>1, <1>2, <1>3, <1>4, <1>5, <1>6, <1>7, <1>8, <1>9, <1>10, <1>11, <1>12, <1>13, <1>14,
     <1>15, <1>16, <1>17, <1>18, Zenon
  DEF MonitorNext, MainSteps, EventLoop, FluencyLoop, StopSteps, Stoppers

\* The type invariant of the monitor holds: a handler that signals, a start and
\* a count of misses stay within their bounds for all values of these.
THEOREM MonitorTyped == MonitorSpec => []MonitorTypeOK
<1>1. TypeInv => MonitorTypeOK
  BY DEF TypeInv
<1> QED
  BY <1>1, MonitorTypeInit, TypeNext, PTL DEF MonitorSpec
-----------------------------------------------------------------------------
\* EventsMatched is inductive, given the types.
LEMMA EventNext == MonitorTypeOK /\ EventsMatched /\ [MonitorNext]_monitorVars => EventsMatched'
<1> SUFFICES ASSUME MonitorTypeOK, EventsMatched, [MonitorNext]_monitorVars PROVE EventsMatched'
  OBVIOUS
<1>0. step \in [{"main"} \cup Loops -> Labels] /\ mainQueue \in Nat /\ eventSemphore \in Nat
  BY DEF MonitorTypeOK
<1> USE DEF EventsMatched, properties, runLoop, observing, monitorVars
<1> DEFINE Kept == /\ mainQueue' = mainQueue /\ eventSemphore' = eventSemphore
                   /\ step'["event"] = step["event"]
<1>1. Kept => EventsMatched'
  OBVIOUS
<1>2. CASE UNCHANGED monitorVars
  BY <1>2
<1>3. CASE Observe \/ Signal \/ BeginHandler \/ EndHandler
  <2> Kept
    BY <1>0, <1>3 DEF Observe, Signal, BeginHandler, EndHandler
  <2> QED BY <1>1
<1>4. CASE StartMonitoring \/ CreateObserver \/ AddObserver \/ DispatchLoops
  <2> Kept
    BY <1>0, <1>4 DEF StartMonitoring, CreateObserver, AddObserver, DispatchLoops
  <2> QED BY <1>1
<1>5. ASSUME NEW p \in Stoppers, StopSteps(p) PROVE EventsMatched'
  <2> Kept
    BY <1>0, <1>5 DEF Stoppers, StopSteps, StopMonitoring, ClearMonitoring, RemoveObserver, Release,
                      ForgetObserver
  <2> QED BY <1>1
<1>6. CASE BeginLoop("fluency") \/ While("fluency") \/ WaitSignal \/ CheckObserver \/ CountMiss
             \/ LogFluency \/ Reset
  <2> Kept
    BY <1>0, <1>6 DEF BeginLoop, While, WaitSignal, CheckObserver, CountMiss, LogFluency, Reset
  <2> QED BY <1>1
<1>7. CASE ServeMainQueue
  BY <1>0, <1>7 DEF ServeMainQueue
<1>8. CASE BeginLoop("event") \/ While("event")
  BY <1>0, <1>8 DEF BeginLoop, While
<1>9. CASE SendEvent
  BY <1>0, <1>9 DEF SendEvent
<1>10. CASE TestTimeOut \/ LogEvent
  BY <1>0, <1>10 DEF TestTimeOut, LogEvent
<1>11. CASE WaitEvent
  BY <1>0, <1>11 DEF WaitEvent
<1> QED
  BY <1>2, <1>3, <1>4, <1>5, <1>6, <1>7, <1>8, <1>9, <1>10, <1>11, Zenon
  DEF MonitorNext, MainSteps, EventLoop, FluencyLoop, StopSteps, Stoppers

\* The event loop never takes the signal of an earlier block for its own, and
\* never has two blocks in the main queue, however often the monitor is
\* stopped and started.
THEOREM EventsAlwaysMatched == MonitorSpec => []EventsMatched
<1>1. MonitorInit => EventsMatched
  BY DEF MonitorInit, EventsMatched
<1> QED
  BY <1>1, MonitorTyped, EventNext, PTL DEF MonitorSpec
-----------------------------------------------------------------------------
\* Every step keeps KeptInv.
LEMMA KeptNext == MonitorTypeOK /\ KeptInv /\ [MonitorNext]_monitorVars => KeptInv'
<1> SUFFICES ASSUME MonitorTypeOK, KeptInv, [MonitorNext]_monitorVars, ~early' PROVE KeptInv'
  BY DEF KeptInv
<1>0. /\ step \in [{"main"} \cup Loops -> Labels] /\ queued \in [Loops -> Nat]
      /\ starts \in Nat /\ observer \in 0..starts
      /\ observers \subseteq 1..starts /\ released \subseteq 1..starts
  BY DEF MonitorTypeOK
<1> USE DEF KeptInv, ObserverAt, LoopEnded, properties, runLoop, observing, monitorVars
<1>1. CASE UNCHANGED monitorVars
  BY <1>1
<1>2. CASE Observe
  BY <1>0, <1>2 DEF Observe
<1>3. CASE Signal
  BY <1>0, <1>3 DEF Signal
<1>4. CASE BeginHandler \/ EndHandler \/ ServeMainQueue
  BY <1>0, <1>4 DEF BeginHandler, EndHandler, ServeMainQueue
<1>5. CASE StartMonitoring
  BY <1>0, <1>5, Zenon DEF StartMonitoring
<1>6. CASE CreateObserver
  BY <1>0, <1>6 DEF CreateObserver
<1>7. CASE AddObserver
  BY <1>0, <1>7, ZenonT(30) DEF AddObserver
<1>8. CASE DispatchLoops
  BY <1>0, <1>8 DEF DispatchLoops
<1>9. CASE StopMonitoring("main")
  BY <1>0, <1>9 DEF StopMonitoring, Return
<1>10. CASE ClearMonitoring("main")
  BY <1>0, <1>10 DEF ClearMonitoring
<1>11. CASE RemoveObserver("main")
  BY <1>0, <1>11 DEF RemoveObserver
<1>12. CASE Release("main")
  <2>1. /\ step["main"] = "release" /\ ~early /\ ~fault
        /\ ~isMonitoring /\ observer \in 1..starts
        /\ observers = {} /\ released = (1..starts) \ {observer}
    BY <1>0, <1>12 DEF Release
  <2>2. ~fault'
    BY <1>0, <1>12, <2>1, ZenonT(30) DEF Release
  <2>3. released' = 1..starts
    BY <1>0, <1>12, <2>1 DEF Release
  <2>4. step'["main"] = "forget" /\ step'["fluency"] = step["fluency"]
    BY <1>0, <1>12 DEF Release
  <2> QED
    BY <1>0, <1>12, <2>1, <2>2, <2>3, <2>4 DEF Release
<1>13. CASE ForgetObserver("main")
  BY <1>0, <1>13, Zenon DEF ForgetObserver, Return
<1>14. CASE StopSteps("fluency")
  BY <1>0, <1>14, ZenonT(30) DEF StopSteps, StopMonitoring, ClearMonitoring, RemoveObserver, Release, ForgetObserver,
                     Return
<1>15. CASE EventLoop
  <2>1. CASE BeginLoop("event")
    BY <1>0, <2>1 DEF BeginLoop
  <2>2. CASE While("event") \/ TestTimeOut \/ LogEvent \/ WaitEvent
    BY <1>0, <2>2, ZenonT(30) DEF While, TestTimeOut, LogEvent, WaitEvent
  <2>3. CASE SendEvent
    BY <1>0, <2>3 DEF SendEvent
  <2> QED
    BY <1>15, <2>1, <2>2, <2>3 DEF EventLoop
<1>16. CASE BeginLoop("fluency") \/ While("fluency") \/ WaitSignal
  <2>1. CASE BeginLoop("fluency")
    BY <1>0, <2>1 DEF BeginLoop
  <2>2. CASE While("fluency")
    BY <1>0, <2>2 DEF While
  <2>3. CASE WaitSignal
    BY <1>0, <2>3 DEF WaitSignal
  <2> QED
    BY <1>16, <2>1, <2>2, <2>3
<1>17. CASE CheckObserver
  BY <1>0, <1>17 DEF CheckObserver
<1>18. CASE CountMiss \/ LogFluency \/ Reset
  BY <1>0, <1>18, Zenon DEF CountMiss, LogFluency, Reset
<1> QED
  BY <1>1, <1>2, <1>3, <1>4, <1>5, <1>6, <1>7, <1>8, <1>9, <1>10, <1>11, <1>12, <1>13, <1>14,
     <1>15, <1>16, <1>17, <1>18, ZenonT(30)
  DEF MonitorNext, MainSteps, FluencyLoop

\* As long as no start comes before the end of the last fluency loop, the
\* monitor is on exactly if its observer is in the run loop, every observer is
\* released once, and the loop's own call of stopMonitoring changes nothing.
THEOREM ObserverAlwaysKept == MonitorSpec => []ObserverKept
<1>1. MonitorInit => KeptInv
  BY DEF MonitorInit, KeptInv, ObserverAt, LoopEnded
<1>2. MonitorTypeOK /\ KeptInv => ObserverKept
  BY DEF KeptInv, ObserverAt, ObserverKept, InCall
<1> QED
  BY <1>1, <1>2, MonitorTyped, KeptNext, PTL DEF MonitorSpec
-----------------------------------------------------------------------------
\* Is startMonitoring in progress?
Starting == step["main"] \in {"create", "addObserver", "dispatch"}

\* A monitor that is on, and not just being started, is watched by both loops.
Watched == isMonitoring /\ ~Starting => \A l \in Loops : ~LoopEnded(l)

\* What the main thread may do to the loops: begin a start, queue their blocks,
\* or none of these; it alone raises semphore, and never turns the monitor on but
\* by a start.
MainEffect ==
  /\ \A l \in Loops : step'[l] = step[l]
  /\ timeOut' = timeOut
  /\ semphore' = semphore \/ step["main"] = "signal"
  /\ \/ isMonitoring' /\ Starting' /\ queued' = queued
     \/ /\ Starting /\ ~Starting' /\ isMonitoring' = isMonitoring
        /\ \A l \in Loops : queued'[l] = queued[l] + 1
     \/ (Starting' <=> Starting) /\ queued' = queued /\ (isMonitoring' => isMonitoring)

\* One turn of the event loop, by its labels.
EventEffect ==
  /\ step'["main"] = step["main"] /\ step'["fluency"] = step["fluency"]
  /\ queued'["fluency"] = queued["fluency"]
  /\ UNCHANGED <<isMonitoring, timeOut, semphore>>
  /\ \/ /\ step["event"] = "none" /\ step'["event"] = "while"
        /\ queued["event"] > 0 /\ queued'["event"] = queued["event"] - 1
     \/ /\ queued'["event"] = queued["event"]
        /\ \/ step["event"] = "while" /\ step'["event"] = IF isMonitoring THEN "if" ELSE "none"
           \/ step["event"] = "if" /\ step'["event"] \in {"slept", "while"}
           \/ step["event"] = "slept" /\ step'["event"] \in {"log", "wait"}
           \/ step["event"] = "log" /\ step'["event"] = "wait"
           \/ step["event"] = "wait" /\ step'["event"] = "while"

\* One turn of the fluency loop, by its labels and what it counts.
FluencyEffect ==
  /\ step'["main"] = step["main"] /\ step'["event"] = step["event"]
  /\ queued'["event"] = queued["event"]
  /\ isMonitoring' => isMonitoring
  /\ \/ /\ step["fluency"] = "none" /\ step'["fluency"] = "while"
        /\ queued["fluency"] > 0 /\ queued'["fluency"] = queued["fluency"] - 1
        /\ UNCHANGED <<timeOut, semphore>>
     \/ /\ queued'["fluency"] = queued["fluency"]
        /\ \/ /\ step["fluency"] = "if" /\ semphore > 0 /\ step'["fluency"] = "reset"
              /\ semphore' = semphore - 1 /\ timeOut' = timeOut
           \/ /\ semphore' = semphore /\ timeOut' = timeOut
              /\ \/ step["fluency"] = "while" /\ step'["fluency"] = IF isMonitoring THEN "if" ELSE "none"
                 \/ step["fluency"] = "if" /\ step'["fluency"] = "timedOut"
                 \/ step["fluency"] = "timedOut" /\ step'["fluency"] = "count"
                 \/ step["fluency"] = "count" /\ step'["fluency"] = "reset"
                      /\ currentActivity \notin {"BeforeSources", "AfterWaiting"}
                 \/ step["fluency"] = "log" /\ step'["fluency"] = "reset"
                 \/ step["fluency"] = "stop" /\ step'["fluency"] = IF isMonitoring THEN "clear" ELSE "while"
                 \/ step["fluency"] = "clear" /\ step'["fluency"] = "removeObserver" /\ ~isMonitoring'
                 \/ step["fluency"] = "removeObserver" /\ step'["fluency"] = "release"
                 \/ step["fluency"] = "release" /\ step'["fluency"] = "forget"
                 \/ step["fluency"] = "forget" /\ step'["fluency"] = "while"
           \/ /\ semphore' = semphore
              /\ \/ step["fluency"] = "timedOut" /\ step'["fluency"] = "stop" /\ timeOut' = 0
                 \/ step["fluency"] = "reset" /\ step'["fluency"] = "while" /\ timeOut' = 0
                 \/ step["fluency"] = "count" /\ step'["fluency"] \in {"while", "log"}
                      /\ timeOut' = timeOut + 1

\* The main thread does no more than MainEffect says ...
LEMMA MainThreadSteps ==
  ASSUME MonitorTypeOK,
         \/ Observe \/ MainSteps \/ BeginHandler \/ EndHandler \/ ServeMainQueue
         \/ StartMonitoring \/ StopMonitoring("main")
  PROVE  MainEffect
<1>0. step \in [{"main"} \cup Loops -> Labels] /\ queued \in [Loops -> Nat]
  BY DEF MonitorTypeOK
<1> USE DEF MainEffect, Starting, properties, runLoop, observing
<1>1. CASE Observe
  BY <1>0, <1>1 DEF Observe
<1>2. CASE Signal
  BY <1>0, <1>2 DEF Signal
<1>3. CASE BeginHandler \/ EndHandler \/ ServeMainQueue
  BY <1>0, <1>3 DEF BeginHandler, EndHandler, ServeMainQueue
<1>4. CASE StartMonitoring
  BY <1>0, <1>4 DEF StartMonitoring
<1>5. CASE CreateObserver
  BY <1>0, <1>5 DEF CreateObserver
<1>6. CASE AddObserver
  BY <1>0, <1>6 DEF AddObserver
<1>7. CASE DispatchLoops
  BY <1>0, <1>7 DEF DispatchLoops
<1>8. CASE StopMonitoring("main")
  BY <1>0, <1>8 DEF StopMonitoring, Return
<1>9. CASE ClearMonitoring("main") \/ RemoveObserver("main") \/ Release("main") \/ ForgetObserver("main")
  BY <1>0, <1>9 DEF ClearMonitoring, RemoveObserver, Release, ForgetObserver, Return
<1> QED
  BY <1>1, <1>2, <1>3, <1>4, <1>5, <1>6, <1>7, <1>8, <1>9 DEF MainSteps

\* ... nor the event loop than EventEffect ...
LEMMA EventSteps == ASSUME MonitorTypeOK, EventLoop PROVE EventEffect
<1>0. step \in [{"main"} \cup Loops -> Labels] /\ queued \in [Loops -> Nat]
  BY DEF MonitorTypeOK
<1> USE DEF EventEffect, properties, runLoop, observing
<1>1. CASE BeginLoop("event")
  BY <1>0, <1>1 DEF BeginLoop
<1>2. CASE While("event")
  BY <1>0, <1>2 DEF While
<1>3. CASE SendEvent
  BY <1>0, <1>3 DEF SendEvent
<1>4. CASE TestTimeOut \/ LogEvent \/ WaitEvent
  BY <1>0, <1>4 DEF TestTimeOut, LogEvent, WaitEvent
<1> QED
  BY <1>1, <1>2, <1>3, <1>4 DEF EventLoop

\* ... nor the fluency loop than FluencyEffect.
LEMMA FluencySteps == ASSUME MonitorTypeOK, FluencyLoop PROVE FluencyEffect
<1>0. step \in [{"main"} \cup Loops -> Labels] /\ queued \in [Loops -> Nat]
  BY DEF MonitorTypeOK
<1> USE DEF FluencyEffect, properties, runLoop, observing
<1>1. CASE BeginLoop("fluency")
  BY <1>0, <1>1 DEF BeginLoop
<1>2. CASE While("fluency")
  BY <1>0, <1>2 DEF While
<1>3. CASE WaitSignal
  BY <1>0, <1>3 DEF WaitSignal
<1>4. CASE CheckObserver
  BY <1>0, <1>4 DEF CheckObserver
<1>5. CASE CountMiss
  BY <1>0, <1>5 DEF CountMiss
<1>6. CASE LogFluency \/ Reset
  BY <1>0, <1>6 DEF LogFluency, Reset
<1>7. CASE StopMonitoring("fluency")
  BY <1>0, <1>7 DEF StopMonitoring, Return
<1>8. CASE ClearMonitoring("fluency")
  BY <1>0, <1>8 DEF ClearMonitoring
<1>9. CASE RemoveObserver("fluency") \/ Release("fluency") \/ ForgetObserver("fluency")
  BY <1>0, <1>9 DEF RemoveObserver, Release, ForgetObserver, Return
<1> QED
  BY <1>1, <1>2, <1>3, <1>4, <1>5, <1>6, <1>7, <1>8, <1>9, Zenon DEF FluencyLoop, StopSteps

\* Every step is one of the main thread, of the event loop or of the fluency loop.
LEMMA MonitorEffects ==
  ASSUME MonitorTypeOK, MonitorNext PROVE MainEffect \/ EventEffect \/ FluencyEffect
BY MainThreadSteps, EventSteps, FluencySteps DEF MonitorNext

\* Every step keeps Watched.
LEMMA WatchedNext == MonitorTypeOK /\ Watched /\ [MonitorNext]_monitorVars => Watched'
<1> SUFFICES ASSUME MonitorTypeOK, Watched, [MonitorNext]_monitorVars, isMonitoring', ~Starting',
                    NEW l \in Loops, step'[l] = "none", queued'[l] = 0
             PROVE  FALSE
  BY DEF Watched, LoopEnded
<1>0. queued \in [Loops -> Nat]
  BY DEF MonitorTypeOK
<1>1. CASE UNCHANGED monitorVars
  BY <1>1 DEF monitorVars, properties, Watched, LoopEnded, Starting
<1>2. CASE MainEffect
  <2>1. queued[l] \in Nat /\ queued[l] + 1 # 0 /\ step[l] = "none"
    BY <1>0, <1>2 DEF MainEffect
  <2>2. (Starting' <=> Starting) /\ queued'[l] = queued[l] /\ isMonitoring
    BY <1>2, <2>1, Zenon DEF MainEffect
  <2> QED
    BY <2>1, <2>2 DEF Watched, LoopEnded
<1>3. CASE EventEffect
  BY <1>0, <1>3 DEF EventEffect, Watched, LoopEnded, Starting
<1>4. CASE FluencyEffect
  BY <1>0, <1>4 DEF FluencyEffect, Watched, LoopEnded, Starting
<1> QED
  BY <1>1, <1>2, <1>3, <1>4, MonitorEffects

\* However startMonitoring, stopMonitoring and the fluency loop's own stop fall
\* together, also when a start comes too early: a monitor that is on has both
\* loops running or queued, none has read the FALSE of an earlier stop and gone.
THEOREM MonitorAlwaysWatched == MonitorSpec => []Watched
<1>1. MonitorInit => Watched
  BY DEF MonitorInit, Watched
<1> QED
  BY <1>1, MonitorTyped, WatchedNext, PTL DEF MonitorSpec
-----------------------------------------------------------------------------
\* The steps a loop has to go at most until it ends, while the monitor is off.
ToEnd(label) ==
  CASE label = "none" -> 0
    [] label = "while" -> 1
    [] label \in {"reset", "stop", "forget", "wait"} -> 2
    [] label \in {"log", "release"} -> 3
    [] label \in {"removeObserver", "count", "slept"} -> 4
    [] label \in {"clear", "timedOut"} -> 5
    [] OTHER -> 6

RestRank(l) == 7 * (queued[l] + (IF Starting THEN 1 ELSE 0)) + ToEnd(step[l])

\* The core of StopEnds: while the monitor is off, no step of any thread takes a
\* loop away from its end, and each step of a loop brings it nearer.
RestOnward ==
  ~isMonitoring /\ ~isMonitoring' =>
    /\ \A l \in Loops : RestRank(l)' <= RestRank(l)
    /\ EventLoop => RestRank("event")' < RestRank("event")
    /\ FluencyLoop => RestRank("fluency")' < RestRank("fluency")

\* Every step keeps to RestOnward.
LEMMA RestRankFalls ==
  ASSUME MonitorTypeOK, [MonitorNext]_monitorVars PROVE [RestOnward]_monitorVars
<1> SUFFICES ASSUME MonitorNext, ~isMonitoring, ~isMonitoring' PROVE RestOnward
  BY DEF RestOnward
<1>0. queued["event"] \in Nat /\ queued["fluency"] \in Nat
  BY DEF MonitorTypeOK
<1>1. ASSUME NEW x PROVE ToEnd(x) \in 0..6
  BY DEF ToEnd
<1>2. /\ ToEnd("none") = 0 /\ ToEnd("while") = 1 /\ ToEnd("reset") = 2 /\ ToEnd("stop") = 2
      /\ ToEnd("forget") = 2 /\ ToEnd("wait") = 2 /\ ToEnd("log") = 3 /\ ToEnd("release") = 3
      /\ ToEnd("removeObserver") = 4 /\ ToEnd("count") = 4 /\ ToEnd("slept") = 4
      /\ ToEnd("clear") = 5 /\ ToEnd("timedOut") = 5 /\ ToEnd("if") = 6
  BY DEF ToEnd
<1>3. ASSUME MainEffect, NEW l \in Loops PROVE RestRank(l)' <= RestRank(l)
  <2>1. ToEnd(step'[l]) = ToEnd(step[l]) /\ ToEnd(step[l]) \in Int
    BY <1>1, <1>3 DEF MainEffect
  <2>2. CASE Starting /\ ~Starting' /\ queued'[l] = queued[l] + 1
    BY <1>0, <2>1, <2>2 DEF RestRank
  <2>3. CASE (Starting' <=> Starting) /\ queued'[l] = queued[l]
    BY <1>0, <2>1, <2>3 DEF RestRank
  <2> QED
    BY <1>3, <2>2, <2>3 DEF MainEffect
<1>4. ASSUME EventEffect
      PROVE  RestRank("event")' < RestRank("event") /\ \A l \in Loops : RestRank(l)' <= RestRank(l)
  <2>1. (Starting' <=> Starting) /\ queued'["fluency"] = queued["fluency"] /\ step'["fluency"] = step["fluency"]
    BY <1>4 DEF EventEffect, Starting
  <2>2. \/ queued'["event"] = queued["event"] - 1 /\ ToEnd(step'["event"]) = 1 /\ ToEnd(step["event"]) = 0
        \/ queued'["event"] = queued["event"] /\ ToEnd(step'["event"]) < ToEnd(step["event"])
    BY <1>2, <1>4 DEF EventEffect
  <2> QED
    BY <1>0, <1>1, <2>1, <2>2 DEF RestRank
<1>5. ASSUME FluencyEffect
      PROVE  RestRank("fluency")' < RestRank("fluency") /\ \A l \in Loops : RestRank(l)' <= RestRank(l)
  <2>1. (Starting' <=> Starting) /\ queued'["event"] = queued["event"] /\ step'["event"] = step["event"]
    BY <1>5 DEF FluencyEffect, Starting
  <2>2. \/ queued'["fluency"] = queued["fluency"] - 1 /\ ToEnd(step'["fluency"]) = 1 /\ ToEnd(step["fluency"]) = 0
        \/ queued'["fluency"] = queued["fluency"] /\ ToEnd(step'["fluency"]) < ToEnd(step["fluency"])
    BY <1>2, <1>5 DEF FluencyEffect
  <2> QED
    BY <1>0, <1>1, <2>1, <2>2 DEF RestRank
<1>6. \A l \in Loops : RestRank(l)' <= RestRank(l)
  BY <1>3, <1>4, <1>5, MonitorEffects
<1> QED
  BY <1>4, <1>5, <1>6, EventSteps, FluencySteps DEF RestOnward

\* Both loops of a stopped monitor run towards their end for all values of the
\* constants: the rank is a natural number that every turn lowers and nothing
\* raises, and a loop of rank 0 has ended.
THEOREM LoopsComeToRest ==
  MonitorSpec => /\ [](\A l \in Loops : RestRank(l) \in Nat /\ (RestRank(l) = 0 => LoopEnded(l)))
                 /\ [][RestOnward]_monitorVars
<1>1. MonitorTypeOK => \A l \in Loops : RestRank(l) \in Nat /\ (RestRank(l) = 0 => LoopEnded(l))
  <2> SUFFICES ASSUME MonitorTypeOK, NEW l \in Loops
               PROVE  RestRank(l) \in Nat /\ (RestRank(l) = 0 => LoopEnded(l))
    OBVIOUS
  <2>1. ToEnd(step[l]) \in Nat /\ (ToEnd(step[l]) = 0 => step[l] = "none")
    BY DEF ToEnd
  <2>2. queued[l] \in Nat
    BY DEF MonitorTypeOK
  <2> QED
    BY <2>1, <2>2 DEF RestRank, LoopEnded
<1> QED
  BY <1>1, MonitorTyped, RestRankFalls, PTL DEF MonitorSpec
-----------------------------------------------------------------------------
\* The main thread is in an event handler, the monitor on.
Stalled ==
  busy /\ isMonitoring /\ step["main"] = "none" /\ currentActivity \in {"BeforeSources", "AfterWaiting"}

\* How far the fluency loop is from its report when no signal is pending; "reset"
\* is about to forget the misses, "stop" and "clear" turn the monitor off.
ToLog(label) ==
  CASE label = "removeObserver" -> 8
    [] label = "release" -> 7
    [] label \in {"none", "forget", "reset"} -> 6
    [] label = "while" -> 5
    [] label = "if" -> 4
    [] label = "timedOut" -> 3
    [] label = "count" -> 2
    [] label = "stop" -> 1
    [] OTHER -> 0

Missing(label) ==
  CASE label \in {"stop", "clear", "log"} -> 0
    [] label = "reset" -> Misses
    [] OTHER -> Misses - timeOut

StallRank == 10 * Missing(step["fluency"]) + ToLog(step["fluency"])

\* The core of StallReported: while the main thread is stalled and no report is
\* being made, no step of any thread adds a signal or takes the fluency loop
\* away from its report, and each of its own turns uses up a signal or
\* brings it nearer.
StallOnward ==
  Stalled /\ Stalled' /\ step["fluency"] # "log" =>
    /\ semphore' < semphore \/ (semphore' = semphore /\ StallRank' <= StallRank)
    /\ FluencyLoop => semphore' < semphore \/ StallRank' < StallRank

\* Every step keeps to StallOnward.
LEMMA StallRankFalls ==
  ASSUME TypeInv, [MonitorNext]_monitorVars PROVE [StallOnward]_monitorVars
<1> SUFFICES ASSUME MonitorNext, Stalled, Stalled', step["fluency"] # "log" PROVE StallOnward
  BY DEF StallOnward
<1>0. /\ timeOut \in 0..Misses /\ semphore \in Nat /\ Misses \in Nat /\ MonitorTypeOK
      /\ step["fluency"] \notin {"log", "reset"} => timeOut < Misses
      /\ step["fluency"] \in Labels
  BY DEF TypeInv, MonitorTypeOK
<1>1. /\ ToLog("removeObserver") = 8 /\ ToLog("release") = 7 /\ ToLog("none") = 6
      /\ ToLog("forget") = 6 /\ ToLog("reset") = 6 /\ ToLog("while") = 5 /\ ToLog("if") = 4
      /\ ToLog("timedOut") = 3 /\ ToLog("count") = 2 /\ ToLog("stop") = 1
      /\ ToLog("clear") = 0 /\ ToLog("log") = 0
      /\ \A x : ToLog(x) \in 0..8
  BY DEF ToLog
<1>2. isMonitoring /\ isMonitoring' /\ step["main"] = "none"
      /\ currentActivity \in {"BeforeSources", "AfterWaiting"}
  BY DEF Stalled
<1>3. ASSUME step'["fluency"] = step["fluency"], timeOut' = timeOut PROVE StallRank' <= StallRank
  <2>1. Missing(step["fluency"])' = Missing(step["fluency"]) /\ Missing(step["fluency"]) \in Int
    BY <1>0, <1>3 DEF Missing
  <2> QED
    BY <1>1, <1>3, <2>1 DEF StallRank
<1>4. ASSUME MainEffect \/ EventEffect
      PROVE  semphore' = semphore /\ StallRank' <= StallRank
  BY <1>2, <1>3, <1>4 DEF MainEffect, EventEffect
<1>5. ASSUME FluencyEffect
      PROVE  \/ semphore' < semphore
             \/ semphore' = semphore /\ StallRank' < StallRank /\ StallRank' <= StallRank
  <2>1. CASE semphore' = semphore - 1
    BY <1>0, <2>1
  <2>2. CASE semphore' = semphore /\ timeOut' = timeOut /\ step["fluency"] \notin {"timedOut", "reset", "count"}
    <3>1. \/ step["fluency"] = "stop" /\ step'["fluency"] = "clear"
          \/ /\ step["fluency"] \in {"none", "while", "if", "removeObserver", "release", "forget"}
             /\ step'["fluency"] \in {"while", "if", "timedOut", "release", "forget"}
             /\ ToLog(step'["fluency"]) < ToLog(step["fluency"])
      <4>1. \/ step["fluency"] = "stop" /\ step'["fluency"] = "clear"
            \/ step["fluency"] = "none" /\ step'["fluency"] = "while"
            \/ step["fluency"] = "while" /\ step'["fluency"] = "if"
            \/ step["fluency"] = "if" /\ step'["fluency"] = "timedOut"
            \/ step["fluency"] = "removeObserver" /\ step'["fluency"] = "release"
            \/ step["fluency"] = "release" /\ step'["fluency"] = "forget"
            \/ step["fluency"] = "forget" /\ step'["fluency"] = "while"
        BY <1>0, <1>2, <1>5, <2>2 DEF FluencyEffect
      <4> QED
        BY <1>1, <4>1
    <3> QED
      BY <1>0, <1>1, <2>2, <3>1 DEF StallRank, Missing
  <2>3. CASE semphore' = semphore /\ step["fluency"] = "timedOut"
    BY <1>0, <1>1, <1>5, <2>3 DEF FluencyEffect, StallRank, Missing
  <2>4. CASE semphore' = semphore /\ step["fluency"] = "reset"
    BY <1>0, <1>1, <1>5, <2>4 DEF FluencyEffect, StallRank, Missing
  <2>5. CASE semphore' = semphore /\ step["fluency"] = "count"
    BY <1>0, <1>1, <1>2, <1>5, <2>5 DEF FluencyEffect, StallRank, Missing
  <2> QED
    BY <1>5, <2>1, <2>2, <2>3, <2>4, <2>5 DEF FluencyEffect
<1> QED
  BY <1>0, <1>4, <1>5, MonitorEffects, FluencySteps DEF StallOnward

\* A main thread that stays in a handler is on its way to be reported, for any
\* number of misses and of pending signals: a fluency loop is there, and the pair
\* of semphore and the rank, natural numbers both, falls in the
\* lexicographic order with each of its turns until the stall is logged.
THEOREM StallsComeToReport ==
  MonitorSpec => /\ [](Stalled => StallRank \in Nat /\ semphore \in Nat /\ ~LoopEnded("fluency"))
                 /\ [][StallOnward]_monitorVars
<1>1. TypeInv /\ Watched => (Stalled => StallRank \in Nat /\ semphore \in Nat /\ ~LoopEnded("fluency"))
  <2> SUFFICES ASSUME TypeInv, Watched, Stalled
               PROVE  StallRank \in Nat /\ semphore \in Nat /\ ~LoopEnded("fluency")
    OBVIOUS
  <2>1. Missing(step["fluency"]) \in Nat /\ semphore \in Nat
    BY DEF Missing, TypeInv, MonitorTypeOK
  <2>2. ToLog(step["fluency"]) \in Nat
    BY DEF ToLog
  <2> QED
    BY <2>1, <2>2 DEF StallRank, Stalled, Watched, Starting
<1> QED
  BY <1>1, MonitorTypeInit, TypeNext, MonitorAlwaysWatched, StallRankFalls, PTL DEF MonitorSpec

-----------------------------------------------------------------------------
(* The screen SKRunloopVC; its identifiers are counted.                    *)

INSTANCE FiniteSetTheorems

\* The identifiers in use are 0 .. n-1, and taskID can only name the last one.
NewestOnly ==
  \E n \in Nat : /\ DOMAIN registry = 0..(n - 1)
                 /\ taskID \in DOMAIN registry => taskID = n - 1

ScreenInv == ScreenTypeOK /\ NewestOnly

\* The count of an initial segment is the first identifier after it.
LEMMA SegmentCount ==
  ASSUME NEW n \in Nat PROVE Cardinality(0..(n - 1)) = n
BY FS_Interval

\* The empty registry is an initial segment.
LEMMA ScreenInvInit == ScreenInit => ScreenInv
<1> SUFFICES ASSUME ScreenInit PROVE ScreenInv
  OBVIOUS
<1>1. ScreenTypeOK
  BY DEF ScreenInit, RegistryInit, ScreenTypeOK, NoID
<1>2. DOMAIN registry = 0..(0 - 1)
  BY DEF ScreenInit, RegistryInit
<1>3. NewestOnly
  BY <1>2 DEF NewestOnly
<1> QED
  BY <1>1, <1>3 DEF ScreenInv

\* Cancelling taskID removes the last identifier or none.
LEMMA CancelNewest ==
  ASSUME ScreenInv, CancelTaskID, taskID' \in {taskID, NoID}
  PROVE  /\ NewestOnly'
         /\ DOMAIN registry' = DOMAIN registry \ {taskID}
         /\ \A i \in DOMAIN registry' : registry'[i] = registry[i]
         /\ registry' \in [DOMAIN registry' -> Timers]
         /\ destroyed' \subseteq Timers
         /\ used' = used
<1> USE DEF ScreenInv, ScreenTypeOK, NoID
<1>1. PICK n \in Nat : DOMAIN registry = 0..(n - 1) /\ (taskID \in DOMAIN registry => taskID = n - 1)
  BY DEF NewestOnly
<1>2. CASE taskID = NoID /\ UNCHANGED <<registry, destroyed, used>>
  <2>1. DOMAIN registry' = 0..(n - 1) /\ taskID' \notin DOMAIN registry'
    BY <1>1, <1>2
  <2> QED
    BY <1>1, <1>2, <2>1 DEF NewestOnly
<1>3. CASE taskID # NoID /\ Cancel(taskID)
  <2>1. DOMAIN registry' = DOMAIN registry \ {taskID}
    BY <1>3 DEF Cancel, Without
  <2>2. \A i \in DOMAIN registry' : registry'[i] = registry[i]
    BY <1>3 DEF Cancel, Without
  <2>3. registry' \in [DOMAIN registry' -> Timers] /\ destroyed' \subseteq Timers /\ used' = used
    BY <1>3 DEF Cancel, Without
  <2>4. taskID' \notin DOMAIN registry'
    BY <2>1
  <2>5. CASE taskID \in DOMAIN registry
    <3>1. n - 1 \in Nat /\ DOMAIN registry' = 0..((n - 1) - 1)
      BY <1>1, <2>1, <2>5
    <3> QED
      BY <2>1, <2>2, <2>3, <2>4, <3>1 DEF NewestOnly
  <2>6. CASE taskID \notin DOMAIN registry
    <3>1. DOMAIN registry' = 0..(n - 1)
      BY <1>1, <2>1, <2>6
    <3> QED
      BY <2>1, <2>2, <2>3, <2>4, <3>1 DEF NewestOnly
  <2> QED
    BY <2>5, <2>6
<1> QED
  BY <1>2, <1>3 DEF CancelTaskID

\* Every action of the screen keeps the identifiers an initial segment.
LEMMA ScreenInvStep == ScreenInv /\ [ScreenNext]_screenVars => ScreenInv'
<1> SUFFICES ASSUME ScreenInv, [ScreenNext]_screenVars PROVE ScreenInv'
  OBVIOUS
<1> USE VCAssumption DEF ScreenInv, ScreenTypeOK
<1>1. ASSUME NEW v \in VCs, ViewDidLoad(v) PROVE ScreenInv'
  BY <1>1 DEF ViewDidLoad, SchemeTimer, NewestOnly
<1>2. ASSUME NEW t \in Timers, TimerAction(t) PROVE ScreenInv'
  <2>1. PICK n \in Nat : DOMAIN registry = 0..(n - 1)
    BY DEF NewestOnly
  <2>2. Cardinality(DOMAIN registry) = n
    BY <2>1, SegmentCount
  <2>3. registry' = [i \in 0..n |-> IF i = n THEN t ELSE registry[i]] /\ taskID' = n
    BY <1>2, <2>1, <2>2 DEF TimerAction, Register, With
  <2>4. NewestOnly'
    <3>1. n + 1 \in Nat /\ DOMAIN registry' = 0..((n + 1) - 1) /\ taskID' = (n + 1) - 1
      BY <2>3
    <3> QED
      BY <3>1 DEF NewestOnly
  <2>5. registry' \in [DOMAIN registry' -> Timers] /\ DOMAIN registry' \subseteq Nat
    BY <2>1, <2>3
  <2> QED
    BY <1>2, <2>3, <2>4, <2>5 DEF TimerAction, Register
<1>3. CASE CancelAction
  BY <1>3, CancelNewest DEF CancelAction
<1>4. CASE TerminalTimer
  BY <1>4 DEF TerminalTimer, SchemeTimer, NewestOnly
<1>5. CASE StopTimer
  BY <1>5 DEF StopTimer, NewestOnly
<1>6. CASE Dealloc
  BY <1>6, CancelNewest DEF Dealloc
<1>7. CASE UNCHANGED screenVars
  BY <1>7 DEF screenVars, NewestOnly
<1> QED
  BY <1>1, <1>2, <1>3, <1>4, <1>5, <1>6, <1>7 DEF ScreenNext

\* For any timers and instances, the identifier executeTask gives the screen is
\* never in use.
THEOREM ScreenIDsFresh == ScreenSpec => []NextIDFresh
<1>1. ScreenInv => NextIDFresh
  BY SegmentCount DEF ScreenInv, NewestOnly, NextIDFresh
<1>2. ScreenSpec => []ScreenInv
  BY ScreenInvInit, ScreenInvStep, PTL DEF ScreenSpec
<1> QED
  BY <1>1, <1>2, PTL

\* For any timers and instances, the screen overwrites or cancels no timer but the
\* one taskID names.
THEOREM ScreenTouchesOnlyItsTask == ScreenSpec => OthersUntouched
<1> DEFINE Untouched == \A i \in DOMAIN registry \ {taskID} :
                          i \in DOMAIN registry' /\ registry'[i] = registry[i]
<1>1. ScreenInv /\ [ScreenNext]_screenVars => [Untouched]_screenVars
  <2> SUFFICES ASSUME ScreenInv, ScreenNext PROVE Untouched
    OBVIOUS
  <2>1. ASSUME NEW t \in Timers, TimerAction(t) PROVE Untouched
    <3>1. PICK n \in Nat : DOMAIN registry = 0..(n - 1)
      BY DEF ScreenInv, NewestOnly
    <3>2. Cardinality(DOMAIN registry) = n
      BY <3>1, SegmentCount
    <3> QED
      BY <2>1, <3>1, <3>2 DEF TimerAction, Register, With
  <2>2. CASE CancelAction \/ Dealloc
    BY <2>2, CancelNewest DEF CancelAction, Dealloc
  <2> QED
    BY <2>1, <2>2 DEF ScreenNext, ViewDidLoad, TerminalTimer, StopTimer
<1>2. ScreenSpec => []ScreenInv
  BY ScreenInvInit, ScreenInvStep, PTL DEF ScreenSpec
<1> QED
  BY <1>1, <1>2, PTL DEF ScreenSpec, OthersUntouched
=============================================================================
