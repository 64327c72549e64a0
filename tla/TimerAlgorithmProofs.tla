------------------------- MODULE TimerAlgorithmProofs -------------------------
(***************************************************************************)
(* Proofs about SKTimerTest, for any number of threads and timers, and     *)
(* about the loops of the algorithms, which do what they are for, for      *)
(* arrays, matrices and lists of every size.                               *)
(***************************************************************************)
EXTENDS SKFindMiddleCount, SKFindNumberIn2DArray, SKMaxProfitOne, SKHasCycle, SKReverseList,
        SKTimerTest, FiniteSetTheorems, TLAPS

\* A leaf that names no prover is tried with SMT, with Zenon, and at length with
\* SMT again.
USE SMT, Zenon, SMTT(30)

-----------------------------------------------------------------------------
(* SKTimerTest                                                             *)

\* Statements of executeTask at which its local variable timer is set.
Executing == {"execWait", "count", "insert"} \cup Stored

\* The locals of a method in progress have their values, and the table is finite
\* so that its count is a number.
Locals ==
  /\ IsFiniteSet(DOMAIN timerDict)
  /\ \A th \in Threads : pc[th] \in Executing => timer[th] \in Timers
  /\ \A th \in Threads : pc[th] \in {"insert"} \cup Stored => timerID[th] \in Nat

\* The semaphore is free only if nobody is between wait and signal.
Lock ==
  /\ MutualExclusion
  /\ semphore = 1 => \A a \in Actors : pc[a] \notin Critical

LockInv == TypeOK /\ Locals /\ Lock

\* Insert keeps the table finite and its keys numbers.
LEMMA CountIsNat ==
  ASSUME Locals PROVE Cardinality(DOMAIN timerDict) \in Nat
BY FS_CardinalityType DEF Locals

\* Initially nobody holds the semaphore.
LEMMA LockInit == Init => LockInv
<1> SUFFICES ASSUME Init PROVE LockInv
  OBVIOUS
<1> USE DEF Init
<1>1. TypeOK
  BY DEF TypeOK, Labels, NoID
<1>2. Locals
  BY FS_EmptySet DEF Locals, Executing, Stored, Actors
<1>3. Lock
  BY DEF Lock, MutualExclusion, Critical
<1> QED
  BY <1>1, <1>2, <1>3 DEF LockInv

\* Each step of the methods and of the handlers keeps the locals typed and the
\* semaphore a lock.
LEMMA LockStep == LockInv /\ [Next]_vars => LockInv'
<1> SUFFICES ASSUME LockInv, [Next]_vars PROVE LockInv'
  OBVIOUS
<1> USE TimerAssumption DEF LockInv, Actors
<1> USE DEF TypeOK, Labels, Critical, NoID, Goto
<1>1. ASSUME NEW th \in Threads, Call(th) PROVE LockInv'
  <2>1. ASSUME NEW t \in Timers, NEW begin, NEW timeInterval, NEW r \in BOOLEAN,
               NEW q \in {"main", "global"},
               ExecuteTask(th, t, begin, timeInterval, r, q)
        PROVE  LockInv'
    <3> USE <2>1 DEF ExecuteTask
    <3>1. TypeOK'
      <4>1. repeats' \in [Timers -> BOOLEAN]
        BY Zenon
      <4> QED
        BY <4>1
    <3>2. Locals'
      BY DEF Locals, Executing, Stored
    <3>3. Lock'
      BY DEF Lock, MutualExclusion
    <3> QED
      BY <3>1, <3>2, <3>3
  <2>2. ASSUME NEW id \in taskIDs, CancelTask(th, id) PROVE LockInv'
    BY <2>2 DEF CancelTask, Locals, Executing, Stored, Lock, MutualExclusion
  <2> QED
    BY <1>1, <2>1, <2>2 DEF Call
<1>2. ASSUME NEW th \in Threads, ExecWait(th) PROVE LockInv'
  <2> USE <1>2 DEF ExecWait, Wait
  <2>1. TypeOK'
    BY DEF Locals, Executing, Stored
  <2>2. Locals'
    BY DEF Locals, Executing, Stored
  <2>3. Lock'
    BY DEF Lock, MutualExclusion
  <2> QED
    BY <2>1, <2>2, <2>3
<1>3. ASSUME NEW th \in Threads, CountID(th) PROVE LockInv'
  <2> USE <1>3 DEF CountID
  <2>1. TypeOK'
    BY CountIsNat
  <2>2. Locals'
    BY CountIsNat DEF Locals, Executing, Stored
  <2>3. Lock'
    BY DEF Lock, MutualExclusion
  <2> QED
    BY <2>1, <2>2, <2>3
<1>4. ASSUME NEW th \in Threads, Insert(th) PROVE LockInv'
  <2> USE <1>4 DEF Insert
  <2>1. TypeOK'
    BY DEF Locals, Executing, Stored
  <2>2. Locals'
    BY FS_AddElement DEF Locals, Executing, Stored
  <2>3. Lock'
    BY DEF Lock, MutualExclusion
  <2> QED
    BY <2>1, <2>2, <2>3
<1>5. ASSUME NEW th \in Threads, ExecSignal(th) PROVE LockInv'
  <2> USE <1>5 DEF ExecSignal, Signal
  <2>1. TypeOK'
    BY DEF Lock
  <2>2. Locals'
    BY DEF Locals, Executing, Stored
  <2>3. Lock'
    BY DEF Lock, MutualExclusion
  <2> QED
    BY <2>1, <2>2, <2>3
<1>6. ASSUME NEW th \in Threads, Resume(th) PROVE LockInv'
  <2> USE <1>6 DEF Resume
  <2>1. TypeOK'
    BY DEF Locals, Executing, Stored
  <2>2. Locals'
    BY DEF Locals, Executing, Stored
  <2>3. Lock'
    BY DEF Lock, MutualExclusion
  <2> QED
    BY <2>1, <2>2, <2>3
<1>7. ASSUME NEW th \in Threads, Return(th) PROVE LockInv'
  <2> USE <1>7 DEF Return
  <2>1. TypeOK'
    BY DEF Locals, Executing, Stored
  <2>2. Locals'
    BY DEF Locals, Executing, Stored
  <2>3. Lock'
    BY DEF Lock, MutualExclusion
  <2> QED
    BY <2>1, <2>2, <2>3
<1>8. ASSUME NEW a \in Actors, CancelWait(a) PROVE LockInv'
  <2> USE <1>8 DEF CancelWait, Wait
  <2>1. TypeOK'
    OBVIOUS
  <2>2. Locals'
    BY DEF Locals, Executing, Stored
  <2>3. Lock'
    BY DEF Lock, MutualExclusion
  <2> QED
    BY <2>1, <2>2, <2>3
<1>9. ASSUME NEW a \in Actors, Lookup(a) PROVE LockInv'
  <2> USE <1>9 DEF Lookup
  <2>1. TypeOK'
    OBVIOUS
  <2>2. Locals'
    BY DEF Locals, Executing, Stored
  <2>3. Lock'
    BY DEF Lock, MutualExclusion
  <2> QED
    BY <2>1, <2>2, <2>3
<1>10. ASSUME NEW a \in Actors, Remove(a) PROVE LockInv'
  <2> USE <1>10 DEF Remove
  <2>1. TypeOK'
    OBVIOUS
  <2>2. Locals'
    BY FS_RemoveElement DEF Locals, Executing, Stored
  <2>3. Lock'
    BY DEF Lock, MutualExclusion
  <2> QED
    BY <2>1, <2>2, <2>3
<1>11. ASSUME NEW a \in Actors, CancelSignal(a) PROVE LockInv'
  <2> USE <1>11 DEF CancelSignal, Signal
  <2>1. TypeOK'
    BY DEF Lock
  <2>2. Locals'
    BY DEF Locals, Executing, Stored
  <2>3. Lock'
    BY DEF Lock, MutualExclusion
  <2> QED
    BY <2>1, <2>2, <2>3
<1>12. ASSUME NEW t \in Timers, Fire(t) PROVE LockInv'
  <2> USE <1>12 DEF Fire
  <2>1. TypeOK'
    OBVIOUS
  <2>2. Locals'
    BY DEF Locals, Executing, Stored
  <2>3. Lock'
    BY DEF Lock, MutualExclusion
  <2> QED
    BY <2>1, <2>2, <2>3
<1>13. ASSUME NEW t \in Timers, ActionDone(t) PROVE LockInv'
  <2> USE <1>13 DEF ActionDone
  <2>1. TypeOK'
    OBVIOUS
  <2>2. Locals'
    BY DEF Locals, Executing, Stored
  <2>3. Lock'
    BY DEF Lock, MutualExclusion
  <2> QED
    BY <2>1, <2>2, <2>3
<1>14. CASE UNCHANGED vars
  BY <1>14 DEF vars, Locals, Lock, MutualExclusion
<1> QED
  BY <1>1, <1>2, <1>3, <1>4, <1>5, <1>6, <1>7, <1>8, <1>9, <1>10, <1>11, <1>12, <1>13, <1>14 DEF Next, Execute, CancelSteps

\* The lock invariant holds in every reachable state.
THEOREM LockInvariant == Spec => []LockInv
BY LockInit, LockStep, PTL DEF Spec

\* For any threads and timers, the table is touched by one actor at a time:
\* the semaphore of executeTask and cancelTask is a mutual exclusion lock.
THEOREM DictionarySafe == Spec => []MutualExclusion
<1>1. LockInv => MutualExclusion
  BY DEF LockInv, Lock
<1> QED
  BY <1>1, LockInvariant, PTL

\* The variables keep their types.
THEOREM Typed == Spec => []TypeOK
<1>1. LockInv => TypeOK
  BY DEF LockInv
<1> QED
  BY <1>1, LockInvariant, PTL
-----------------------------------------------------------------------------
\* A semaphore that is taken has been taken by somebody who will signal it, and
\* a handler is at no statement but those of its block and of cancelTask.
Held ==
  /\ semphore = 0 => \E a \in Actors : pc[a] \in Critical
  /\ \A t \in Timers : pc[t] \in {"idle", "action", "cancelWait", "lookup", "remove", "cancelSignal"}

\* The statements an actor has still to go until its method or handler returns.
ToReturn(label) ==
  CASE label = "idle" -> 0
    [] label \in {"return", "cancelSignal"} -> 1
    [] label \in {"resume", "remove"} -> 2
    [] label \in {"execSignal", "lookup"} -> 3
    [] label \in {"insert", "cancelWait"} -> 4
    [] label \in {"count", "action"} -> 5
    [] OTHER -> 6

\* The core of CallsReturn: nobody makes another actor's call take longer, and
\* each step of a call brings it nearer to its return.
CallsOnward ==
  \A a \in Actors : pc[a] # "idle" /\ pc'[a] # pc[a] => ToReturn(pc'[a]) < ToReturn(pc[a])

\* An actor that goes from one statement to another.
Moves(a, from, to) == pc[a] = from /\ pc' = [pc EXCEPT ![a] = to]

\* The flow of control, with what it does to the semaphore.
LEMMA Flow ==
  ASSUME Next
  PROVE  \/ semphore' = semphore /\ \E th \in Threads :
              \/ Moves(th, "idle", "execWait") \/ Moves(th, "count", "insert")
              \/ Moves(th, "insert", "execSignal") \/ Moves(th, "resume", "return")
              \/ Moves(th, "return", "idle") \/ Moves(th, "idle", "cancelWait")
         \/ semphore' = semphore /\ \E a \in Actors :
              Moves(a, "lookup", "remove") \/ Moves(a, "remove", "cancelSignal")
         \/ semphore' = semphore /\ \E t \in Timers :
              Moves(t, "idle", "action") \/ Moves(t, "action", "idle") \/ Moves(t, "action", "cancelWait")
         \/ semphore' = semphore - 1 /\
              ((\E th \in Threads : Moves(th, "execWait", "count"))
                 \/ \E a \in Actors : Moves(a, "cancelWait", "lookup"))
         \/ semphore' = semphore + 1 /\
              ((\E th \in Threads : Moves(th, "execSignal", "resume"))
                 \/ \E a \in Actors : Moves(a, "cancelSignal", "idle"))
<1> USE DEF Moves, Goto
<1>1. ASSUME NEW th \in Threads, Call(th)
      PROVE  semphore' = semphore /\ (Moves(th, "idle", "execWait") \/ Moves(th, "idle", "cancelWait"))
  BY <1>1 DEF Call, ExecuteTask, CancelTask
<1>2. ASSUME NEW th \in Threads, Execute(th)
      PROVE  \/ semphore' = semphore /\ (\/ Moves(th, "count", "insert") \/ Moves(th, "insert", "execSignal")
                                         \/ Moves(th, "resume", "return") \/ Moves(th, "return", "idle"))
             \/ semphore' = semphore - 1 /\ Moves(th, "execWait", "count")
             \/ semphore' = semphore + 1 /\ Moves(th, "execSignal", "resume")
  BY <1>2 DEF Execute, ExecWait, Wait, CountID, Insert, ExecSignal, Signal, Resume, Return
<1>3. ASSUME NEW a \in Actors, CancelSteps(a)
      PROVE  \/ semphore' = semphore /\ (Moves(a, "lookup", "remove") \/ Moves(a, "remove", "cancelSignal"))
             \/ semphore' = semphore - 1 /\ Moves(a, "cancelWait", "lookup")
             \/ semphore' = semphore + 1 /\ Moves(a, "cancelSignal", "idle")
  BY <1>3 DEF CancelSteps, CancelWait, Wait, Lookup, Remove, CancelSignal, Signal
<1>4. ASSUME NEW t \in Timers, Fire(t) \/ ActionDone(t)
      PROVE  semphore' = semphore /\
               (Moves(t, "idle", "action") \/ Moves(t, "action", "idle") \/ Moves(t, "action", "cancelWait"))
  BY <1>4 DEF Fire, ActionDone
<1> HIDE DEF Moves
<1> QED
  BY <1>1, <1>2, <1>3, <1>4, Zenon DEF Next

\* One actor moves, and it is nearer to its return unless it was idle.
LEMMA FlowOnward ==
  ASSUME TypeOK, [Next]_vars PROVE [CallsOnward]_vars
<1> SUFFICES ASSUME Next PROVE CallsOnward
  OBVIOUS
<1>1. /\ ToReturn("idle") = 0 /\ ToReturn("return") = 1 /\ ToReturn("cancelSignal") = 1
      /\ ToReturn("resume") = 2 /\ ToReturn("remove") = 2 /\ ToReturn("execSignal") = 3
      /\ ToReturn("lookup") = 3 /\ ToReturn("insert") = 4 /\ ToReturn("cancelWait") = 4
      /\ ToReturn("count") = 5 /\ ToReturn("action") = 5 /\ ToReturn("execWait") = 6
  BY DEF ToReturn
<1>2. PICK a \in Actors, from \in Labels, to \in Labels :
        Moves(a, from, to) /\ (from = "idle" \/ ToReturn(to) < ToReturn(from))
  BY <1>1, Flow DEF Actors, Labels, Critical
<1> QED
  BY <1>2 DEF CallsOnward, Moves, TypeOK

\* Every step keeps Held.
LEMMA HeldStep == LockInv /\ Held /\ [Next]_vars => Held'
<1> SUFFICES ASSUME LockInv, Held, [Next]_vars PROVE Held'
  OBVIOUS
<1>0. /\ pc \in [Actors -> Labels] /\ semphore \in {0, 1}
      /\ Threads \subseteq Actors /\ Timers \subseteq Actors /\ Threads \cap Timers = {}
      /\ semphore = 1 => \A a \in Actors : pc[a] \notin Critical
      /\ \A a, b \in Actors : pc[a] \in Critical /\ pc[b] \in Critical => a = b
  BY TimerAssumption DEF LockInv, TypeOK, Lock, MutualExclusion, Actors
<1>1. CASE UNCHANGED vars
  BY <1>1 DEF vars, Held
<1>2. ASSUME NEW a \in Actors, NEW from \in Labels, NEW to \in Labels, Moves(a, from, to),
             from \in Critical => to \in Critical \/ semphore' = semphore + 1,
             semphore' = semphore - 1 => to \in Critical,
             semphore' \in {semphore, semphore - 1, semphore + 1},
             semphore' = semphore + 1 => from \in Critical,
             a \in Timers => to \in {"idle", "action", "cancelWait", "lookup", "remove", "cancelSignal"}
      PROVE  Held'
  <2>1. pc[a] = from /\ pc'[a] = to /\ \A b \in Actors \ {a} : pc'[b] = pc[b]
    BY <1>0, <1>2 DEF Moves
  <2>2. semphore' = 0 => \E b \in Actors : pc'[b] \in Critical
    BY <1>0, <1>2, <2>1 DEF Held
  <2>3. \A t \in Timers : pc'[t] \in {"idle", "action", "cancelWait", "lookup", "remove", "cancelSignal"}
    BY <1>0, <1>2, <2>1 DEF Held
  <2> QED
    BY <2>2, <2>3 DEF Held
<1>3. CASE Next
  BY <1>0, <1>2, <1>3, Flow DEF Labels, Critical
<1> QED
  BY <1>1, <1>3

\* For any threads and timers: an actor waits for the semaphore only while it is
\* free or while another one is inside, at a statement that waits for nothing;
\* and every call and every handler has at most six statements to go, a
\* number that each of its steps lowers and no other actor changes.
THEOREM EveryCallOnward ==
  Spec => /\ [](semphore = 0 => \E a \in Actors : pc[a] \in Critical)
          /\ [](\A a \in Actors : ToReturn(pc[a]) \in 0..6 /\ (ToReturn(pc[a]) = 0 <=> pc[a] = "idle"))
          /\ [][CallsOnward]_vars
<1>1. Init => Held
  BY DEF Init, Held, Actors
<1>2. Held => (semphore = 0 => \E a \in Actors : pc[a] \in Critical)
  BY DEF Held
<1>3. \A a \in Actors : ToReturn(pc[a]) \in 0..6 /\ (ToReturn(pc[a]) = 0 <=> pc[a] = "idle")
  BY DEF ToReturn
<1>4. LockInv => TypeOK
  BY DEF LockInv
<1> QED
  BY <1>1, <1>2, <1>3, <1>4, LockInvariant, HeldStep, FlowOnward, PTL DEF Spec
-----------------------------------------------------------------------------
\* The threads between the insertion of a source and its dispatch_resume.
Storing == {th \in Threads : pc[th] \in {"execSignal", "resume"}}

\* Who owns which source: a source in creation belongs to one call, an entry of
\* the table is either resumed, with its key captured by its handler, or still
\* in creation; only stored sources are cancelled, and a cancelled entry is
\* about to be removed.
Creation ==
  /\ \A th \in Threads : pc[th] \in Executing \ {"return"} => state[timer[th]] = "suspended"
  /\ \A th \in Threads : pc[th] = "return" =>
       state[timer[th]] = "resumed" /\ timerID[timer[th]] = timerID[th]
  /\ \A x, y \in Threads :
       pc[x] \in Executing /\ pc[y] \in Executing /\ timer[x] = timer[y] => x = y
  /\ \A t \in Timers : pc[t] # "idle" => state[t] = "resumed"
  /\ \A th \in Threads : pc[th] = "insert" => timerID[th] = Cardinality(DOMAIN timerDict)

Entries ==
  \A i \in DOMAIN timerDict :
    \/ state[timerDict[i]] = "resumed" /\ timerID[timerDict[i]] = i
    \/ \E th \in Storing : timer[th] = timerDict[i] /\ timerID[th] = i

Dead ==
  /\ \A t \in cancelled : state[t] = "resumed" \/ \E th \in Storing : timer[th] = t
  /\ \A i \in DOMAIN timerDict \ Removing : timerDict[i] \notin cancelled

TableInv == LockInv /\ Creation /\ Entries /\ Dead

\* The empty table is coherent.
LEMMA TableInit == Init => TableInv
<1> SUFFICES ASSUME Init PROVE TableInv
  OBVIOUS
<1>1. LockInv
  BY LockInit
<1> QED
  BY <1>1 DEF Init, TableInv, Creation, Entries, Dead, Executing, Stored, Actors

\* Each step of the methods and of the handlers keeps the table coherent.
LEMMA TableStep == TableInv /\ [Next]_vars => TableInv'
<1> SUFFICES ASSUME TableInv, [Next]_vars PROVE TableInv'
  OBVIOUS
<1>0. LockInv /\ LockInv'
  BY LockStep DEF TableInv
<1> SUFFICES Creation' /\ Entries' /\ Dead'
  BY <1>0 DEF TableInv
<1> USE TimerAssumption DEF TableInv, Actors, TypeOK, LockInv, Goto, NoID
<1> USE DEF Storing, Removing, Executing, Stored
<1>1. ASSUME NEW th \in Threads, Call(th) PROVE Creation' /\ Entries' /\ Dead'
  <2>1. ASSUME NEW t \in Timers, NEW begin, NEW timeInterval, NEW r \in BOOLEAN,
               NEW q \in {"main", "global"},
               ExecuteTask(th, t, begin, timeInterval, r, q)
        PROVE  Creation' /\ Entries' /\ Dead'
    <3> USE <2>1 DEF ExecuteTask
    <3>1. Creation'
      BY DEF Creation, Locals
    <3>2. Entries'
      BY DEF Entries
    <3>3. Dead'
      BY DEF Dead
    <3> QED
      BY <3>1, <3>2, <3>3
  <2>2. ASSUME NEW id \in taskIDs, CancelTask(th, id)
        PROVE  Creation' /\ Entries' /\ Dead'
    <3> USE <2>2 DEF CancelTask
    <3>1. Creation'
      BY DEF Creation, Locals
    <3>2. Entries'
      BY DEF Entries
    <3>3. Dead'
      BY DEF Dead
    <3> QED
      BY <3>1, <3>2, <3>3
  <2> QED
    BY <1>1, <2>1, <2>2 DEF Call
<1>2. ASSUME NEW th \in Threads, ExecWait(th) PROVE Creation' /\ Entries' /\ Dead'
  <2> USE <1>2 DEF ExecWait, Wait
  <2>1. Creation'
    BY DEF Creation, Locals
  <2>2. Entries'
    BY DEF Entries, Creation, Locals
  <2>3. Dead'
    BY DEF Dead, Creation, Entries, Locals
  <2> QED
    BY <2>1, <2>2, <2>3
<1>3. ASSUME NEW th \in Threads, CountID(th) PROVE Creation' /\ Entries' /\ Dead'
  <2> USE <1>3 DEF CountID
  <2>1. Creation'
    BY DEF Creation, Locals, Lock, MutualExclusion, Critical
  <2>2. Entries'
    BY DEF Entries, Creation, Locals, Lock, MutualExclusion, Critical
  <2>3. Dead'
    BY DEF Dead, Creation, Entries, Locals, Lock, MutualExclusion, Critical
  <2> QED
    BY <2>1, <2>2, <2>3
<1>4. ASSUME NEW th \in Threads, Insert(th) PROVE Creation' /\ Entries' /\ Dead'
  <2> USE <1>4 DEF Insert
  <2>1. Creation'
    BY DEF Creation, Locals, Lock, MutualExclusion, Critical
  <2>2. Entries'
    BY ZenonT(30) DEF Entries, Creation, Locals, Lock, MutualExclusion, Critical
  <2>3. Dead'
    BY DEF Dead, Creation, Entries, Locals, Lock, MutualExclusion, Critical
  <2> QED
    BY <2>1, <2>2, <2>3
<1>5. ASSUME NEW th \in Threads, ExecSignal(th) PROVE Creation' /\ Entries' /\ Dead'
  <2> USE <1>5 DEF ExecSignal, Signal
  <2>1. Creation'
    BY DEF Creation, Locals
  <2>2. Entries'
    BY DEF Entries, Creation, Locals
  <2>3. Dead'
    BY DEF Dead, Creation, Entries, Locals
  <2> QED
    BY <2>1, <2>2, <2>3
<1>6. ASSUME NEW th \in Threads, Resume(th) PROVE Creation' /\ Entries' /\ Dead'
  <2> USE <1>6 DEF Resume
  <2>1. Creation'
    BY DEF Creation, Locals
  <2>2. Entries'
    BY DEF Entries, Creation, Locals
  <2>3. Dead'
    BY DEF Dead, Creation, Entries, Locals
  <2> QED
    BY <2>1, <2>2, <2>3
<1>7. ASSUME NEW th \in Threads, Return(th) PROVE Creation' /\ Entries' /\ Dead'
  <2> USE <1>7 DEF Return
  <2>1. Creation'
    BY DEF Creation, Locals
  <2>2. Entries'
    BY DEF Entries, Creation, Locals
  <2>3. Dead'
    BY DEF Dead, Creation, Entries, Locals
  <2> QED
    BY <2>1, <2>2, <2>3
<1>8. ASSUME NEW a \in Actors, CancelWait(a) PROVE Creation' /\ Entries' /\ Dead'
  <2> USE <1>8 DEF CancelWait, Wait
  <2>1. Creation'
    BY DEF Creation, Locals
  <2>2. Entries'
    BY DEF Entries, Creation, Locals
  <2>3. Dead'
    BY DEF Dead, Creation, Entries, Locals
  <2> QED
    BY <2>1, <2>2, <2>3
<1>9. ASSUME NEW a \in Actors, Lookup(a) PROVE Creation' /\ Entries' /\ Dead'
  <2> USE <1>9 DEF Lookup
  <2>1. Creation'
    BY DEF Creation, Locals, Lock, MutualExclusion, Critical
  <2>2. Entries'
    BY DEF Entries, Creation, Locals, Lock, MutualExclusion, Critical
  <2>3. Dead'
    BY DEF Dead, Creation, Entries, Locals, Lock, MutualExclusion, Critical
  <2> QED
    BY <2>1, <2>2, <2>3
<1>10. ASSUME NEW a \in Actors, Remove(a) PROVE Creation' /\ Entries' /\ Dead'
  <2> USE <1>10 DEF Remove
  <2>1. Creation'
    BY DEF Creation, Locals, Lock, MutualExclusion, Critical
  <2>2. Entries'
    BY DEF Entries, Creation, Locals, Lock, MutualExclusion, Critical
  <2>3. Dead'
    BY DEF Dead, Creation, Entries, Locals, Lock, MutualExclusion, Critical
  <2> QED
    BY <2>1, <2>2, <2>3
<1>11. ASSUME NEW a \in Actors, CancelSignal(a) PROVE Creation' /\ Entries' /\ Dead'
  <2> USE <1>11 DEF CancelSignal, Signal
  <2>1. Creation'
    BY DEF Creation, Locals
  <2>2. Entries'
    BY DEF Entries, Creation, Locals
  <2>3. Dead'
    BY DEF Dead, Creation, Entries, Locals
  <2> QED
    BY <2>1, <2>2, <2>3
<1>12. ASSUME NEW t \in Timers, Fire(t) PROVE Creation' /\ Entries' /\ Dead'
  <2> USE <1>12 DEF Fire
  <2>1. Creation'
    BY DEF Creation, Locals, CanFire
  <2>2. Entries'
    BY DEF Entries, Creation, Locals
  <2>3. Dead'
    BY DEF Dead, Creation, Entries, Locals
  <2> QED
    BY <2>1, <2>2, <2>3
<1>13. ASSUME NEW t \in Timers, ActionDone(t) PROVE Creation' /\ Entries' /\ Dead'
  <2> USE <1>13 DEF ActionDone
  <2>1. Creation'
    BY DEF Creation, Locals
  <2>2. Entries'
    BY DEF Entries, Creation, Locals
  <2>3. Dead'
    BY DEF Dead, Creation, Entries, Locals
  <2> QED
    BY <2>1, <2>2, <2>3
<1>14. CASE UNCHANGED vars
  BY <1>14 DEF vars, Creation, Entries, Dead
<1> QED
  BY <1>1, <1>2, <1>3, <1>4, <1>5, <1>6, <1>7, <1>8, <1>9, <1>10, <1>11, <1>12, <1>13, <1>14 DEF Next, Execute, CancelSteps

\* The table invariant holds in every reachable state.
THEOREM TableInvariant == Spec => []TableInv
BY TableInit, TableStep, PTL DEF Spec

\* For any threads and timers, cancelTask can stop every timer that can fire and
\* that no call holds.
THEOREM AlwaysStoppable == Spec => []Stoppable
<1>1. TableInv => Stoppable
  <2> SUFFICES ASSUME TableInv, NEW t \in Timers, CanFire(t),
                      \A a \in Actors : timer[a] # t
               PROVE  timerID[t] \in DOMAIN timerDict /\ timerDict[timerID[t]] = t
    BY DEF Stoppable
  <2>1. PICK i \in DOMAIN timerDict : timerDict[i] = t
    BY DEF CanFire, Referenced, InDict
  <2>2. timerID[t] = i
    BY <2>1 DEF TableInv, Entries, Storing, Actors
  <2> QED
    BY <2>1, <2>2
<1> QED
  BY <1>1, TableInvariant, PTL

\* For any threads and timers, cancelTask leaves no cancelled source in the table.
THEOREM NeverDeadEntry == Spec => []NoDeadEntry
<1>1. TableInv => NoDeadEntry
  <2> SUFFICES ASSUME TableInv, semphore = 1 PROVE InDict \cap cancelled = {}
    BY DEF NoDeadEntry
  <2>1. Removing = {}
    BY DEF TableInv, LockInv, Lock, Critical, Removing
  <2> QED
    BY <2>1 DEF TableInv, Dead, InDict
<1> QED
  BY <1>1, TableInvariant, PTL
-----------------------------------------------------------------------------
(* SKTimerTest implements TimerRegistry.                                   *)

Table == [i \in DOMAIN timerDict \ Removing |-> timerDict[i]]
UsedTimers == {t \in Timers : state[t] = "resumed"}
                \cup {timer[th] : th \in {x \in Threads : pc[x] \in Stored}}

\* The insertion, seen from the registry.
LEMMA RegisterStep ==
  ASSUME NEW t \in Timers, t \notin UsedTimers, UsedTimers' = UsedTimers \cup {t},
         Table' = [i \in DOMAIN Table \cup {Cardinality(DOMAIN Table)} |->
                     IF i = Cardinality(DOMAIN Table) THEN t ELSE Table[i]],
         cancelled' = cancelled
  PROVE  Registry!RegistryNext
<1>1. Registry!Register(t)
  <2>1. \A S : Registry!Cardinality(S) = Cardinality(S)
    BY Zenon DEF Cardinality, Registry!Cardinality
  <2> QED
    BY <2>1, Zenon DEF Registry!Register, Registry!With, Table, UsedTimers
<1> QED
  BY <1>1, Zenon DEF Registry!RegistryNext

\* The lookup of an identifier in use, seen from the registry.
LEMMA CancelStep ==
  ASSUME NEW k \in DOMAIN Table, UsedTimers' = UsedTimers,
         Table' = [i \in DOMAIN Table \ {k} |-> Table[i]],
         cancelled' = cancelled \cup {Table[i] : i \in DOMAIN Table \cap {k}}
  PROVE  Registry!RegistryNext
<1>1. Registry!Cancel(k)
  BY Zenon DEF Registry!Cancel, Registry!Without, Table, UsedTimers
<1> QED
  BY <1>1, Zenon DEF Registry!RegistryNext, Table

\* A step of executeTask or cancelTask is one atomic operation on the table (the
\* insertion, the lookup of an identifier in use) or none.
LEMMA RegistryStep ==
  TableInv /\ [Next]_vars => [Registry!RegistryNext]_(Registry!registryVars)
<1> SUFFICES ASSUME TableInv, [Next]_vars
             PROVE  Registry!RegistryNext \/ UNCHANGED <<Table, cancelled, UsedTimers>>
  BY Zenon DEF Registry!registryVars, Table, UsedTimers
<1> USE TimerAssumption DEF TableInv, Actors, LockInv, TypeOK, Goto, NoID
<1> USE DEF Executing, Stored
<1>1. ASSUME NEW th \in Threads, Insert(th) PROVE Registry!RegistryNext
  <2> USE <1>1 DEF Insert
  <2>1. Removing = {} /\ Removing' = {}
    BY DEF Removing, Lock, MutualExclusion, Critical
  <2>2. Table = timerDict /\ Table' = timerDict'
    BY <2>1 DEF Table
  <2>3. timer[th] \in Timers /\ timer[th] \notin UsedTimers
    BY DEF UsedTimers, Creation, Locals
  <2>4. UsedTimers' = UsedTimers \cup {timer[th]}
    BY DEF UsedTimers, Locals
  <2>5. timerID[th] = Cardinality(DOMAIN Table)
    BY <2>2 DEF Creation
  <2>6. Table' = [i \in DOMAIN Table \cup {Cardinality(DOMAIN Table)} |->
                    IF i = Cardinality(DOMAIN Table) THEN timer[th] ELSE Table[i]]
    BY <2>2, <2>5
  <2> QED
    BY <2>3, <2>4, <2>6, RegisterStep
<1>2. ASSUME NEW a \in Actors, Lookup(a), timerID[a] \in DOMAIN timerDict
      PROVE  Registry!RegistryNext
  <2> USE <1>2 DEF Lookup
  <2>1. Removing = {} /\ Removing' = {timerID[a]}
    BY DEF Removing, Lock, MutualExclusion, Critical
  <2>2. Table = timerDict
    BY <2>1 DEF Table
  <2>3. Table' = [i \in DOMAIN timerDict \ {timerID[a]} |-> timerDict[i]]
    BY <2>1 DEF Table
  <2>4. UsedTimers' = UsedTimers
    BY DEF UsedTimers
  <2>5. Table' = [i \in DOMAIN Table \ {timerID[a]} |-> Table[i]]
    BY <2>2, <2>3
  <2>6. cancelled' = cancelled \cup {Table[i] : i \in DOMAIN Table \cap {timerID[a]}}
    BY <2>2
  <2>7. timerID[a] \in DOMAIN Table
    BY <2>2
  <2> QED
    BY <2>4, <2>5, <2>6, <2>7, CancelStep
<1> DEFINE Same == UNCHANGED <<Table, cancelled, UsedTimers>>
<1> USE DEF Table, UsedTimers, Removing
<1>3. ASSUME NEW a \in Actors, Lookup(a), timerID[a] \notin DOMAIN timerDict PROVE Same
  <2> USE <1>3 DEF Lookup
  <2>1. Removing = {} /\ Removing' = {timerID[a]}
    BY DEF Lock, MutualExclusion, Critical
  <2> QED
    BY <2>1
<1>4. ASSUME NEW a \in Actors, Remove(a) PROVE Same
  <2> USE <1>4 DEF Remove
  <2>1. Removing = {timerID[a]} /\ Removing' = {}
    BY DEF Lock, MutualExclusion, Critical
  <2> QED
    BY <2>1
<1>5. ASSUME NEW th \in Threads, Call(th) PROVE Same
  BY <1>5 DEF Call, ExecuteTask, CancelTask
<1>6. ASSUME NEW th \in Threads, ExecWait(th) PROVE Same
  BY <1>6 DEF ExecWait, Wait, Creation, Locals
<1>7. ASSUME NEW th \in Threads, CountID(th) PROVE Same
  BY <1>7 DEF CountID, Creation, Locals
<1>8. ASSUME NEW th \in Threads, ExecSignal(th) PROVE Same
  BY <1>8 DEF ExecSignal, Signal, Creation, Locals
<1>9. ASSUME NEW th \in Threads, Resume(th) PROVE Same
  BY <1>9 DEF Resume, Creation, Locals
<1>10. ASSUME NEW th \in Threads, Return(th) PROVE Same
  BY <1>10 DEF Return, Creation, Locals
<1>11. ASSUME NEW a \in Actors, CancelWait(a) PROVE Same
  BY <1>11 DEF CancelWait, Wait, Creation, Locals
<1>12. ASSUME NEW a \in Actors, CancelSignal(a) PROVE Same
  BY <1>12 DEF CancelSignal, Signal, Creation, Locals
<1>13. ASSUME NEW t \in Timers, Fire(t) PROVE Same
  BY <1>13 DEF Fire, Creation, Locals
<1>14. ASSUME NEW t \in Timers, ActionDone(t) PROVE Same
  BY <1>14 DEF ActionDone, Creation, Locals
<1>15. ASSUME UNCHANGED vars PROVE Same
  BY <1>15 DEF vars
<1> HIDE DEF Same, Table, UsedTimers, Removing, TableInv, LockInv, TypeOK, Actors, Goto, NoID
<1>16. ASSUME NEW th \in Threads, Execute(th) PROVE Registry!RegistryNext \/ Same
  BY <1>1, <1>6, <1>7, <1>8, <1>9, <1>10, <1>16, Zenon DEF Execute
<1>17. ASSUME NEW a \in Actors, CancelSteps(a) PROVE Registry!RegistryNext \/ Same
  BY <1>2, <1>3, <1>4, <1>11, <1>12, <1>17, Zenon DEF CancelSteps
<1>18. Registry!RegistryNext \/ Same
  BY <1>5, <1>13, <1>14, <1>15, <1>16, <1>17, Zenon DEF Next
<1> QED
  BY <1>18 DEF Same

\* For any threads and timers, the calls of SKTimerTest are atomic: the locked
\* table implements TimerRegistry.
THEOREM Atomic == Spec => RefinesRegistry
<1>1. Init => Registry!RegistryInit
  BY DEF Init, Registry!RegistryInit, Removing, Stored, Actors
<1> QED
  BY <1>1, RegistryStep, TableInvariant, PTL
     DEF Spec, RefinesRegistry, Registry!RegistrySpec

-----------------------------------------------------------------------------
(* findNumberIn2DArray                                                     *)

\* The target is not in the rows above, nor in the columns to the right.
SearchInv ==
  /\ matrix \in [Rows -> [Columns -> Int]] /\ Ordered(matrix) /\ target \in Int
  /\ row \in 0 .. MatrixSize /\ column \in -1 .. ColSize - 1
  /\ search \in {"run", "true", "false"}
  /\ search = "run" => \A r \in Rows, c \in Columns :
                         matrix[r][c] = target => r >= row /\ c <= column
  /\ SearchExact

\* One turn of the search leaves out no element that is equal to the target.
LEMMA LookSafe == SearchInv /\ [Look]_searchVars => SearchInv'
<1> SUFFICES ASSUME SearchInv, [Look]_searchVars PROVE SearchInv'
  OBVIOUS
<1> USE MatrixAssumption DEF SearchInv, SearchExact, Rows, Columns
<1>1. CASE UNCHANGED searchVars
  BY <1>1 DEF searchVars, Ordered
<1>2. CASE Look
  <2>0. matrix' = matrix /\ target' = target /\ Ordered(matrix)'
    BY <1>2 DEF Look, Ordered
  <2>1. CASE ~(row <= MatrixSize - 1 /\ column >= 0)
    BY <1>2, <2>0, <2>1 DEF Look
  <2>2. CASE row <= MatrixSize - 1 /\ column >= 0
    <3>0. row \in Rows /\ column \in Columns /\ matrix[row][column] \in Int /\ search = "run"
      BY <1>2, <2>2 DEF Look
    <3>1. CASE target = matrix[row][column]
      BY <1>2, <2>0, <2>2, <3>0, <3>1 DEF Look
    <3>2. CASE target > matrix[row][column]
      <4>1. row' = row + 1 /\ column' = column /\ search' = "run"
        BY <1>2, <2>2, <3>0, <3>2 DEF Look
      <4>2. \A c \in Columns : c <= column => matrix[row][c] <= matrix[row][column]
        BY <3>0 DEF Ordered
      <4>3. \A c \in Columns : matrix[row][c] \in Int
        BY <3>0
      <4>4. ASSUME NEW r \in Rows, NEW c \in Columns, matrix[r][c] = target
            PROVE  r >= row + 1 /\ c <= column
        <5>1. r >= row /\ c <= column
          BY <3>0, <4>4
        <5>2. r # row
          BY <3>0, <3>2, <4>2, <4>3, <4>4, <5>1
        <5> QED
          BY <3>0, <5>1, <5>2
      <4> QED
        BY <2>0, <2>2, <4>1, <4>4
    <3>3. CASE target < matrix[row][column]
      <4>1. row' = row /\ column' = column - 1 /\ search' = "run"
        BY <1>2, <2>2, <3>0, <3>3 DEF Look
      <4>2. \A r \in Rows : row <= r => matrix[row][column] <= matrix[r][column]
        BY <3>0 DEF Ordered
      <4>3. \A r \in Rows : matrix[r][column] \in Int
        BY <3>0
      <4>4. ASSUME NEW r \in Rows, NEW c \in Columns, matrix[r][c] = target
            PROVE  r >= row /\ c <= column - 1
        <5>1. r >= row /\ c <= column
          BY <3>0, <4>4
        <5>2. c # column
          BY <3>0, <3>3, <4>2, <4>3, <4>4, <5>1
        <5> QED
          BY <3>0, <5>1, <5>2
      <4> QED
        BY <2>0, <2>2, <4>1, <4>4
    <3>4. target = matrix[row][column] \/ target > matrix[row][column]
            \/ target < matrix[row][column]
      BY <3>0
    <3> QED
      BY <3>1, <3>2, <3>3, <3>4, Zenon
  <2> QED
    BY <2>1, <2>2, Zenon
<1> QED
  BY <1>1, <1>2, Zenon

\* The search from the upper right corner is exact for every ordered matrix of
\* integers and every target.
THEOREM SearchAlwaysExact == SearchSpec => []SearchExact
<1>1. ASSUME SearchInit PROVE SearchInv
  <2>1. matrix \in [Rows -> [Columns -> Int]] /\ Ordered(matrix) /\ target \in Int
    BY <1>1, MatrixAssumption, Zenon DEF SearchInit
  <2>2. row = 0 /\ column = ColSize - 1 /\ row \in 0 .. MatrixSize /\ column \in -1 .. ColSize - 1
    BY <1>1, MatrixAssumption DEF SearchInit
  <2>3. \A r \in Rows, c \in Columns : r >= row /\ c <= column
    BY <2>2, MatrixAssumption DEF Rows, Columns
  <2>4. CASE MatrixSize = 0 \/ ColSize = 0
    <3>1. search = "false" /\ ~ \E r \in Rows, c \in Columns : TRUE
      BY <1>1, <2>4 DEF SearchInit, Rows, Columns
    <3> QED
      BY <2>1, <2>2, <2>3, <3>1 DEF SearchInv, SearchExact
  <2>5. CASE ~(MatrixSize = 0 \/ ColSize = 0)
    <3>1. search = "run"
      BY <1>1, <2>5 DEF SearchInit
    <3> QED
      BY <2>1, <2>2, <2>3, <3>1 DEF SearchInv, SearchExact
  <2> QED
    BY <2>4, <2>5
<1>2. SearchInv => SearchExact
  BY DEF SearchInv
<1> QED
  BY <1>1, <1>2, LookSafe, PTL DEF SearchSpec
-----------------------------------------------------------------------------
(* maxProfitCycle                                                          *)

\* lowPrice is the lowest price so far, and maxP the best profit so far.
ProfitInv ==
  /\ pricesSize \in Nat /\ prices \in [Days -> Int]
  /\ day \in Nat \ {0} /\ maxP \in Nat /\ lowPrice \in Int
  /\ pricesSize > 0 => /\ day <= pricesSize
                       /\ \E i \in 0 .. day - 1 : prices[i] = lowPrice
                       /\ \A i \in 0 .. day - 1 : lowPrice <= prices[i]
  /\ \A i, j \in Days : i < j /\ j < day => prices[j] - prices[i] <= maxP
  /\ maxP # 0 => \E i, j \in Days : i < j /\ j < day /\ prices[j] - prices[i] = maxP

\* One more day keeps the lowest price and the best profit.
LEMMA TradeSafe == ProfitInv /\ [Trade]_profitVars => ProfitInv'
<1> SUFFICES ASSUME ProfitInv, [Trade]_profitVars PROVE ProfitInv'
  OBVIOUS
<1> USE DEF ProfitInv, Days
<1>1. CASE UNCHANGED profitVars
  BY <1>1 DEF profitVars
<1>2. CASE Trade
  <2>0. /\ day \in Days /\ day' = day + 1 /\ prices' = prices /\ pricesSize' = pricesSize
        /\ prices[day] \in Int /\ pricesSize > 0
    BY <1>2 DEF Trade
  <2>1. CASE prices[day] < lowPrice
    <3>1. lowPrice' = prices[day] /\ maxP' = maxP
      BY <1>2, <2>0, <2>1 DEF Trade
    <3>2. ASSUME NEW i \in Days, i < day PROVE prices[day] - prices[i] <= maxP
      BY <2>0, <2>1, <3>2
    <3>3. ASSUME NEW i \in Days, NEW j \in Days, i < j, j < day + 1
          PROVE  prices[j] - prices[i] <= maxP
      <4>1. j = day \/ j < day
        BY <2>0, <3>3
      <4> QED
        BY <3>2, <3>3, <4>1
    <3>4. \A i \in 0 .. day : prices[day] <= prices[i]
      BY <2>0, <2>1
    <3>5. maxP # 0 => \E i, j \in Days : i < j /\ j < day + 1 /\ prices[j] - prices[i] = maxP
      BY <2>0
    <3>6. \E i \in 0 .. day : prices[i] = prices[day]
      BY <2>0
    <3>7. day + 1 <= pricesSize /\ day + 1 \in Nat \ {0} /\ day + 1 - 1 = day
      BY <2>0
    <3>8. /\ \A i \in 0 .. day' - 1 : lowPrice' <= prices'[i]
          /\ \E i \in 0 .. day' - 1 : prices'[i] = lowPrice'
      BY <2>0, <3>1, <3>4, <3>6, <3>7
    <3>9. \A i, j \in Days' : i < j /\ j < day' => prices'[j] - prices'[i] <= maxP'
      BY <2>0, <3>1, <3>3
    <3>10. maxP' # 0 => \E i, j \in Days' : i < j /\ j < day' /\ prices'[j] - prices'[i] = maxP'
      BY <2>0, <3>1, <3>5
    <3> QED
      BY <2>0, <3>1, <3>7, <3>8, <3>9, <3>10
  <2>2. CASE prices[day] >= lowPrice
    <3>1. lowPrice' = lowPrice
          /\ maxP' = IF prices[day] - lowPrice > maxP THEN prices[day] - lowPrice ELSE maxP
      BY <1>2, <2>0, <2>2 DEF Trade
    <3>2. maxP' \in Nat /\ maxP' >= maxP /\ maxP' >= prices[day] - lowPrice
      BY <2>0, <3>1
    <3>3. ASSUME NEW i \in Days, NEW j \in Days, i < j, j < day + 1
          PROVE  prices[j] - prices[i] <= maxP'
      <4>1. CASE j = day
        <5>1. lowPrice <= prices[i] /\ prices[i] \in Int
          BY <2>0, <3>3, <4>1
        <5> QED
          BY <2>0, <3>2, <4>1, <5>1
      <4>2. CASE j < day
        BY <3>2, <3>3, <4>2
      <4> QED
        BY <2>0, <3>3, <4>1, <4>2
    <3>4. maxP' # 0 => \E i, j \in Days : i < j /\ j < day + 1 /\ prices[j] - prices[i] = maxP'
      <4>1. CASE maxP' = maxP
        BY <2>0, <4>1
      <4>2. CASE maxP' = prices[day] - lowPrice
        <5>1. PICK i \in 0 .. day - 1 : prices[i] = lowPrice
          BY <2>0
        <5>2. i \in Days /\ i < day
          BY <2>0
        <5> QED
          BY <2>0, <4>2, <5>1, <5>2
      <4> QED
        BY <3>1, <4>1, <4>2
    <3>5. \A i \in 0 .. day : lowPrice <= prices[i]
      BY <2>0, <2>2
    <3>6. \E i \in 0 .. day : prices[i] = lowPrice
      BY <2>0
    <3>7. day + 1 <= pricesSize /\ day + 1 \in Nat \ {0} /\ day + 1 - 1 = day
      BY <2>0
    <3>8. \A i, j \in Days : i < j /\ j < day + 1 => prices[j] - prices[i] <= maxP'
      BY <3>3
    <3> QED
      BY <2>0, <3>1, <3>2, <3>4, <3>5, <3>6, <3>7, <3>8
  <2> QED
    BY <2>0, <2>1, <2>2
<1> QED
  BY <1>1, <1>2, Zenon

\* The single pass of maxProfitCycle finds the best profit of every array of
\* prices, the one that the two loops of maxProfitOne look for.
THEOREM ProfitAlwaysBest == ProfitSpec => []ProfitBest
<1>1. ProfitInit => ProfitInv
  <2> SUFFICES ASSUME ProfitInit PROVE ProfitInv
    OBVIOUS
  <2>1. pricesSize \in Nat /\ prices \in [Days -> Int] /\ day = 1 /\ maxP = 0
    BY PriceAssumption, Zenon DEF ProfitInit
  <2>2. pricesSize > 0 => lowPrice = prices[0] /\ 0 \in Days
    BY <2>1 DEF ProfitInit, Days
  <2>3. lowPrice \in Int
    BY <2>1, <2>2 DEF ProfitInit
  <2>4. 0 .. day - 1 = {0}
    BY <2>1
  <2>5. ~ \E i, j \in Days : i < j /\ j < day
    BY <2>1 DEF Days
  <2> QED
    BY <2>1, <2>2, <2>3, <2>4, <2>5 DEF ProfitInv
<1>2. ProfitInv => ProfitBest
  BY DEF ProfitInv, ProfitBest, Days
<1> QED
  BY <1>1, <1>2, TradeSafe, PTL DEF ProfitSpec
-----------------------------------------------------------------------------
(* findMiddleCount                                                         *)

Elements == 0 .. aLen - 1

MiddleTyped ==
  /\ aLen \in Nat \ {0} /\ list \in [Elements -> Int] /\ key \in Int /\ div \in Int
  /\ middle \in {"low", "high", "swap", "while", "done"}
  /\ start \in Elements /\ end \in Elements
  /\ low \in start .. end /\ high \in low .. end

\* The part that is searched: no element before it is larger, and none after it
\* is smaller, than one of its own.
Parted ==
  /\ \A i, j \in Elements : i < start /\ start <= j => list[i] <= list[j]
  /\ \A i, j \in Elements : i <= end /\ end < j => list[i] <= list[j]

\* Within the part, the elements before low are not larger than the key and
\* those after high are not smaller; neither is the one at high, except
\* between the scan from the right and the exchange.
Scanned ==
  /\ list[end] = key
  /\ \A i \in Elements : start <= i /\ i < low => list[i] <= key
  /\ \A i \in Elements : high < i /\ i <= end => list[i] >= key
  /\ middle = "low" => list[high] >= key
  /\ middle \in {"high", "swap"} => IF low < high THEN list[low] > key ELSE list[high] >= key
  /\ middle = "swap" /\ low < high => list[high] < key

\* An element is in its place: no element before it is larger and no element
\* after it is smaller.
InPlace(k) == \A i \in Elements : (i < k => list[i] <= list[k]) /\ (i > k => list[k] <= list[i])

\* The inductive invariant: each partition puts one element in its place.
MiddleInv ==
  /\ MiddleTyped
  /\ middle \in {"low", "high", "swap"} => Parted /\ Scanned
  /\ middle = "while" => div \in Elements /\ InPlace(div)
  /\ middle = "done" => InPlace(Mid)

LEMMA MidInside == MiddleTyped => Mid \in Elements
  BY DEF MiddleTyped, Mid, Elements

LEMMA ScanLowSafe == MiddleInv /\ ScanLow => MiddleInv'
<1> SUFFICES ASSUME MiddleInv, ScanLow PROVE MiddleInv'
  OBVIOUS
<1> USE DEF MiddleInv, MiddleTyped, Elements, Parted, Scanned, ScanLow, bounds
<1>1. CASE low < high /\ list[low] <= key
  BY <1>1
<1>2. CASE ~(low < high /\ list[low] <= key)
  BY <1>2
<1> QED
  BY <1>1, <1>2

LEMMA ScanHighSafe == MiddleInv /\ ScanHigh => MiddleInv'
<1> SUFFICES ASSUME MiddleInv, ScanHigh PROVE MiddleInv'
  OBVIOUS
<1>0. MiddleTyped /\ Parted /\ Scanned /\ middle = "high"
      /\ UNCHANGED <<list, aLen, start, end, key, low, div>>
  BY DEF MiddleInv, ScanHigh, bounds
<1>1. Parted'
  BY <1>0 DEF Parted, Elements
<1>2. CASE low < high /\ list[high] >= key
  <2>1. high' = high - 1 /\ middle' = "high"
    BY <1>0, <1>2 DEF ScanHigh
  <2>2. MiddleTyped'
    BY <1>0, <1>2, <2>1 DEF MiddleTyped, Elements
  <2>3. list[low] > key /\ (low < high - 1 \/ low = high - 1)
    BY <1>0, <1>2 DEF Scanned, MiddleTyped
  <2>4. \A i \in Elements : high - 1 < i /\ i <= end => list[i] >= key
    <3>1. ASSUME NEW i \in Elements, high - 1 < i, i <= end PROVE i = high \/ high < i
      BY <1>0, <3>1 DEF MiddleTyped, Elements
    <3> QED
      BY <1>0, <1>2, <3>1 DEF Scanned
  <2>5. list[low] >= key
    BY <1>0, <2>3 DEF MiddleTyped, Elements
  <2>6. Scanned'
    BY <1>0, <2>1, <2>3, <2>4, <2>5 DEF Scanned, Elements
  <2> QED
    BY <1>1, <2>1, <2>2, <2>6 DEF MiddleInv
<1>3. CASE ~(low < high /\ list[high] >= key)
  <2>1. high' = high /\ middle' = "swap"
    BY <1>0, <1>3 DEF ScanHigh
  <2>2. MiddleTyped'
    BY <1>0, <2>1 DEF MiddleTyped, Elements
  <2>3. Scanned'
    BY <1>0, <1>3, <2>1 DEF Scanned, MiddleTyped, Elements
  <2> QED
    BY <1>1, <2>1, <2>2, <2>3 DEF MiddleInv
<1> QED
  BY <1>2, <1>3

\* What the exchange of two elements leaves in an array.
LEMMA Exchanged ==
  ASSUME NEW n \in Nat, NEW a \in [0 .. n - 1 -> Int], NEW i \in 0 .. n - 1, NEW j \in 0 .. n - 1
  PROVE  /\ Exchange(a, i, j) \in [0 .. n - 1 -> Int]
         /\ Exchange(a, i, j)[i] = a[j] /\ Exchange(a, i, j)[j] = a[i]
         /\ \A k \in 0 .. n - 1 : k # i /\ k # j => Exchange(a, i, j)[k] = a[k]
  BY DEF Exchange

\* An exchange within the part keeps what is true of its border.
LEMMA PartedKept ==
  ASSUME MiddleTyped, Parted, NEW i \in start .. end, NEW j \in start .. end,
         list' = Exchange(list, i, j), UNCHANGED <<aLen, bounds>>
  PROVE  Parted'
<1> USE DEF MiddleTyped, Elements
<1>1. i \in Elements /\ j \in Elements
  OBVIOUS
<1>2. /\ list'[i] = list[j] /\ list'[j] = list[i]
      /\ \A k \in Elements : k # i /\ k # j => list'[k] = list[k]
  BY <1>1, Exchanged
<1>3. UNCHANGED <<aLen, start, end>>
  BY DEF bounds
<1>5. ASSUME NEW g \in Elements, NEW q \in Elements, g < start, start <= q
      PROVE  list'[g] <= list'[q]
  <2>1. list'[g] = list[g]
    BY <1>2, <1>5
  <2>2. PICK m \in Elements : start <= m /\ list'[q] = list[m]
    BY <1>1, <1>2, <1>5
  <2> QED
    BY <1>5, <2>1, <2>2 DEF Parted
<1>6. ASSUME NEW g \in Elements, NEW q \in Elements, g <= end, end < q
      PROVE  list'[g] <= list'[q]
  <2>1. list'[q] = list[q]
    BY <1>2, <1>6
  <2>2. PICK m \in Elements : m <= end /\ list'[g] = list[m]
    BY <1>1, <1>2, <1>6
  <2> QED
    BY <1>6, <2>1, <2>2 DEF Parted
<1> QED
  BY <1>3, <1>5, <1>6 DEF Parted

LEMMA SwapSafe == MiddleInv /\ Swap => MiddleInv'
<1> SUFFICES ASSUME MiddleInv, Swap PROVE MiddleInv'
  OBVIOUS
<1>0. MiddleTyped /\ Parted /\ Scanned /\ low < high
  BY DEF MiddleInv, Swap
<1>1. low \in start .. end /\ high \in start .. end /\ low \in Elements /\ high \in Elements
  BY <1>0 DEF MiddleTyped, Elements
<1>2. Parted'
  BY <1>0, <1>1, PartedKept DEF Swap
<1>3. /\ list' \in [Elements -> Int]
      /\ list'[low] = list[high] /\ list'[high] = list[low]
      /\ \A k \in Elements : k # low /\ k # high => list'[k] = list[k]
  BY <1>0, <1>1, Exchanged DEF Swap, MiddleTyped, Elements
<1>4. list[low] > key /\ list[high] < key /\ high # end
  BY <1>0 DEF Scanned, Swap, MiddleTyped
<1>5. MiddleTyped'
  BY <1>0, <1>3 DEF MiddleTyped, Swap, bounds, Elements
<1>6. Scanned'
  BY <1>0, <1>1, <1>3, <1>4 DEF Scanned, MiddleTyped, Swap, bounds, Elements
<1> QED
  BY <1>2, <1>5, <1>6 DEF MiddleInv, Swap

LEMMA PlaceSafe == MiddleInv /\ Place => MiddleInv'
<1> SUFFICES ASSUME MiddleInv, Place PROVE MiddleInv'
  OBVIOUS
<1>0. MiddleTyped /\ Parted /\ Scanned /\ low = high
  BY DEF MiddleInv, Place, MiddleTyped
<1>1. high \in start .. end /\ end \in start .. end /\ high \in Elements /\ end \in Elements
  BY <1>0 DEF MiddleTyped, Elements
<1>2. Parted'
  BY <1>0, <1>1, PartedKept DEF Place
<1>3. /\ list' \in [Elements -> Int]
      /\ list'[high] = list[end] /\ list'[end] = list[high]
      /\ \A k \in Elements : k # high /\ k # end => list'[k] = list[k]
  BY <1>0, <1>1, Exchanged DEF Place, MiddleTyped, Elements
<1>4. list'[high] = key /\ list'[end] >= key /\ key \in Int
  BY <1>0, <1>3 DEF Scanned, Place, MiddleTyped
<1>5. MiddleTyped'
  BY <1>0, <1>3 DEF MiddleTyped, Place, bounds, Elements
<1>6. ASSUME NEW i \in Elements, i < high PROVE list'[i] <= key
  <2>1. CASE i < start
    <3>1. UNCHANGED <<aLen, start, end>> /\ start <= high
      BY <1>0 DEF Place, bounds, MiddleTyped, Elements
    <3>2. list'[i] <= list'[high]
      BY <1>1, <1>2, <1>6, <2>1, <3>1 DEF Parted, Elements
    <3> QED
      BY <1>4, <3>2
  <2>2. CASE start <= i
    BY <1>0, <1>1, <1>3, <1>6, <2>2 DEF Scanned, MiddleTyped, Elements
  <2> QED
    BY <1>0, <2>1, <2>2 DEF MiddleTyped, Elements
<1>7. ASSUME NEW i \in Elements, i > high PROVE key <= list'[i]
  <2>1. CASE i > end
    BY <1>0, <1>1, <1>2, <1>3, <1>4, <1>5, <1>7, <2>1 DEF Parted, MiddleTyped, Place, bounds, Elements
  <2>2. CASE i <= end
    BY <1>0, <1>1, <1>3, <1>4, <1>7, <2>2 DEF Scanned, MiddleTyped, Elements
  <2> QED
    BY <1>0, <2>1, <2>2 DEF MiddleTyped, Elements
<1>8. div' = high /\ aLen' = aLen /\ middle' = "while"
  BY <1>0 DEF Place
<1>9. InPlace(div)'
  BY <1>4, <1>6, <1>7, <1>8 DEF InPlace, Elements
<1> QED
  BY <1>1, <1>5, <1>8, <1>9 DEF MiddleInv, Elements

LEMMA SearchOnSafe == MiddleInv /\ SearchOn => MiddleInv'
<1> SUFFICES ASSUME MiddleInv, SearchOn PROVE MiddleInv'
  OBVIOUS
<1>0. MiddleTyped /\ div \in Elements /\ InPlace(div) /\ Mid \in Elements
      /\ UNCHANGED <<list, aLen, div>>
  BY MidInside DEF MiddleInv, SearchOn
<1>1. CASE Mid = div /\ middle' = "done" /\ UNCHANGED <<bounds, low, high>>
  BY <1>0, <1>1 DEF MiddleInv, MiddleTyped, InPlace, Mid, Elements, bounds
<1>2. CASE Mid < div /\ PartSort(0, div - 1)
  <2>1. 0 \in Elements /\ div - 1 \in Elements
    BY <1>0, <1>2 DEF Elements, MiddleTyped
  <2>2. start' = 0 /\ end' = div - 1 /\ key' = list[div - 1] /\ low' = 0 /\ high' = div - 1
        /\ middle' = "low"
    BY <1>2 DEF PartSort
  <2>3. MiddleTyped'
    BY <1>0, <2>1, <2>2 DEF MiddleTyped, Elements
  <2>4. Parted'
    BY <1>0, <2>1, <2>2 DEF Parted, InPlace, MiddleTyped, Elements
  <2>5. Scanned'
    BY <1>0, <2>1, <2>2 DEF Scanned, MiddleTyped, Elements
  <2> QED
    BY <2>2, <2>3, <2>4, <2>5 DEF MiddleInv
<1>3. CASE Mid > div /\ PartSort(div + 1, aLen - 1)
  <2>1. div + 1 \in Elements /\ aLen - 1 \in Elements
    BY <1>0, <1>3 DEF Elements, MiddleTyped
  <2>2. start' = div + 1 /\ end' = aLen - 1 /\ key' = list[aLen - 1] /\ low' = div + 1
        /\ high' = aLen - 1 /\ middle' = "low"
    BY <1>3 DEF PartSort
  <2>3. MiddleTyped'
    BY <1>0, <2>1, <2>2 DEF MiddleTyped, Elements
  <2>4. Parted'
    BY <1>0, <2>1, <2>2 DEF Parted, InPlace, MiddleTyped, Elements
  <2>5. Scanned'
    BY <1>0, <2>1, <2>2 DEF Scanned, MiddleTyped, Elements
  <2> QED
    BY <2>2, <2>3, <2>4, <2>5 DEF MiddleInv
<1> QED
  BY <1>1, <1>2, <1>3 DEF SearchOn

\* MiddleInv holds throughout.
LEMMA MiddleInvariant == MiddleSpec => []MiddleInv
<1>1. MiddleInit => MiddleInv
  <2> SUFFICES ASSUME MiddleInit PROVE MiddleInv
    OBVIOUS
  <2>1. aLen \in Nat \ {0}
    BY MiddleAssumption DEF MiddleInit
  <2>2. list \in [Elements -> Int]
    BY MiddleAssumption, Zenon DEF MiddleInit, Arrays, Elements
  <2>3. aLen - 1 \in Elements /\ 0 \in Elements /\ list[aLen - 1] \in Int
    BY <2>1, <2>2 DEF Elements
  <2>4. start = 0 /\ end = aLen - 1 /\ key = list[aLen - 1] /\ low = 0 /\ high = aLen - 1
        /\ div = 0 /\ middle = "low"
    BY DEF MiddleInit
  <2>5. MiddleTyped
    BY <2>1, <2>2, <2>3, <2>4 DEF MiddleTyped, Elements
  <2>6. Parted
    BY <2>1, <2>4 DEF Parted, Elements
  <2>7. Scanned
    BY <2>1, <2>3, <2>4 DEF Scanned, Elements
  <2> QED
    BY <2>5, <2>6, <2>7 DEF MiddleInit, MiddleInv
<1>2. MiddleInv /\ [MiddleNext]_middleVars => MiddleInv'
  <2>1. MiddleInv /\ UNCHANGED middleVars => MiddleInv'
    BY DEF MiddleInv, MiddleTyped, Parted, Scanned, InPlace, Mid, Elements, middleVars, bounds
  <2> QED
    BY <2>1, ScanLowSafe, ScanHighSafe, SwapSafe, PlaceSafe, SearchOnSafe DEF MiddleNext
<1> QED
  BY <1>1, <1>2, PTL DEF MiddleSpec

\* If findMiddleCount returns, the element it returns is in its place in the
\* middle, for every array that is not empty.
THEOREM MiddleAlwaysFound == MiddleSpec => []MiddleFound
<1>1. MiddleInv => MiddleFound
  BY DEF MiddleInv, MiddleFound, InPlace, Elements
<1> QED
  BY <1>1, MiddleInvariant, PTL

\* findMiddleCount never narrows its range, so why does it return?  An exchange
\* moves no element that is in its place, and a partition that goes back
\* to the end of the array has put a new element in its place before.
Misplaced == {k \in Elements : ~InPlace(k)}

\* The end of the part in progress, or of the part that SearchOn will leave.
PartEnd == IF middle # "while" THEN end ELSE IF div < Mid THEN aLen ELSE div

\* What is left of a partition; after an exchange the scan from the left moves.
Pass ==
  CASE middle = "low" -> 4 * (high - low) + (IF low < high /\ list[low] <= key THEN 0 ELSE 3)
    [] middle = "high" -> 4 * (high - low) + 2
    [] middle = "swap" -> 4 * (high - low) + 1
    [] OTHER -> 0

\* The core of MiddleEnds: no step takes an element from its place, and a step that
\* puts none in its place goes on in the partition, or to a shorter part.
MiddleOnward ==
  /\ Misplaced' \subseteq Misplaced
  /\ Misplaced' = Misplaced =>
       middle' = "done" \/ PartEnd' < PartEnd \/ (PartEnd' = PartEnd /\ Pass' < Pass)

\* A part reaches to the middle at least, and the element at high is larger than
\* the key once high has moved.
LastInv ==
  /\ middle \in {"low", "high", "swap"} => end >= Mid
  /\ middle = "low" \/ (middle \in {"high", "swap"} /\ low = high) => high = end \/ list[high] > key

\* Exchanging a larger element with a smaller one behind it moves no element
\* that is in its place.
LEMMA ExchangeKeepsPlaces ==
  ASSUME aLen \in Nat \ {0}, list \in [Elements -> Int], aLen' = aLen,
         NEW i \in Elements, NEW j \in Elements, i <= j, list[i] >= list[j],
         list' = Exchange(list, i, j), NEW k \in Elements, InPlace(k)
  PROVE  InPlace(k)' /\ list'[k] = list[k]
<1>0. Elements' = Elements /\ \A m \in Elements : m \in Int /\ list[m] \in Int
  BY DEF Elements
<1>1. /\ list'[i] = list[j] /\ list'[j] = list[i]
      /\ \A m \in Elements : m # i /\ m # j => list'[m] = list[m]
  BY Exchanged DEF Elements
<1>2. \A m \in Elements : (m < k => list[m] <= list[k]) /\ (m > k => list[k] <= list[m])
  BY DEF InPlace
<1>3. CASE k < i
  <2>1. list'[k] = list[k] /\ \A m \in Elements : m < k => list'[m] = list[m]
    BY <1>0, <1>1, <1>3
  <2>2. ASSUME NEW m \in Elements, m > k PROVE list[k] <= list'[m]
    <3>1. list[k] <= list[i] /\ list[k] <= list[j] /\ list[k] <= list[m]
      BY <1>0, <1>2, <1>3, <2>2
    <3> QED
      BY <1>1, <3>1
  <2> QED
    BY <1>0, <1>2, <2>1, <2>2 DEF InPlace
<1>4. CASE k > j
  <2>1. list'[k] = list[k] /\ \A m \in Elements : m > k => list'[m] = list[m]
    BY <1>0, <1>1, <1>4
  <2>2. ASSUME NEW m \in Elements, m < k PROVE list'[m] <= list[k]
    <3>1. list[i] <= list[k] /\ list[j] <= list[k] /\ list[m] <= list[k]
      BY <1>0, <1>2, <1>4, <2>2
    <3> QED
      BY <1>1, <3>1
  <2> QED
    BY <1>0, <1>2, <2>1, <2>2 DEF InPlace
<1>5. CASE i <= k /\ k <= j
  <2>1. list[i] <= list[k] /\ list[k] <= list[j]
    BY <1>0, <1>2, <1>5
  <2>2. list[i] = list[j]
    BY <1>0, <2>1
  <2>3. \A m \in Elements : list'[m] = list[m]
    BY <1>1, <2>2
  <2> QED
    BY <1>0, <1>2, <2>3 DEF InPlace
<1> QED
  BY <1>0, <1>3, <1>4, <1>5

\* Every step keeps LastInv.
LEMMA LastKept == MiddleInv /\ LastInv /\ [MiddleNext]_middleVars => LastInv'
<1> SUFFICES ASSUME MiddleInv, LastInv, [MiddleNext]_middleVars PROVE LastInv'
  OBVIOUS
<1>0. MiddleTyped /\ Mid \in Int
  BY MidInside DEF MiddleInv, Elements, MiddleTyped
<1>1. CASE ScanLow
  <2>1. Scanned /\ middle = "low" /\ Mid' = Mid
    BY <1>1 DEF MiddleInv, ScanLow, Mid
  <2> QED
    BY <1>0, <1>1, <2>1 DEF LastInv, ScanLow, bounds, MiddleTyped
<1>2. CASE ScanHigh
  <2>1. Scanned /\ middle = "high" /\ Mid' = Mid
    BY <1>2 DEF MiddleInv, ScanHigh, Mid
  <2>2. low < high => list[low] > key
    BY <2>1 DEF Scanned
  <2> QED
    BY <1>0, <1>2, <2>1, <2>2 DEF LastInv, ScanHigh, bounds, MiddleTyped
<1>3. CASE Swap
  <2>1. Scanned /\ Mid' = Mid /\ low \in Elements /\ high \in Elements
    BY <1>0, <1>3 DEF MiddleInv, Swap, Mid, MiddleTyped, Elements
  <2>2. list'[high] = list[low] /\ list[low] > key
    BY <1>0, <1>3, <2>1, Exchanged DEF Scanned, Swap, MiddleTyped, Elements
  <2> QED
    BY <1>3, <2>1, <2>2 DEF LastInv, Swap, bounds
<1>4. CASE Place
  BY <1>4 DEF LastInv, Place
<1>5. CASE SearchOn
  <2>1. Mid' = Mid /\ Mid \in Elements /\ aLen \in Nat /\ div \in Elements
    BY <1>0, <1>5, MidInside DEF SearchOn, Mid, MiddleInv, MiddleTyped
  <2> QED
    BY <1>5, <2>1 DEF LastInv, SearchOn, PartSort, Elements
<1>6. CASE UNCHANGED middleVars
  BY <1>6 DEF LastInv, middleVars, bounds, Mid
<1> QED
  BY <1>1, <1>2, <1>3, <1>4, <1>5, <1>6 DEF MiddleNext

\* Every step keeps to MiddleOnward.
LEMMA MiddleRankFalls ==
  ASSUME MiddleInv, MiddleInv', LastInv, MiddleNext PROVE MiddleOnward
<1>0. MiddleTyped /\ Mid \in Elements /\ Mid' = Mid /\ Elements' = Elements
  BY MidInside DEF MiddleInv, MiddleNext, ScanLow, ScanHigh, Swap, Place, SearchOn, Mid, Elements
<1>1. ASSUME list' = list PROVE Misplaced' = Misplaced
  BY <1>0, <1>1 DEF Misplaced, InPlace
<1>2. CASE ScanLow
  <2>1. PartEnd' = PartEnd /\ Pass' < Pass
    BY <1>0, <1>2 DEF ScanLow, PartEnd, Pass, bounds, MiddleTyped
  <2> QED
    BY <1>1, <1>2, <2>1 DEF ScanLow, MiddleOnward
<1>3. CASE ScanHigh
  <2>1. PartEnd' = PartEnd /\ Pass' < Pass
    BY <1>0, <1>3 DEF ScanHigh, PartEnd, Pass, bounds, MiddleTyped
  <2> QED
    BY <1>1, <1>3, <2>1 DEF ScanHigh, MiddleOnward
<1>4. CASE Swap
  <2>1. Scanned /\ low \in Elements /\ high \in Elements /\ low < high
    BY <1>0, <1>4 DEF MiddleInv, Swap, MiddleTyped, Elements
  <2>2. list'[low] = list[high] /\ list[low] > key /\ list[high] < key /\ list[low] >= list[high]
    BY <1>0, <1>4, <2>1, Exchanged DEF Scanned, Swap, MiddleTyped, Elements
  <2>3. Misplaced' \subseteq Misplaced
    BY <1>0, <1>4, <2>1, <2>2, ExchangeKeepsPlaces DEF Misplaced, Swap, MiddleTyped, Elements
  <2>4. PartEnd' = PartEnd /\ Pass' < Pass
    BY <1>0, <1>4, <2>1, <2>2 DEF Swap, PartEnd, Pass, bounds, MiddleTyped
  <2> QED
    BY <2>3, <2>4 DEF MiddleOnward
<1>5. CASE Place
  <2>1. /\ Scanned /\ low = high /\ high \in Elements /\ end \in Elements /\ high <= end
        /\ end \in Int /\ list[high] \in Int
    BY <1>0, <1>5 DEF MiddleInv, Place, MiddleTyped, Elements
  <2>2. list'[high] = key /\ list[high] >= list[end] /\ list[end] = key
    BY <1>0, <1>5, <2>1, Exchanged DEF Scanned, Place, MiddleTyped, Elements
  <2>3. ASSUME NEW k \in Elements, InPlace(k) PROVE InPlace(k)' /\ list'[k] = list[k]
    BY <1>0, <1>5, <2>1, <2>2, <2>3, ExchangeKeepsPlaces DEF Place, MiddleTyped
  <2>4. Misplaced' \subseteq Misplaced
    BY <1>0, <2>3 DEF Misplaced
  <2>5. CASE high = end
    <3>1. end >= Mid /\ div' = end /\ middle = "swap" /\ middle' = "while" /\ end' = end
      BY <1>5, <2>1, <2>5 DEF Place, LastInv, bounds
    <3>2. PartEnd' = PartEnd /\ Pass' < Pass
      BY <1>0, <2>1, <2>5, <3>1 DEF PartEnd, Pass, Elements, MiddleTyped
    <3> QED
      BY <2>4, <3>2 DEF MiddleOnward
  <2>6. CASE high # end
    <3>1. list[high] > key
      BY <1>5, <2>1, <2>6 DEF Place, LastInv
    <3>2. InPlace(high)' /\ high' = high
      BY <1>5, <2>1 DEF Place, MiddleInv
    <3>3. ~InPlace(high)
      <4>1. list'[high] # list[high]
        BY <2>1, <2>2, <3>1
      <4> QED
        BY <2>1, <2>3, <4>1
    <3>4. PICK h : h = high
      OBVIOUS
    <3>5. h \in Misplaced /\ h \notin Misplaced'
      BY <1>0, <2>1, <3>2, <3>3, <3>4 DEF Misplaced
    <3> QED
      BY <2>4, <3>5 DEF MiddleOnward
  <2> QED
    BY <2>5, <2>6
<1>6. CASE SearchOn
  <2>1. div \in Elements /\ aLen \in Nat /\ UNCHANGED <<list, aLen, div>> /\ middle = "while"
    BY <1>0, <1>6 DEF SearchOn, MiddleInv, MiddleTyped
  <2>2. middle' = "done" \/ PartEnd' < PartEnd
    BY <1>0, <1>6, <2>1 DEF SearchOn, PartSort, PartEnd, Elements
  <2> QED
    BY <1>1, <2>1, <2>2 DEF MiddleOnward
<1> QED
  BY <1>2, <1>3, <1>4, <1>5, <1>6 DEF MiddleNext

\* findMiddleCount comes nearer to its return with every step, for every array that
\* is not empty: the elements out of place, a finite set, the part
\* searched and the rest of the partition fall in the lexicographic order.
THEOREM MiddleOnItsWay ==
  MiddleSpec => /\ [](Misplaced \subseteq Elements /\ PartEnd \in Nat /\ Pass \in Nat)
                /\ [][MiddleOnward]_middleVars
<1>1. MiddleInit => LastInv
  BY MiddleAssumption DEF MiddleInit, LastInv, Mid
<1>2. MiddleInv => Misplaced \subseteq Elements /\ PartEnd \in Nat /\ Pass \in Nat
  <2> SUFFICES ASSUME MiddleInv PROVE PartEnd \in Nat /\ Pass \in Nat
    BY DEF Misplaced
  <2>1. PartEnd \in Nat
    BY DEF MiddleInv, MiddleTyped, PartEnd, Elements
  <2>2. Pass \in Nat
    <3>1. high - low \in Nat
      BY DEF MiddleInv, MiddleTyped, Elements
    <3> QED
      BY <3>1 DEF Pass
  <2> QED
    BY <2>1, <2>2
<1>3. MiddleInv /\ MiddleInv' /\ LastInv /\ [MiddleNext]_middleVars => [MiddleOnward]_middleVars
  BY MiddleRankFalls
<1> QED
  BY <1>1, <1>2, <1>3, MiddleInvariant, LastKept, PTL DEF MiddleSpec
-----------------------------------------------------------------------------
(* hasCycleMore                                                            *)

\* The nodes vs that the fast pointer has left: next leads from them to one
\* another or to the fast pointer.
Left(vs) == head \in vs \cup {fast} /\ \A n \in vs : next[n] \in vs \cup {fast}

Closed(ns) == head \in ns /\ \A n \in ns : next[n] \in ns

\* A list without end keeps both pointers; the slow pointer follows the fast one.
CycleInv ==
  /\ next \in [Nodes -> Nodes \cup {0}]
  /\ slow \in Nodes \cup {0} /\ fast \in Nodes \cup {0}
  /\ cycle \in {"run", "true", "false"}
  /\ \A ns \in SUBSET Nodes : Closed(ns) => slow \in ns /\ fast \in ns /\ cycle # "false"
  /\ cycle = "run" => \E vs \in SUBSET Nodes : Left(vs) /\ slow \in vs \cup {fast}
  /\ cycle = "true" => Endless

LEMMA CycleInvInit == CycleInit => CycleInv
<1> SUFFICES ASSUME CycleInit PROVE CycleInv
  OBVIOUS
<1>1. 1 \in Nodes /\ 0 \notin Nodes
  BY ListAssumption DEF Nodes
<1>2. slow = head /\ fast = head /\ head \in {0, 1} /\ next \in [Nodes -> Nodes \cup {0}]
      /\ cycle \in {"run", "false"} /\ (cycle = "false" => head = 0 \/ next[1] = 0)
  BY DEF CycleInit
<1>3. \A ns \in SUBSET Nodes : Closed(ns) => slow \in ns /\ fast \in ns /\ cycle # "false"
  BY <1>1, <1>2 DEF Closed
<1>4. Left({}) /\ slow \in {} \cup {fast}
  BY <1>2 DEF Left
<1> QED
  BY <1>1, <1>2, <1>3, <1>4 DEF CycleInv

LEMMA CycleInvStep == CycleInv /\ [Chase]_cycleVars => CycleInv'
<1> SUFFICES ASSUME CycleInv, [Chase]_cycleVars PROVE CycleInv'
  OBVIOUS
<1>0. 0 \notin Nodes
  BY ListAssumption DEF Nodes
<1>1. CASE UNCHANGED cycleVars
  BY <1>1 DEF cycleVars, CycleInv, Left, Closed, Endless
<1>2. CASE Chase /\ ~MoreCycle
  <2>1. UNCHANGED <<next, head, slow, fast>> /\ cycle' = "false"
    BY <1>2 DEF Chase
  <2>2. ASSUME NEW ns \in SUBSET Nodes, Closed(ns) PROVE FALSE
    <3>1. slow \in ns /\ fast \in ns /\ next[fast] \in ns
      BY <2>2 DEF CycleInv, Closed
    <3> QED
      BY <1>0, <1>2, <3>1 DEF MoreCycle
  <2> QED
    BY <2>1, <2>2 DEF CycleInv, Closed
<1>3. CASE Chase /\ MoreCycle
  <2>1. /\ next' = next /\ head' = head /\ slow' = next[slow] /\ fast' = next[next[fast]]
        /\ cycle' = (IF slow' = fast' THEN "true" ELSE "run") /\ cycle = "run"
    BY <1>3 DEF Chase
  <2>2. /\ next \in [Nodes -> Nodes \cup {0}]
        /\ slow \in Nodes /\ fast \in Nodes /\ next[fast] \in Nodes
    BY <1>3 DEF CycleInv, MoreCycle
  <2>3. slow' \in Nodes \cup {0} /\ fast' \in Nodes \cup {0}
    BY <2>1, <2>2
  <2>4. PICK vs \in SUBSET Nodes : Left(vs) /\ slow \in vs \cup {fast}
    BY <2>1 DEF CycleInv
  <2>5. PICK ws \in SUBSET Nodes :
          head \in ws /\ slow' \in ws /\ \A n \in ws : next[n] \in ws \cup {fast'}
    <3>1. vs \cup {fast, next[fast]} \in SUBSET Nodes
      BY <2>2
    <3> QED
      BY <2>1, <2>2, <2>4, <3>1, Zenon DEF Left
  <2>6. slow' = fast' => Endless'
    BY <2>1, <2>5 DEF Endless
  <2>7. Left(ws)' /\ slow' \in ws \cup {fast'}
    BY <2>1, <2>5 DEF Left
  <2>8. ASSUME NEW ns \in SUBSET Nodes, Closed(ns)' PROVE slow' \in ns /\ fast' \in ns
    <3>1. Closed(ns)
      BY <2>1, <2>8 DEF Closed
    <3>2. slow \in ns /\ fast \in ns /\ \A n \in ns : next[n] \in ns
      BY <3>1 DEF CycleInv, Closed
    <3> QED
      BY <2>1, <3>2
  <2> QED
    BY <2>1, <2>2, <2>3, <2>5, <2>6, <2>7, <2>8 DEF CycleInv
<1> QED
  BY <1>1, <1>2, <1>3

\* For a list of any size, hasCycleMore answers yes only if the list has no end,
\* and no only if it has one.
THEOREM CycleAlwaysFound == CycleSpec => []CycleFound
<1>1. CycleInv => CycleFound
  BY DEF CycleInv, CycleFound, Endless, Closed
<1> QED
  BY <1>1, CycleInvInit, CycleInvStep, PTL DEF CycleSpec
-----------------------------------------------------------------------------
(* reverseNodeList                                                         *)

ReverseInv ==
  /\ size \in Nat /\ link \in [1 .. size -> Int]
  /\ reverse \in {"run", "done", "fault"}
  /\ ListKept

\* What ListKept says of each link.
Turned(n, last) ==
  /\ newH = n /\ \A i \in 1 .. n : link[i] = i - 1
  /\ p = IF n < size THEN n + 1 ELSE last
  /\ \A i \in n + 1 .. size : link[i] = IF i < size THEN i + 1 ELSE last

LEMMA LinkedTurned ==
  ASSUME size \in Nat, NEW n \in 0 .. size, NEW last \in {0, Wild}
  PROVE  (/\ Linked(newH, [i \in 1 .. n + 1 |-> n + 1 - i])
          /\ Linked(p, [i \in 1 .. size - n + 1 |-> IF i <= size - n THEN n + i ELSE last]))
         <=> Turned(n, last)
<1> DEFINE new == [i \in 1 .. n + 1 |-> n + 1 - i]
           old == [i \in 1 .. size - n + 1 |-> IF i <= size - n THEN n + i ELSE last]
<1>0. n \in Nat /\ n <= size /\ size \in Nat /\ Wild = -1
  BY DEF Wild
<1>1. Len(new) = n + 1 /\ new[1] = n /\ \A i \in 1 .. n + 1 : new[i] = n + 1 - i
  BY <1>0
<1>2. /\ Len(old) = size - n + 1 /\ old[1] = IF n < size THEN n + 1 ELSE last
      /\ \A i \in 1 .. size - n + 1 : old[i] = IF i <= size - n THEN n + i ELSE last
  BY <1>0
<1> HIDE DEF new, old
<1>3. (\A i \in 1 .. n : link[new[i]] = new[i + 1]) <=> \A i \in 1 .. n : link[i] = i - 1
  <2>1. ASSUME \A i \in 1 .. n : link[new[i]] = new[i + 1], NEW i \in 1 .. n PROVE link[i] = i - 1
    <3>1. n + 1 - i \in 1 .. n /\ n + 1 - (n + 1 - i) = i /\ (n + 1 - i) + 1 \in 1 .. n + 1
      BY <1>0
    <3>2. new[n + 1 - i] = i /\ new[(n + 1 - i) + 1] = i - 1
      BY <1>0, <1>1, <3>1
    <3> QED
      BY <2>1, <3>1, <3>2
  <2>2. ASSUME \A i \in 1 .. n : link[i] = i - 1, NEW i \in 1 .. n PROVE link[new[i]] = new[i + 1]
    <3>1. new[i] = n + 1 - i /\ new[i + 1] = n - i /\ n + 1 - i \in 1 .. n
      BY <1>0, <1>1
    <3> QED
      BY <1>0, <2>2, <3>1
  <2> QED
    BY <2>1, <2>2
<1>4. (\A i \in 1 .. size - n : link[old[i]] = old[i + 1])
        <=> \A i \in n + 1 .. size : link[i] = IF i < size THEN i + 1 ELSE last
  <2>1. ASSUME \A i \in 1 .. size - n : link[old[i]] = old[i + 1], NEW i \in n + 1 .. size
        PROVE  link[i] = IF i < size THEN i + 1 ELSE last
    <3>1. i - n \in 1 .. size - n /\ (i - n) + 1 \in 1 .. size - n + 1 /\ n + (i - n) = i
      BY <1>0
    <3>2. old[i - n] = i /\ old[(i - n) + 1] = IF i < size THEN i + 1 ELSE last
      BY <1>0, <1>2, <3>1
    <3> QED
      BY <2>1, <3>1, <3>2
  <2>2. ASSUME \A i \in n + 1 .. size : link[i] = IF i < size THEN i + 1 ELSE last,
               NEW i \in 1 .. size - n
        PROVE  link[old[i]] = old[i + 1]
    <3>1. old[i] = n + i /\ n + i \in n + 1 .. size
          /\ old[i + 1] = IF n + i < size THEN n + i + 1 ELSE last
      BY <1>0, <1>2
    <3> QED
      BY <2>2, <3>1
  <2> QED
    BY <2>1, <2>2
<1>5. Linked(newH, new) <=> n = newH /\ \A i \in 1 .. n : link[i] = i - 1
  <2>1. Len(new) - 1 = n
    BY <1>0, <1>1
  <2> QED
    BY <1>1, <1>3, <2>1 DEF Linked
<1>6. Linked(p, old) <=> /\ p = (IF n < size THEN n + 1 ELSE last)
                         /\ \A i \in n + 1 .. size : link[i] = IF i < size THEN i + 1 ELSE last
  <2>1. Len(old) - 1 = size - n
    BY <1>0, <1>2
  <2> QED
    BY <1>2, <1>4, <2>1 DEF Linked
<1> QED
  BY <1>5, <1>6 DEF Turned, new, old

TurnedSoFar ==
  \E n \in 0 .. size, last \in {0, Wild} :
    /\ Turned(n, last)
    /\ reverse = "done" => n = size /\ last = 0
    /\ reverse = "fault" => last = Wild

LEMMA KeptTurned == size \in Nat => (ListKept <=> TurnedSoFar)
BY LinkedTurned, Zenon DEF ListKept, TurnedSoFar

LEMMA ReverseInvInit == ReverseInit => ReverseInv
<1> SUFFICES ASSUME ReverseInit PROVE ReverseInv
  OBVIOUS
<1>1. size \in Nat /\ reverse = "run" /\ newH = 0 /\ p = (IF size = 0 THEN 0 ELSE 1)
  BY SizesAssumption DEF ReverseInit
<1>2. PICK last \in {0, Wild} : link = [i \in 1 .. size |-> IF i < size THEN i + 1 ELSE last]
  BY DEF ReverseInit
<1>3. link \in [1 .. size -> Int]
  BY <1>1, <1>2 DEF Wild
<1>4. \E l \in {0, Wild} : Turned(0, l)
  <2>1. CASE size = 0
    BY <1>1, <2>1 DEF Turned
  <2>2. CASE size # 0
    <3>1. \A i \in 0 + 1 .. size : link[i] = IF i < size THEN i + 1 ELSE last
      BY <1>1, <1>2
    <3>2. p = (IF 0 < size THEN 0 + 1 ELSE last) /\ \A i \in 1 .. 0 : link[i] = i - 1
      BY <1>1, <2>2
    <3> QED
      BY <1>1, <3>1, <3>2, Zenon DEF Turned
  <2> QED
    BY <2>1, <2>2
<1>5. 0 \in 0 .. size
  BY <1>1
<1>6. ListKept
  BY <1>1, <1>4, <1>5, KeptTurned DEF TurnedSoFar
<1> QED
  BY <1>1, <1>3, <1>6 DEF ReverseInv

LEMMA ReverseInvStep == ReverseInv /\ [ReverseNext]_reverseVars => ReverseInv'
<1> SUFFICES ASSUME ReverseInv, [ReverseNext]_reverseVars PROVE ReverseInv'
  OBVIOUS
<1>0. size \in Nat /\ link \in [1 .. size -> Int] /\ Wild = -1 /\ size' = size
  BY DEF ReverseInv, ReverseNext, Turn, TurnEnds, reverseVars, Wild
<1>1. PICK n \in 0 .. size, last \in {0, Wild} :
        /\ Turned(n, last)
        /\ reverse = "done" => n = size /\ last = 0
        /\ reverse = "fault" => last = Wild
  BY <1>0, KeptTurned DEF ReverseInv, TurnedSoFar
<1>2. ASSUME NEW m \in 0 .. size, NEW l \in {0, Wild}, Turned(m, l)',
             reverse' = "done" => m = size /\ l = 0, reverse' = "fault" => l = Wild
      PROVE  ListKept'
  <2>1. (size \in Nat => (ListKept <=> TurnedSoFar))'
    BY KeptTurned, PTL
  <2>2. TurnedSoFar'
    BY <1>0, <1>2 DEF TurnedSoFar, Wild
  <2> QED
    BY <1>0, <2>1, <2>2
<1>3. CASE UNCHANGED reverseVars
  <2>1. Turned(n, last)' /\ reverse' = reverse /\ link' = link
    BY <1>1, <1>3 DEF Turned, reverseVars
  <2>2. ListKept'
    BY <1>1, <1>2, <2>1
  <2> QED
    BY <1>0, <2>1, <2>2 DEF ReverseInv
<1>4. CASE Turn
  <2>1. /\ p \in 1 .. size /\ link' = [link EXCEPT ![p] = newH] /\ newH' = p /\ p' = link[p]
        /\ reverse' = reverse /\ reverse = "run"
    BY <1>4 DEF Turn
  <2>2. p = n + 1 /\ n < size /\ newH = n
    BY <1>0, <1>1, <2>1 DEF Turned
  <2>3. n + 1 \in 0 .. size /\ n \in Int
    BY <1>0, <2>2
  <2>4. \A i \in 1 .. size : link'[i] = IF i = n + 1 THEN n ELSE link[i]
    BY <1>0, <2>1, <2>2
  <2>5. Turned(n + 1, last)'
    <3>1. newH' = n + 1 /\ p' = IF n + 1 < size THEN (n + 1) + 1 ELSE last
      BY <1>0, <1>1, <2>1, <2>2 DEF Turned
    <3>2. \A i \in 1 .. n + 1 : link'[i] = i - 1
      <4> TAKE i \in 1 .. n + 1
      <4>1. i \in 1 .. size /\ (i # n + 1 => i \in 1 .. n) /\ (n + 1) - 1 = n
        BY <1>0, <2>2, <2>3
      <4> QED
        BY <1>1, <2>4, <4>1 DEF Turned
    <3>3. \A i \in (n + 1) + 1 .. size : link'[i] = IF i < size THEN i + 1 ELSE last
      <4> TAKE i \in (n + 1) + 1 .. size
      <4>1. i \in 1 .. size /\ i # n + 1 /\ i \in n + 1 .. size
        BY <1>0, <2>2, <2>3
      <4> QED
        BY <1>1, <2>4, <4>1 DEF Turned
    <3> QED
      BY <1>0, <3>1, <3>2, <3>3 DEF Turned
  <2>6. link' \in [1 .. size -> Int]
    BY <1>0, <2>1, <2>2, <2>3
  <2>7. ListKept'
    BY <1>2, <2>1, <2>3, <2>5
  <2> QED
    BY <1>0, <2>1, <2>6, <2>7 DEF ReverseInv
<1>5. CASE TurnEnds
  <2>1. /\ UNCHANGED <<link, p, newH>> /\ p \notin 1 .. size
        /\ reverse' = IF p = 0 THEN "done" ELSE "fault"
    BY <1>5 DEF TurnEnds
  <2>2. n = size /\ p = last
    BY <1>0, <1>1, <2>1 DEF Turned
  <2>3. Turned(n, last)'
    BY <1>0, <1>1, <2>1 DEF Turned
  <2>4. (reverse' = "done" => last = 0) /\ (reverse' = "fault" => last = Wild)
    BY <1>0, <2>1, <2>2
  <2>5. ListKept'
    BY <1>2, <2>2, <2>3, <2>4
  <2> QED
    BY <1>0, <2>1, <2>5 DEF ReverseInv
<1> QED
  BY <1>3, <1>4, <1>5 DEF ReverseNext

\* For a list of any size, reverseNodeList loses, repeats and moves no node,
\* and when it is done the list is in the opposite order.
THEOREM ListAlwaysKept == ReverseSpec => []ListKept
<1>1. ReverseInv => ListKept
  BY DEF ReverseInv
<1> QED
  BY <1>1, ReverseInvInit, ReverseInvStep, PTL DEF ReverseSpec
===============================================================================
