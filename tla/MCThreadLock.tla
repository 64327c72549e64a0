----------------------------- MODULE MCThreadLock -----------------------------
(***************************************************************************)
(* The classes under Thread&Lock for TLC.  Each behaviour is a demo of     *)
(* SKGCDDemos, or calls of the locking methods of SKGCDSafeAnalysis, while *)
(* the variables of the other stay as they are.                            *)
(***************************************************************************)
EXTENDS SKGCDDemos, SKGCDSafeAnalysis

VARIABLE using  \* "queues" or "locks"
allVars == <<dispatchVars, vars, using>>

\* Nothing runs: createDeadLock, which prints nothing, before its first step, and
\* an object with no calls.
NoDemo == DispatchInit /\ demo = "createDeadLock"
NoCalls == Init /\ called = {"synchronizedMethod"}

MCInit ==
  \/ using = "queues" /\ DispatchInit /\ NoCalls
  \/ using = "locks" /\ NoDemo /\ Init

Queueing == using = "queues" /\ DispatchNext /\ UNCHANGED <<vars, using>>
Locking == using = "locks" /\ Next /\ UNCHANGED <<dispatchVars, using>>

MCNext == Queueing \/ Locking

\* The fairness of FairDispatch and of FairSpec.
MCSpec ==
  /\ MCInit /\ [][MCNext]_allVars
  /\ WF_allVars(Queueing)
  /\ \A t \in Threads : SF_allVars(using = "locks" /\ Progress(t) /\ UNCHANGED <<dispatchVars, using>>)
===============================================================================
