------------------------------ MODULE MCRunLoop ------------------------------
(***************************************************************************)
(* What hangs on run loops, for TLC.  Each behaviour uses the timers of    *)
(* the screen SKRunloopVC, a thread of SKAliveThread or the monitor        *)
(* LXDAppFluecyMonitor, while the variables of the others stay as they     *)
(* are.                                                                    *)
(***************************************************************************)
EXTENDS SKRunloopVC, SKAliveThread, LXDAppFluecyMonitor

VARIABLE using  \* "screen", "thread" or "monitor"
allVars == <<screenVars, vars, monitorVars, using>>

\* The thread of an object that nobody uses.
NoThread == Init /\ variant = "init"

MCInit ==
  /\ ScreenInit /\ MonitorInit
  /\ \/ using \in {"screen", "monitor"} /\ NoThread
     \/ using = "thread" /\ Init

\* A step of the part that is used.
Screen(A) == using = "screen" /\ A /\ UNCHANGED <<vars, monitorVars, using>>
Alive(A) == using = "thread" /\ A /\ UNCHANGED <<screenVars, monitorVars, using>>
Monitor(A) == using = "monitor" /\ A /\ UNCHANGED <<screenVars, vars, using>>

MCNext == Screen(ScreenNext) \/ Alive(Next) \/ Monitor(MonitorNext)

\* The fairness of FairSpec and of MonitorSpec.
MCSpec ==
  /\ MCInit /\ [][MCNext]_allVars
  /\ WF_allVars(Alive(ThreadStep))
  /\ WF_allVars(Monitor(MainSteps /\ ~fault)) /\ SF_allVars(Monitor(ServeMainQueue /\ ~fault))
  /\ WF_allVars(Monitor(EventLoop /\ ~fault)) /\ WF_allVars(Monitor(FluencyLoop /\ ~fault))
==============================================================================
