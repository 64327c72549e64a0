---------------------------- MODULE MCSKTimerTest ----------------------------
(* Instances of SKTimerTest for TLC. *)
EXTENDS SKTimerTest, TLC

\* The timers are interchangeable; the main thread is not a worker.
TimerSymmetry == Permutations(Timers)
=============================================================================
