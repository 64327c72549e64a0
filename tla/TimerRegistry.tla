---------------------------- MODULE TimerRegistry ----------------------------
(***************************************************************************)
(* What the class methods of SKTimerTest promise about the table of        *)
(* timers, with each call atomic: executeTask adds a timer under the key   *)
(* "number of entries", cancelTask cancels and removes whatever the key    *)
(* names.  SKTimerTest.tla implements this with a semaphore.               *)
(***************************************************************************)
EXTENDS Naturals, FiniteSets

CONSTANT Timers

VARIABLES registry,  \* the table: a function from task identifiers to timers
          destroyed, \* the timers that were cancelled
          used       \* the timers that were ever added

registryVars == <<registry, destroyed, used>>

Without(f, k) == [i \in DOMAIN f \ {k} |-> f[i]]
With(f, k, t) == [i \in DOMAIN f \cup {k} |-> IF i = k THEN t ELSE f[i]]

RegistryInit ==
  /\ registry = [i \in {} |-> {}]
  /\ destroyed = {}
  /\ used = {}

Register(t) ==
  /\ t \notin used
  /\ registry' = With(registry, Cardinality(DOMAIN registry), t)
  /\ used' = used \cup {t}
  /\ UNCHANGED destroyed

Cancel(k) ==
  /\ registry' = Without(registry, k)
  /\ destroyed' = destroyed \cup {registry[i] : i \in DOMAIN registry \cap {k}}
  /\ UNCHANGED used

RegistryNext ==
  \/ \E t \in Timers : Register(t)
  \/ \E k \in DOMAIN registry : Cancel(k)

RegistrySpec == RegistryInit /\ [][RegistryNext]_registryVars
=============================================================================
