-------------------------- MODULE KeyValueObserving --------------------------
(***************************************************************************)
(* What an observer may rely on: every setter call stores its value and    *)
(* sends one notification to each registration of the object whose key is  *)
(* the getter of that setter.  No class, method table or isa pointer here. *)
(***************************************************************************)
EXTENDS Naturals, Sequences

CONSTANTS Objects, Observers, Names, Values, Nil

VARIABLES value, observers, sent,
          calls \* number of calls, which tells calls apart

kvVars == <<value, observers, sent, calls>>

Keys == [upper : BOOLEAN, name : Names]
\* The key that a setter reports: its first letter is always lower case.
Reported(name) == [upper |-> FALSE, name |-> name]

Notifications(o, name, v) ==
  {[reg |-> observers[o][i].reg, obj |-> o, name |-> name,
    old |-> value[o][name], new |-> v, n |-> calls] :
     i \in {j \in DOMAIN observers[o] : observers[o][j].key = Reported(name)}}

KVInit ==
  /\ value = [o \in Objects |-> [m \in Names |-> Nil]]
  /\ observers = [o \in Objects |-> <<>>]
  /\ sent = {}
  /\ calls = 0

Change(o, name, v) ==
  /\ sent' = sent \cup Notifications(o, name, v)
  /\ value' = [value EXCEPT ![o][name] = v]
  /\ calls' = calls + 1
  /\ UNCHANGED observers

Register(o, b, k) ==
  /\ observers' = [observers EXCEPT ![o] = Append(@, [reg |-> calls, observer |-> b, key |-> k])]
  /\ calls' = calls + 1
  /\ UNCHANGED <<value, sent>>

Unregister(o, i) ==
  /\ observers' = [observers EXCEPT ![o] =
       SubSeq(@, 1, i - 1) \o SubSeq(@, i + 1, Len(@))]
  /\ calls' = calls + 1
  /\ UNCHANGED <<value, sent>>

\* A call that is refused or finds nothing.
NoEffect == calls' = calls + 1 /\ UNCHANGED <<value, observers, sent>>

\* The references to an observer are weak.
Forget(b) ==
  /\ observers' = [o \in Objects |-> [i \in DOMAIN observers[o] |->
       IF observers[o][i].observer = b THEN [observers[o][i] EXCEPT !.observer = Nil]
       ELSE observers[o][i]]]
  /\ UNCHANGED <<value, sent, calls>>

KVNext ==
  \/ \E o \in Objects, m \in Names, v \in Values : Change(o, m, v)
  \/ \E o \in Objects, b \in Observers, k \in Keys : Register(o, b, k)
  \/ \E o \in Objects : \E i \in DOMAIN observers[o] : Unregister(o, i)
  \/ NoEffect
  \/ \E b \in Observers : Forget(b)

KVSpec == KVInit /\ [][KVNext]_kvVars
=============================================================================
