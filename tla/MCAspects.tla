------------------------------ MODULE MCAspects ------------------------------
(* Instances of Aspects for TLC: a class S, its subclass A, and a class K   *)
(* that KVO made for an object of class A.                                  *)
EXTENDS Aspects, TLC

CONSTANTS S, A, K, a, k, p, q

SuperClasses ==
  [n \in Names |-> CASE n = S -> {S} [] n = A -> {A, S} [] n = K -> {K, A, S}]
StatedClass == [n \in Names |-> IF n = K THEN A ELSE n]
ClassOfObject == [o \in Objects |-> IF o = k THEN K ELSE A]

\* S implements both selectors, A overrides one of them.
Overridden == {({S} \X Selectors) \cup {<<A, p>>}}

\* An aspect before the method that is removed automatically, and one instead of it.
SomeOptions == {<<"before", TRUE>>, <<"instead", FALSE>>}

Symmetry == Permutations(Tokens) \cup Permutations(Senders)
=============================================================================
