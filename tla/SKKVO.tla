-------------------------------- MODULE SKKVO --------------------------------
(***************************************************************************)
(* NSObject+SKKVO.m: key-value observing by a subclass made at run time.   *)
(* The methods run on the main thread, the notification blocks on a global *)
(* queue.  A class is its original class and the number of times the       *)
(* prefix SKKVOClassPrefix_ was put before its name; its superclass has    *)
(* one prefix less.  A key is a name and the case of its first letter.     *)
(***************************************************************************)
EXTENDS Naturals, Sequences, SequencesExt

CONSTANTS Objects, Observers, Classes, Names, Values, Nil,
          ClassOf,  \* the class each object was made with
          Settable, \* the names for which a class has a setter
          MaxCalls  \* bound on the calls of the interface

ASSUME KVOAssumption ==
  /\ ClassOf \in [Objects -> Classes]
  /\ Settable \in [Classes -> SUBSET Names]
  /\ Nil \notin Observers
  /\ MaxCalls \in Nat

VARIABLES
  isa,       \* class of each object
  classes,   \* registered classes
  methods,   \* setters that a class itself implements
  observers, \* associated array of SKObservationInfo of each object
  alive,     \* observers that are not deallocated
  value,     \* value of each property of each object
  sent,      \* notification blocks given to the global queue
  delivered, \* the ones that ran
  calls      \* number of calls

vars == <<isa, classes, methods, observers, alive, value, sent, delivered, calls>>

Keys == [upper : BOOLEAN, name : Names]
Class == [base : Classes, prefixes : Nat]
Info == [reg : Nat, observer : Observers \cup {Nil}, key : Keys]
Notification == [reg : Nat, obj : Objects, name : Names,
                 old : Values \cup {Nil}, new : Values, n : Nat]

Init ==
  /\ isa = [o \in Objects |-> [base |-> ClassOf[o], prefixes |-> 0]]
  /\ classes = {[base |-> c, prefixes |-> 0] : c \in Classes}
  /\ methods = UNION {{<<[base |-> c, prefixes |-> 0], m>> : m \in Settable[c]} : c \in Classes}
  /\ observers = [o \in Objects |-> <<>>]
  /\ alive = Observers
  /\ value = [o \in Objects |-> [m \in Names |-> Nil]]
  /\ sent = {}
  /\ delivered = {}
  /\ calls = 0
-----------------------------------------------------------------------------
\* set<Name>: and back; a setter is identified with its name
setterForGetter(key) == key.name
getterForSetter(name) == [upper |-> FALSE, name |-> name]

hasPrefix(c) == c.prefixes > 0
superclass(c) == [c EXCEPT !.prefixes = @ - 1]

\* [self class]: kvo_class in a class made here
kvo_class(o) == IF hasPrefix(isa[o]) THEN superclass(isa[o]) ELSE isa[o]

\* Mutant: a class that is there already is taken for the object's own.
ObservedClassKept(o) ==
  LET made == [isa[o] EXCEPT !.prefixes = @ + 1] IN
  IF hasPrefix(isa[o]) \/ made \in classes THEN isa[o] ELSE made

\* Mutant: no check of the prefix.
ObservedClassAgain(o) == [isa[o] EXCEPT !.prefixes = @ + 1]

\* The class that sk_addObserver: gives the object: makeKvoClassWithOriginalClassName:
\* finds the class of that name or makes it
ObservedClass(o) ==
  IF hasPrefix(isa[o]) THEN isa[o] ELSE [isa[o] EXCEPT !.prefixes = @ + 1]

\* sk_addObserver:forKey:withBlock:
sk_addObserver(o, b, key) ==
  /\ calls < MaxCalls /\ b \in alive
  /\ calls' = calls + 1
  /\ \/ /\ setterForGetter(key) \notin Settable[kvo_class(o).base] \* throws
        /\ UNCHANGED <<isa, classes, methods, observers>>
     \/ /\ setterForGetter(key) \in Settable[kvo_class(o).base]
        /\ isa' = [isa EXCEPT ![o] = ObservedClass(o)]
        /\ classes' = classes \cup {ObservedClass(o)}
        /\ methods' = methods \cup {<<ObservedClass(o), setterForGetter(key)>>}
        /\ observers' = [observers EXCEPT ![o] =
             Append(@, [reg |-> calls, observer |-> b, key |-> key])]
  /\ UNCHANGED <<alive, value, sent, delivered>>

\* Indices that sk_removeObserver: compares equal; it takes the first.
Matching(infos, b, key) ==
  {i \in DOMAIN infos : infos[i].observer = b /\ infos[i].key = key}

\* Mutant: only the key is compared.
WithoutKey(infos, b, key) ==
  LET found == {i \in DOMAIN infos : infos[i].key = key} IN
  IF found = {} THEN infos
  ELSE RemoveAt(infos, CHOOSE i \in found : \A j \in found : i <= j)

\* The array after sk_removeObserver:forKey:
Without(infos, b, key) ==
  LET found == Matching(infos, b, key) IN
  IF found = {} THEN infos
  ELSE RemoveAt(infos, CHOOSE i \in found : \A j \in found : i <= j)

\* sk_removeObserver:forKey:
sk_removeObserver(o, b, key) ==
  /\ calls < MaxCalls /\ b \in alive
  /\ calls' = calls + 1
  /\ observers' = [observers EXCEPT ![o] = Without(@, b, key)]
  /\ UNCHANGED <<isa, classes, methods, alive, value, sent, delivered>>

\* Mutant: the value is read after the original setter ran.
OldValueLate(o, name, v) == v

\* What kvo_setter reads before it calls the original setter.
OldValue(o, name, v) == value[o][name]

\* A setter of the object: kvo_setter where the object's class implements it, the
\* original one otherwise.  name is a property that starts with a small letter, as all
\* of the observed classes do: kvo_setter reads the old value under the name that
\* getterForSetter makes, which always starts with one.
Setter(o, name, v) ==
  /\ calls < MaxCalls
  /\ name \in Settable[ClassOf[o]]
  /\ calls' = calls + 1
  /\ value' = [value EXCEPT ![o][name] = v]
  /\ \/ /\ hasPrefix(isa[o]) /\ <<isa[o], name>> \in methods
        /\ sent' = sent \cup
             {[reg |-> observers[o][i].reg, obj |-> o, name |-> name,
               old |-> OldValue(o, name, v), new |-> v, n |-> calls] :
                i \in {j \in DOMAIN observers[o] : observers[o][j].key = getterForSetter(name)}}
     \/ /\ ~(hasPrefix(isa[o]) /\ <<isa[o], name>> \in methods)
        /\ UNCHANGED sent
  /\ UNCHANGED <<isa, classes, methods, observers, alive, delivered>>

\* The global queue runs a notification block, in any order.
Deliver(n) ==
  /\ n \in sent \ delivered
  /\ delivered' = delivered \cup {n}
  /\ UNCHANGED <<isa, classes, methods, observers, alive, value, sent, calls>>

\* Weak references to an object that is being deallocated read nil.
Cleared(infos, b) ==
  [i \in DOMAIN infos |->
     IF infos[i].observer = b THEN [infos[i] EXCEPT !.observer = Nil] ELSE infos[i]]

\* dealloc of an observer such as SKKVCKVOVC, which calls sk_removeObserver:self
\* for a key there
Dealloc(b, o, key) ==
  /\ b \in alive
  /\ alive' = alive \ {b}
  /\ observers' = [p \in Objects |->
       IF p = o THEN Without(Cleared(observers[p], b), b, key) ELSE Cleared(observers[p], b)]
  /\ UNCHANGED <<isa, classes, methods, value, sent, delivered, calls>>

Next ==
  \/ \E o \in Objects, b \in Observers, k \in Keys :
       \/ sk_addObserver(o, b, k) \/ sk_removeObserver(o, b, k) \/ Dealloc(b, o, k)
  \/ \E o \in Objects, m \in Names, v \in Values : Setter(o, m, v)
  \/ \E n \in sent : Deliver(n)

Spec == Init /\ [][Next]_vars
-----------------------------------------------------------------------------
\* The values of the variables; what was delivered was sent, and no reference to
\* an observer dangles.
TypeOK ==
  /\ isa \in [Objects -> Class]
  /\ classes \subseteq Class
  /\ methods \subseteq Class \X Names
  /\ observers \in [Objects -> Seq(Info)]
  /\ alive \subseteq Observers
  /\ \A o \in Objects : \A i \in DOMAIN observers[o] : observers[o][i].observer \in alive \cup {Nil}
  /\ value \in [Objects -> [Names -> Values \cup {Nil}]]
  /\ sent \subseteq Notification
  /\ delivered \subseteq sent
  /\ calls \in Nat

\* kvo_class hides the class made at run time: [object class] is the class the
\* object was made with, however many observers were added.
ClassHidden ==
  \A o \in Objects : kvo_class(o) = [base |-> ClassOf[o], prefixes |-> 0]

\* Consecutive changes of a property report a chain of values: what kvo_setter
\* gives as the old value is the new value of the change before, as long as a
\* registration that was told of that one is still there.
OldValuesChain ==
  \A s, t \in sent :
    /\ s.obj = t.obj /\ s.name = t.name /\ s.n < t.n
    /\ ~\E u \in sent : u.obj = s.obj /\ u.name = s.name /\ s.n < u.n /\ u.n < t.n
    /\ \E i \in DOMAIN observers[s.obj] : observers[s.obj][i].reg = s.reg
    => t.old = s.new

Orphans(o) == {i \in DOMAIN observers[o] : observers[o][i].observer = Nil}
OrphanRegs(o) == {observers[o][i].reg : i \in Orphans(o)}

\* A registration whose observer is gone is never removed again: dealloc's own
\* sk_removeObserver: does not find it, nor does a later one.
OrphansStay == [][\A o \in Objects : OrphanRegs(o) \subseteq OrphanRegs(o)']_vars

\* dealloc leaves every registration of the observer behind.
DeallocLeavesAll ==
  [][\A b \in Observers : b \in alive \ alive' =>
       \A o \in Objects : Len(observers'[o]) = Len(observers[o])]_vars

Contract == INSTANCE KeyValueObserving

\* The subclass, its methods and the isa pointer are invisible: sk_addObserver:,
\* sk_removeObserver: and the setters behave as the contract says.
ImplementsObserving == Contract!KVSpec
=============================================================================
