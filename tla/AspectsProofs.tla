----------------------------- MODULE AspectsProofs -----------------------------
(***************************************************************************)
(* Proofs about Aspects, for any classes, objects, aspects and senders:    *)
(* its type invariant, what the aliases of a forwarded selector stand for, *)
(* that a method is hooked once per hierarchy, and that automatic removal  *)
(* removes.                                                                *)
(***************************************************************************)
EXTENDS Aspects, TLAPS

\* A leaf that names no prover is tried with SMT, with Zenon, and at length with
\* SMT again.
USE SMT, Zenon, SMTT(30)

SendRecord == [at : {"idle", "forward", "instead", "runInstead", "after", "raise", "remove"},
               object : Objects \cup {Nil}, selector : Selectors \cup {Nil},
               containers : SUBSET Nat, remove : SUBSET Tokens, called : SUBSET Tokens,
               result : {"none", "unrecognized", "skipped", "instead"} \cup Implementations]

\* What a send works on.
SendTyped ==
  /\ send \in [Senders -> SendRecord]
  /\ \A x \in Senders : send[x].at # "idle" =>
       /\ send[x].object \in Objects /\ send[x].selector \in Selectors
       /\ isa[send[x].object] # Nil
  /\ \A x \in Senders : \A i \in send[x].containers : i \in 0..Len(contents)

\* What the holder of the lock works on: a registered aspect of a live object.
OpTyped ==
  /\ op \in [kind : {"none", "add", "remove"}, 
             at : {"none", "hookClass", "alias", "replace", "restore", "cleanUp"},
             aspect : Tokens \cup {Nil}, by : Senders \cup {Nil}]
  /\ op.kind = "none" => op = NoOp
  /\ op # NoOp => /\ op.aspect \in Tokens
                  /\ token[op.aspect] \in Registration
                  /\ Alive(OpSubject)

\* Aspects that are live or in a container are registered.
Registered ==
  /\ \A t \in live : token[t] \in Registration
  /\ \A t \in live : Alive(token[t].subject)
  /\ \A i \in 1..Len(contents) : \A t \in contents[i] : token[t] \in Registration

Typing == TypeOK /\ SendTyped /\ OpTyped /\ Registered

-----------------------------------------------------------------------------
LEMMA BaseClass ==
  ASSUME NEW n \in Names
  PROVE  Base(n) \in Classes /\ Base(n) \in BaseClasses /\ Base(n)[1] = n /\ ~Suffixed(Base(n))
BY Zenon DEF Base, Classes, BaseClasses, Suffixed

LEMMA ClassKinds ==
  ASSUME NEW c \in Classes
  PROVE  /\ c[1] \in Names
         /\ Suffixed(c) \/ c = Base(c[1])
<1>1. PICK n \in Names, b \in BOOLEAN : c = <<n, b>>
  BY DEF Classes
<1>2. c[1] = n /\ c[2] = b
  BY <1>1
<1>3. CASE b = TRUE
  BY <1>2, <1>3, Zenon DEF Suffixed
<1>4. CASE b = FALSE
  BY <1>1, <1>2, <1>4, Zenon DEF Base
<1> QED
  BY <1>1, <1>3, <1>4, Zenon

\* Classes form chains upwards, so one of some superclasses is the nearest.
LEMMA NearestIn ==
  ASSUME NEW c \in Classes, NEW cs \in SUBSET Up(c), cs # {}
  PROVE  Nearest(cs) \in cs /\ cs \subseteq Up(Nearest(cs))
<1>1. CASE c \in cs
  BY <1>1 DEF Nearest
<1>2. CASE c \notin cs
  <2> DEFINE ms == {n \in Above[c[1]] : Base(n) \in cs}
  <2>1. \A d \in cs : \E n \in ms : d = Base(n)
    <3> TAKE d \in cs
    <3>1. d \in {Base(n) : n \in Above[c[1]]}
      BY <1>2 DEF Up
    <3>2. PICK n \in Above[c[1]] : d = Base(n)
      BY <3>1
    <3> QED
      BY <3>2
  <2>2. ms # {} /\ ms \in SUBSET Above[c[1]] /\ c[1] \in Names
    <3>1. ms \in SUBSET Above[c[1]] /\ c[1] \in Names
      BY ClassKinds
    <3> HIDE DEF ms
    <3> QED
      BY <2>1, <3>1
  <2> HIDE DEF ms
  <2>3. PICK m \in ms : ms \subseteq Above[m]
    <3>1. \A ks \in SUBSET Above[c[1]] : ks # {} => \E m \in ks : ks \subseteq Above[m]
      BY <2>2, AspectsAssumption, Zenon
    <3> QED
      BY <2>2, <3>1, Zenon
  <2>4. cs \subseteq Up(Base(m))
    BY <2>1, <2>3, Zenon DEF Up, Base
  <2>5. Base(m) \in cs
    BY <2>3 DEF ms
  <2> QED
    BY <2>4, <2>5 DEF Nearest
<1> QED
  BY <1>1, <1>2

LEMMA UpClasses ==
  ASSUME NEW c \in Classes
  PROVE  /\ c \in Up(c) /\ Up(c) \subseteq Classes
         /\ \A d \in Up(c) : d = c \/ d \in BaseClasses
<1>1. c[1] \in Names /\ Above[c[1]] \subseteq Names
  BY ClassKinds, AspectsAssumption
<1>2. \A d \in Up(c) : d = c \/ \E n \in Names : d = Base(n)
  BY <1>1 DEF Up
<1> QED
  BY <1>2, BaseClass DEF Up

\* What class_getInstanceMethod finds in a table.
LEMMA LookupFinds ==
  ASSUME NEW table, NEW c \in Classes, NEW s
  PROVE  \/ Lookup(table, c, s) = Nil /\ \A d \in Up(c) : table[d][s] = Nil
         \/ \E d \in Up(c) : table[d][s] # Nil /\ Lookup(table, c, s) = table[d][s]
<1> DEFINE cs == {d \in Up(c) : table[d][s] # Nil}
<1>1. CASE cs = {}
  BY <1>1 DEF Lookup
<1>2. CASE cs # {}
  <2>1. Nearest(cs) \in cs
    BY <1>2, NearestIn
  <2>2. Lookup(table, c, s) = table[Nearest(cs)][s]
    BY <1>2 DEF Lookup
  <2> HIDE DEF cs
  <2>3. PICK d \in cs : d = Nearest(cs)
    BY <2>1
  <2> QED
    BY <2>2, <2>3, Zenon DEF cs
<1> QED
  BY <1>1, <1>2

LEMMA UpOrder ==
  ASSUME NEW c \in Classes, NEW d \in Up(c)
  PROVE  /\ Up(d) \subseteq Up(c)
         /\ c \in Up(d) => d = c
         /\ d[1] \in Above[c[1]] /\ c[1] \in Names
<1>0. c[1] \in Names /\ c[1] \in Above[c[1]]
  BY ClassKinds, AspectsAssumption
<1>1. CASE d = c
  BY <1>0, <1>1
<1>2. CASE d # c
  <2>1. PICK n \in Above[c[1]] : d = Base(n)
    BY <1>2 DEF Up
  <2>2. n \in Names /\ d[1] = n
    BY <1>0, <2>1, AspectsAssumption, BaseClass
  <2>3. Above[n] \subseteq Above[c[1]] /\ (c[1] \in Above[n] => n = c[1])
    BY <1>0, <2>1, AspectsAssumption
  <2>4. Up(d) \subseteq Up(c)
    BY <2>1, <2>2, <2>3 DEF Up
  <2>5. ASSUME c \in Up(d) PROVE FALSE
    <3>1. PICK m \in Above[n] : c = Base(m)
      BY <1>2, <2>2, <2>5 DEF Up
    <3>2. m \in Names
      BY <2>2, <3>1, AspectsAssumption
    <3>3. c[1] = m
      BY <3>1, <3>2, BaseClass
    <3> QED
      BY <1>2, <2>1, <2>3, <3>1, <3>3
  <2> QED
    BY <1>0, <2>1, <2>2, <2>4, <2>5
<1> QED
  BY <1>1, <1>2

\* Of the classes upwards that have an entry, the one that is found is below
\* the others.
LEMMA LookupNearest ==
  ASSUME NEW table, NEW c \in Classes, NEW s, Lookup(table, c, s) # Nil
  PROVE  \E d \in Up(c) : /\ table[d][s] # Nil /\ Lookup(table, c, s) = table[d][s]
                          /\ \A e \in Up(c) : table[e][s] # Nil => e \in Up(d)
<1> DEFINE cs == {d \in Up(c) : table[d][s] # Nil}
<1>1. cs # {}
  BY DEF Lookup
<1>2. Nearest(cs) \in cs /\ cs \subseteq Up(Nearest(cs))
  BY <1>1, NearestIn
<1>3. Lookup(table, c, s) = table[Nearest(cs)][s]
  BY <1>1 DEF Lookup
<1> HIDE DEF cs
<1>4. PICK d \in cs : d = Nearest(cs)
  BY <1>2
<1>5. d \in Up(c) /\ table[d][s] # Nil /\ \A e \in Up(c) : table[e][s] # Nil => e \in Up(d)
  BY <1>2, <1>4 DEF cs
<1> QED
  BY <1>3, <1>4, <1>5

\* An implementation of the class itself is the one that is found.
LEMMA LookupOwn ==
  ASSUME NEW table, NEW c \in Classes, NEW s, table[c][s] # Nil
  PROVE  Lookup(table, c, s) = table[c][s]
<1>1. c \in Up(c)
  BY UpClasses
<1>2. Lookup(table, c, s) # Nil
  BY <1>1, LookupFinds
<1>3. PICK d \in Up(c) : /\ Lookup(table, c, s) = table[d][s]
                         /\ \A e \in Up(c) : table[e][s] # Nil => e \in Up(d)
  BY <1>2, LookupNearest
<1>4. d = c
  BY <1>1, <1>3, UpOrder
<1> QED
  BY <1>3, <1>4

LEMMA LookupType ==
  ASSUME NEW table \in [Classes -> [Selectors -> Implementations]],
         NEW c \in Classes, NEW s \in Selectors
  PROVE  Lookup(table, c, s) \in Implementations
<1>1. Nil \in Implementations
  BY DEF Implementations
<1> QED
  BY <1>1, LookupFinds, UpClasses

LEMMA TableUpdate ==
  ASSUME NEW table \in [Classes -> [Selectors -> Implementations]],
         NEW c \in Classes, NEW s \in Selectors, NEW m \in Implementations
  PROVE  [table EXCEPT ![c][s] = m] \in [Classes -> [Selectors -> Implementations]]
OBVIOUS

LEMMA ClassOfSubjectType ==
  ASSUME Typing, NEW x \in Subjects, Alive(x)
  PROVE  ClassOfSubject(x) \in Classes
<1>1. BaseClasses \subseteq Classes
  BY BaseClass DEF BaseClasses
<1> QED
  BY <1>1 DEF Typing, TypeOK, ClassOfSubject, Alive, Subjects

\* The class, the selector and the subject that the holder of the lock works on.
LEMMA OpTypes ==
  ASSUME Typing, op # NoOp
  PROVE  /\ op.aspect \in Tokens /\ token[op.aspect] \in Registration
         /\ OpSubject \in Subjects /\ OpSelector \in Selectors
         /\ OpClass \in Classes
         /\ Suffixed(OpClass) => OpSubject \in Objects
         /\ ~Suffixed(OpClass) => OpClass \in BaseClasses
<1>1. op.aspect \in Tokens /\ token[op.aspect] \in Registration /\ Alive(OpSubject)
  BY DEF Typing, OpTyped
<1>2. OpSubject \in Subjects /\ OpSelector \in Selectors
  BY <1>1 DEF OpSubject, OpSelector, Registration
<1>3. OpClass \in Classes
  BY <1>1, <1>2, ClassOfSubjectType DEF OpClass
<1>4. Suffixed(OpClass) => OpSubject \in Objects
  BY <1>2, BaseClass DEF OpClass, ClassOfSubject, Subjects, BaseClasses
<1>5. ~Suffixed(OpClass) => OpClass \in BaseClasses
  BY <1>3, ClassKinds, BaseClass
<1> QED
  BY <1>1, <1>2, <1>3, <1>4, <1>5

-----------------------------------------------------------------------------
USE DEF runtime, registry, tracking

LEMMA TypingInit == Init => Typing
<1> SUFFICES ASSUME Init PROVE Typing
  OBVIOUS
<1>1. TypeOK
  <2>1. imp \in [Classes -> [Selectors -> Implementations]]
    BY ClassKinds DEF Init, Implementations
  <2>2. isa \in [Objects -> Classes \cup {Nil}]
    BY AspectsAssumption, BaseClass DEF Init
  <2>3. contents \in Seq(SUBSET Tokens) /\ container \in [Subjects \X Selectors -> 0..Len(contents)]
    BY DEF Init
  <2> QED
    BY <2>1, <2>2, <2>3 DEF Init, TypeOK, Implementations, NoOp, NoSend
<1>2. SendTyped
  <2>1. NoSend \in SendRecord
    BY DEF NoSend, SendRecord
  <2>2. NoSend.at = "idle" /\ NoSend.containers = {}
    BY DEF NoSend
  <2>3. send = [x \in Senders |-> NoSend]
    BY DEF Init
  <2> QED
    BY <2>1, <2>2, <2>3 DEF SendTyped
<1>3. OpTyped /\ Registered
  BY DEF Init, OpTyped, Registered, NoOp
<1> QED
  BY <1>1, <1>2, <1>3 DEF Typing

\* The aspects a send calls are registered, and so are those it notes.
LEMMA AspectsAtType ==
  ASSUME Typing, NEW ids, \A i \in ids : i \in 0..Len(contents), NEW position
  PROVE  \A t \in AspectsAt(ids, position) : t \in Tokens /\ token[t] \in Registration
<1>1. \A i \in ids \ {0} : i \in 1..Len(contents)
  BY DEF Typing, TypeOK
<1>2. \A i \in 1..Len(contents) : \A t \in contents[i] : t \in Tokens /\ token[t] \in Registration
  <2>1. contents \in Seq(SUBSET Tokens)
    BY Zenon DEF Typing, TypeOK
  <2>2. \A i \in 1..Len(contents) : contents[i] \subseteq Tokens
    BY <2>1
  <2> QED
    BY <2>2, Zenon DEF Typing, Registered
<1> QED
  BY <1>1, <1>2 DEF AspectsAt

LEMMA InvokeTyped ==
  ASSUME Typing, NEW x \in Senders, NEW aspects, NEW next \in SendRecord,
         next.at # "idle" =>
           next.object \in Objects /\ next.selector \in Selectors /\ isa[next.object] # Nil,
         \A i \in next.containers : i \in 0..Len(contents),
         \A t \in aspects : t \in Tokens /\ token[t] \in Registration,
         Invoke(x, aspects, next),
         UNCHANGED <<defined, runtime, registry, tracking, op, executed>>
  PROVE  Typing'
<1> DEFINE automatic == {t \in aspects : token[t].automatic}
           record == [next EXCEPT !.remove = @ \cup automatic, !.called = @ \cup automatic]
<1>1. automatic \subseteq Tokens
  OBVIOUS
<1>2. send' = [send EXCEPT ![x] = record]
  BY DEF Invoke
<1> HIDE DEF automatic
<1>3. /\ record \in SendRecord /\ record.at = next.at /\ record.object = next.object
      /\ record.selector = next.selector /\ record.containers = next.containers
      /\ record.remove \subseteq Tokens /\ record.called \subseteq Tokens
  BY <1>1 DEF SendRecord
<1> HIDE DEF record
<1>4. SendTyped'
  BY <1>2, <1>3 DEF Typing, SendTyped
<1>5. TypeOK'
  BY <1>1, <1>2, <1>3 DEF Typing, TypeOK, SendTyped
<1>6. OpTyped'
  BY DEF Typing, OpTyped, OpSubject, Alive
<1>7. Registered'
  BY DEF Typing, Registered, Alive
<1> QED
  BY <1>4, <1>5, <1>6, <1>7 DEF Typing

LEMMA SendStepTyped ==
  ASSUME Typing, NEW x \in Senders, NEW record \in SendRecord,
         record.at # "idle" =>
           record.object \in Objects /\ record.selector \in Selectors /\ isa[record.object] # Nil,
         \A i \in record.containers : i \in 0..Len(contents),
         send' = [send EXCEPT ![x] = record],
         UNCHANGED <<defined, runtime, registry, tracking, op>>,
         executed' = executed \/ executed' = executed \cup send[x].called
  PROVE  Typing'
<1>0. record.remove \subseteq Tokens /\ record.called \subseteq Tokens
  BY DEF SendRecord
<1>1. SendTyped'
  BY DEF Typing, SendTyped
<1>2. TypeOK'
  BY <1>0 DEF Typing, TypeOK, SendTyped
<1>3. OpTyped' /\ Registered'
  BY DEF Typing, OpTyped, OpSubject, Alive, Registered
<1> QED
  BY <1>1, <1>2, <1>3 DEF Typing

\* The container that a class lookup finds exists.
LEMMA ContainerTypes ==
  ASSUME Typing, NEW c \in Classes, NEW s \in Selectors
  PROVE  /\ \A x \in Subjects : container[<<x, s>>] \in 0..Len(contents)
         /\ ContainerForClass(c, s) \in 0..Len(contents)
<1>1. \A x \in Subjects : container[<<x, s>>] \in 0..Len(contents)
  BY DEF Typing, TypeOK
<1> DEFINE cs == {d \in Up(c) \cap BaseClasses : container[<<d, s>>] # 0 /\ contents[container[<<d, s>>]] # {}}
<1>2. CASE cs = {}
  <2>1. Len(contents) \in Nat
    BY DEF Typing, TypeOK
  <2> QED
    BY <1>1, <1>2, <2>1 DEF ContainerForClass
<1>3. CASE cs # {}
  <2>1. Nearest(cs) \in cs
    BY <1>3, NearestIn, Zenon
  <2>2. Nearest(cs) \in Subjects
    BY <2>1 DEF Subjects
  <2>3. ContainerForClass(c, s) = container[<<Nearest(cs), s>>]
    BY <1>3, Zenon DEF ContainerForClass
  <2> HIDE DEF cs
  <2> QED
    BY <1>1, <2>2, <2>3
<1> QED
  BY <1>2, <1>3, Zenon

LEMMA SendTypedStep ==
  ASSUME Typing, NEW x \in Senders, NEW o \in Objects, NEW s \in Selectors, Send(x, o, s)
  PROVE  Typing'
<1> DEFINE record == [NoSend EXCEPT !.at = "forward", !.object = o, !.selector = s]
<1>1. /\ record \in SendRecord /\ record.object = o /\ record.selector = s
      /\ record.containers = {}
  BY Zenon DEF NoSend, SendRecord
<1>2. /\ send' = [send EXCEPT ![x] = record] /\ isa[o] # Nil
      /\ UNCHANGED <<defined, runtime, registry, tracking, op, executed>>
  BY DEF Send
<1> HIDE DEF record
<1> QED
  BY <1>1, <1>2, SendStepTyped, Zenon

\* What a sender that is not idle holds.
LEMMA SendFields ==
  ASSUME Typing, NEW x \in Senders, send[x].at # "idle"
  PROVE  /\ send[x] \in SendRecord
         /\ send[x].object \in Objects /\ send[x].selector \in Selectors
         /\ isa[send[x].object] # Nil /\ isa[send[x].object] \in Classes
         /\ \A i \in send[x].containers : i \in 0..Len(contents)
         /\ send[x].containers \in SUBSET Nat
         /\ send[x].remove \in SUBSET Tokens
<1>1. send[x] \in SendRecord
  BY DEF Typing, SendTyped
<1>2. send[x].containers \in SUBSET Nat /\ send[x].remove \in SUBSET Tokens
  BY <1>1 DEF SendRecord
<1> QED
  BY <1>1, <1>2 DEF Typing, SendTyped, TypeOK

LEMMA ForwardMessageTyped ==
  ASSUME Typing, NEW x \in Senders, ForwardMessage(x)
  PROVE  Typing'
<1> DEFINE o == send[x].object
           s == send[x].selector
           ids == {container[<<o, s>>], ContainerForClass(isa[o], s)}
           lost == [send[x] EXCEPT !.at = "raise", !.result = "unrecognized"]
           next == [send[x] EXCEPT !.at = "instead", !.containers = ids]
<1>1. send[x].at # "idle"
  BY DEF ForwardMessage
<1>2. /\ send[x] \in SendRecord /\ o \in Objects /\ s \in Selectors /\ isa[o] # Nil
      /\ isa[o] \in Classes /\ \A i \in send[x].containers : i \in 0..Len(contents)
  BY <1>1, SendFields
<1>3. /\ \A i \in ids : i \in 0..Len(contents)
      /\ ids \in SUBSET Nat
  <2>1. o \in Subjects
    BY <1>2 DEF Subjects
  <2>2. Len(contents) \in Nat
    BY DEF Typing, TypeOK
  <2>3. container[<<o, s>>] \in 0..Len(contents) /\ ContainerForClass(isa[o], s) \in 0..Len(contents)
    BY <1>2, <2>1, ContainerTypes
  <2> QED
    BY <2>2, <2>3
<1>4. UNCHANGED <<defined, runtime, registry, tracking, op, executed>>
  BY DEF ForwardMessage
<1>5. \/ send' = [send EXCEPT ![x] = lost]
      \/ Invoke(x, AspectsAt(ids, "before"), next)
  BY <1>2, Zenon DEF ForwardMessage, Typing, SendTyped
<1> HIDE DEF ids
<1>6. /\ lost \in SendRecord /\ lost.object = o /\ lost.selector = s
      /\ lost.containers = send[x].containers
  BY <1>2, Zenon DEF SendRecord
<1>7. next \in SendRecord /\ next.object = o /\ next.selector = s /\ next.containers = ids
  BY <1>2, <1>3, Zenon DEF SendRecord
<1>8. CASE send' = [send EXCEPT ![x] = lost]
  <2> HIDE DEF lost
  <2> QED
    BY <1>2, <1>4, <1>6, <1>8, SendStepTyped, Zenon
<1>9. CASE Invoke(x, AspectsAt(ids, "before"), next)
  <2>1. \A t \in AspectsAt(ids, "before") : t \in Tokens /\ token[t] \in Registration
    BY <1>3, AspectsAtType, Zenon
  <2> HIDE DEF next
  <2> QED
    BY <1>2, <1>3, <1>4, <1>7, <1>9, <2>1, InvokeTyped, Zenon
<1> QED
  BY <1>5, <1>8, <1>9

LEMMA InsteadOrOriginalTyped ==
  ASSUME Typing, NEW x \in Senders, InsteadOrOriginal(x)
  PROVE  Typing'
<1> DEFINE o == send[x].object
           m == Lookup(alias, isa[o], send[x].selector)
           instead == [send[x] EXCEPT !.at = "runInstead"]
           original == [send[x] EXCEPT !.at = "after",
                                       !.result = IF m = Nil THEN "unrecognized" ELSE m]
<1>1. send[x].at # "idle"
  BY DEF InsteadOrOriginal
<1>2. /\ send[x] \in SendRecord /\ o \in Objects /\ send[x].selector \in Selectors /\ isa[o] # Nil
      /\ isa[o] \in Classes /\ \A i \in send[x].containers : i \in 0..Len(contents)
  BY <1>1, SendFields
<1>3. UNCHANGED <<defined, runtime, registry, tracking, op, executed>>
  BY DEF InsteadOrOriginal
<1>4. \/ send' = [send EXCEPT ![x] = instead]
      \/ send' = [send EXCEPT ![x] = original]
  BY <1>2, Zenon DEF InsteadOrOriginal, Typing, SendTyped
<1>5. m \in Implementations
  BY <1>2, LookupType, Zenon DEF Typing, TypeOK
<1> HIDE DEF m
<1>6. /\ instead \in SendRecord /\ instead.object = o /\ instead.selector = send[x].selector
      /\ instead.containers = send[x].containers
  BY <1>2 DEF SendRecord
<1>7. /\ original \in SendRecord /\ original.object = o /\ original.selector = send[x].selector
      /\ original.containers = send[x].containers
  BY <1>2, <1>5, Zenon DEF SendRecord
<1> HIDE DEF instead, original
<1> QED
  BY <1>2, <1>3, <1>4, <1>6, <1>7, SendStepTyped

LEMMA RunInsteadTyped ==
  ASSUME Typing, NEW x \in Senders, RunInstead(x)
  PROVE  Typing'
<1> DEFINE aspects == AspectsAt(send[x].containers, "instead")
           next == [send[x] EXCEPT !.at = "after",
                      !.result = IF aspects = {} THEN "skipped" ELSE "instead"]
<1>1. send[x].at # "idle"
  BY DEF RunInstead
<1>2. /\ send[x] \in SendRecord /\ send[x].object \in Objects /\ send[x].selector \in Selectors
      /\ isa[send[x].object] # Nil
      /\ \A i \in send[x].containers : i \in 0..Len(contents)
  BY <1>1, SendFields
<1>3. Invoke(x, aspects, next) /\ UNCHANGED <<defined, runtime, registry, tracking, op, executed>>
  BY DEF RunInstead
<1>4. \A t \in aspects : t \in Tokens /\ token[t] \in Registration
  BY <1>2, AspectsAtType
<1> HIDE DEF aspects
<1>5. /\ next \in SendRecord /\ next.object = send[x].object /\ next.selector = send[x].selector
      /\ next.containers = send[x].containers
  BY <1>2, Zenon DEF SendRecord
<1> HIDE DEF next
<1> QED
  BY <1>2, <1>3, <1>4, <1>5, InvokeTyped

LEMMA RunAfterTyped ==
  ASSUME Typing, NEW x \in Senders, RunAfter(x)
  PROVE  Typing'
<1> DEFINE aspects == AspectsAt(send[x].containers, "after")
           next == [send[x] EXCEPT !.containers = {},
                      !.at = IF send[x].result = "unrecognized" THEN "raise" ELSE "remove"]
<1>1. send[x].at # "idle"
  BY DEF RunAfter
<1>2. /\ send[x] \in SendRecord /\ send[x].object \in Objects /\ send[x].selector \in Selectors
      /\ isa[send[x].object] # Nil
      /\ \A i \in send[x].containers : i \in 0..Len(contents)
  BY <1>1, SendFields
<1>3. Invoke(x, aspects, next) /\ UNCHANGED <<defined, runtime, registry, tracking, op, executed>>
  BY DEF RunAfter
<1>4. \A t \in aspects : t \in Tokens /\ token[t] \in Registration
  BY <1>2, AspectsAtType
<1> HIDE DEF aspects
<1>5. /\ next \in SendRecord /\ next.object = send[x].object /\ next.selector = send[x].selector
      /\ next.containers = {}
  BY <1>2, Zenon DEF SendRecord
<1> HIDE DEF next
<1> QED
  BY <1>2, <1>3, <1>4, <1>5, InvokeTyped

LEMMA RemoveAspectTyped ==
  ASSUME Typing, NEW t \in Tokens, NEW by \in Senders \cup {Nil}, RemoveAspect(t, by),
         \/ UNCHANGED send
         \/ \E x \in Senders : send[x].at = "remove" /\ send' = [send EXCEPT ![x].remove = @ \ {t}]
  PROVE  Typing'
<1> DEFINE i == container[<<token[t].subject, token[t].selector>>]
<1>1. /\ t \in live /\ contents' = [contents EXCEPT ![i] = @ \ {t}]
      /\ op' = [kind |-> "remove", at |-> "restore", aspect |-> t, by |-> by]
      /\ UNCHANGED <<defined, runtime, token, live, container, tracking, executed>>
  BY DEF RemoveAspect
<1>2. token[t] \in Registration
  BY <1>1 DEF Typing, Registered
<1> HIDE DEF i
<1>3. contents' \in Seq(SUBSET Tokens) /\ Len(contents') = Len(contents)
  <2>1. contents \in Seq(SUBSET Tokens)
    BY DEF Typing, TypeOK
  <2>2. contents \in [1..Len(contents) -> SUBSET Tokens] /\ Len(contents) \in Nat
    BY <2>1
  <2>3. contents' \in [1..Len(contents) -> SUBSET Tokens]
    BY <1>1, <2>2, Zenon
  <2> QED
    BY <2>2, <2>3
<1>4. \A j \in 1..Len(contents) : contents'[j] \subseteq contents[j]
  BY <1>1 DEF Typing, TypeOK
<1>5. SendTyped'
  <2>1. CASE UNCHANGED send
    BY <1>1, <1>3, <2>1 DEF Typing, SendTyped
  <2>2. ASSUME NEW x \in Senders, send[x].at = "remove", send' = [send EXCEPT ![x].remove = @ \ {t}]
        PROVE  SendTyped'
    <3> DEFINE record == [send[x] EXCEPT !.remove = @ \ {t}]
    <3>1. send[x] \in SendRecord
      BY DEF Typing, SendTyped
    <3>2. /\ record \in SendRecord /\ record.object = send[x].object /\ record.at = send[x].at
          /\ record.selector = send[x].selector /\ record.containers = send[x].containers
      BY <3>1 DEF SendRecord
    <3>3. send' = [send EXCEPT ![x] = record]
      BY <2>2 DEF Typing, SendTyped
    <3> HIDE DEF record
    <3> QED
      BY <1>1, <1>3, <2>2, <3>2, <3>3, ZenonT(30) DEF Typing, SendTyped
  <2> QED
    BY <2>1, <2>2
<1>6. \A x \in Senders : send'[x].remove \subseteq Tokens /\ send'[x].called \subseteq Tokens
  BY <1>5 DEF SendTyped, SendRecord
<1>7. TypeOK'
  BY <1>1, <1>3, <1>6 DEF Typing, TypeOK
<1>8. OpTyped'
  <2>1. Alive(token[t].subject)
    BY <1>1 DEF Typing, Registered
  <2> QED
    BY <1>1, <1>2, <2>1 DEF OpTyped, NoOp, OpSubject, Alive
<1>9. Registered'
  BY <1>1, <1>3, <1>4 DEF Typing, Registered, Alive
<1> QED
  BY <1>5, <1>7, <1>8, <1>9 DEF Typing

LEMMA RaiseTyped ==
  ASSUME Typing, NEW x \in Senders, Raise(x)
  PROVE  Typing'
<1>1. NoSend \in SendRecord /\ NoSend.at = "idle" /\ NoSend.containers = {}
  BY DEF NoSend, SendRecord
<1>2. /\ send' = [send EXCEPT ![x] = NoSend]
      /\ UNCHANGED <<defined, runtime, registry, tracking, op, executed>>
  BY DEF Raise
<1> QED
  BY <1>1, <1>2, SendStepTyped, Zenon

LEMMA RemoveNotedTyped ==
  ASSUME Typing, NEW x \in Senders, RemoveNoted(x)
  PROVE  Typing'
<1>1. send[x].at = "remove"
  BY DEF RemoveNoted
<1>2. /\ send[x] \in SendRecord /\ send[x].object \in Objects /\ send[x].selector \in Selectors
      /\ isa[send[x].object] # Nil /\ send[x].remove \in SUBSET Tokens
      /\ \A i \in send[x].containers : i \in 0..Len(contents)
  BY <1>1, SendFields
<1>3. ASSUME NEW t \in send[x].remove, send' = [send EXCEPT ![x].remove = @ \ {t}], RemoveAspect(t, x)
      PROVE  Typing'
  BY <1>1, <1>2, <1>3, RemoveAspectTyped, Zenon
<1>4. ASSUME NEW t \in send[x].remove, send' = [send EXCEPT ![x].remove = @ \ {t}],
             UNCHANGED <<defined, runtime, registry, tracking, op, executed>>
      PROVE  Typing'
  <2> DEFINE record == [send[x] EXCEPT !.remove = @ \ {t}]
  <2>1. /\ record \in SendRecord /\ record.object = send[x].object
        /\ record.selector = send[x].selector /\ record.containers = send[x].containers
    BY <1>2 DEF SendRecord
  <2>2. send' = [send EXCEPT ![x] = record]
    BY <1>4 DEF Typing, SendTyped
  <2> HIDE DEF record
  <2> QED
    BY <1>2, <1>4, <2>1, <2>2, SendStepTyped, ZenonT(30)
<1>5. ASSUME send' = [send EXCEPT ![x] = NoSend], executed' = executed \cup send[x].called,
             UNCHANGED <<defined, runtime, registry, tracking, op>>
      PROVE  Typing'
  <2>1. NoSend \in SendRecord /\ NoSend.at = "idle" /\ NoSend.containers = {}
    BY DEF NoSend, SendRecord
  <2> QED
    BY <1>5, <2>1, SendStepTyped, Zenon
<1> QED
  BY <1>3, <1>4, <1>5, Zenon DEF RemoveNoted

\* The steps of the holder of the lock leave the registry alone until it is
\* released.
LEMMA HookClassTyped == ASSUME Typing, HookClass PROVE Typing'
<1>1. op # NoOp /\ op.kind = "add"
  BY DEF HookClass, NoOp
<1>2. /\ op.aspect \in Tokens /\ token[op.aspect] \in Registration
      /\ OpSubject \in Subjects /\ OpSelector \in Selectors /\ OpClass \in Classes
      /\ ~Suffixed(OpClass) => OpClass \in BaseClasses
  BY <1>1, OpTypes
<1>3. Subclass(OpClass) \in Classes
  BY <1>2, ClassKinds, Zenon DEF Subclass, Classes
<1>4. Subclass(OpClass) # Nil
  BY <1>3, NilAssumption
<1>5. UNCHANGED <<defined, imp, alias, registry, tracking, send, executed>> /\ op' = [op EXCEPT !.at = "alias"]
  BY DEF HookClass, SwizzleClassInPlace
<1>6. \/ UNCHANGED <<isa, forwarder, swizzledClasses>>
      \/ /\ OpClass \in BaseClasses
         /\ forwarder' \in {forwarder, [forwarder EXCEPT ![OpClass] = "aspects"]}
         /\ swizzledClasses' = swizzledClasses \cup {OpClass} /\ UNCHANGED isa
      \/ /\ OpSubject \in Objects
         /\ forwarder' = [forwarder EXCEPT ![Subclass(OpClass)] = "aspects"]
         /\ isa' = [isa EXCEPT ![OpSubject] = Subclass(OpClass)] /\ UNCHANGED swizzledClasses
  BY <1>2 DEF HookClass, SwizzleClassInPlace
<1>7. /\ isa' \in [Objects -> Classes \cup {Nil}]
      /\ forwarder' \in [Classes -> {"none", "aspects", "original"}]
      /\ swizzledClasses' \subseteq BaseClasses
      /\ \A o \in Objects : isa[o] # Nil => isa'[o] # Nil
  BY <1>3, <1>4, <1>6, Zenon DEF Typing, TypeOK
<1>8. op'.aspect = op.aspect /\ op'.by = op.by /\ op'.kind = "add" /\ op' # NoOp
  BY <1>1, <1>5 DEF Typing, OpTyped, NoOp
<1>9. TypeOK'
  BY <1>5, <1>7, <1>8 DEF Typing, TypeOK
<1>10. SendTyped'
  BY <1>5, <1>7 DEF Typing, SendTyped
<1>11. Registered'
  BY <1>5, <1>7 DEF Typing, Registered, Alive
<1>12. OpTyped'
  <2>1. Alive(OpSubject)'
    BY <1>1, <1>5, <1>7, <1>8 DEF Typing, OpTyped, OpSubject, Alive
  <2> QED
    BY <1>1, <1>2, <1>5, <1>8, <2>1 DEF Typing, OpTyped
<1> QED
  BY <1>9, <1>10, <1>11, <1>12 DEF Typing

LEMMA AddAliasTyped == ASSUME Typing, AddAlias PROVE Typing'
<1> DEFINE m == Lookup(imp, OpClass, OpSelector)
<1>1. op # NoOp /\ op.kind = "add"
  BY DEF AddAlias, NoOp
<1>2. /\ op.aspect \in Tokens /\ token[op.aspect] \in Registration
      /\ OpSubject \in Subjects /\ OpSelector \in Selectors /\ OpClass \in Classes
  BY <1>1, OpTypes
<1>3. m \in Implementations
  BY <1>2, LookupType DEF Typing, TypeOK
<1>4. /\ UNCHANGED <<defined, isa, imp, forwarder, swizzledClasses, registry, tracking, send, executed>>
      /\ op' \in {NoOp, [op EXCEPT !.at = "replace"]}
      /\ UNCHANGED alias \/ alias' = [alias EXCEPT ![OpClass][OpSelector] = m]
  BY DEF AddAlias
<1> HIDE DEF m
<1>5. alias' \in [Classes -> [Selectors -> Implementations]]
  <2>1. alias \in [Classes -> [Selectors -> Implementations]]
    BY DEF Typing, TypeOK
  <2>2. [alias EXCEPT ![OpClass][OpSelector] = m] \in [Classes -> [Selectors -> Implementations]]
    BY <1>2, <1>3, <2>1, TableUpdate
  <2> QED
    BY <1>4, <2>1, <2>2
<1>6. OpTyped'
  <2>1. CASE op' = NoOp
    BY <2>1 DEF OpTyped, NoOp
  <2>2. CASE op' = [op EXCEPT !.at = "replace"]
    <3>1. op'.aspect = op.aspect /\ op'.kind = "add" /\ op' # NoOp
      BY <1>1, <2>2 DEF Typing, OpTyped, NoOp
    <3>2. Alive(OpSubject)'
      BY <1>1, <1>4, <3>1 DEF Typing, OpTyped, OpSubject, Alive
    <3> QED
      BY <1>1, <1>2, <1>4, <2>2, <3>1, <3>2 DEF Typing, OpTyped
  <2> QED
    BY <1>4, <2>1, <2>2
<1>7. TypeOK'
  BY <1>4, <1>5, <1>6 DEF Typing, TypeOK, OpTyped
<1>8. SendTyped' /\ Registered'
  BY <1>4 DEF Typing, SendTyped, Registered, Alive
<1> QED
  BY <1>6, <1>7, <1>8 DEF Typing

LEMMA ReplaceMethodTyped == ASSUME Typing, ReplaceMethod PROVE Typing'
<1>1. op # NoOp
  BY DEF ReplaceMethod, NoOp
<1>2. OpSelector \in Selectors /\ OpClass \in Classes
  BY <1>1, OpTypes
<1>3. /\ UNCHANGED <<defined, isa, alias, forwarder, swizzledClasses, registry, tracking, send, executed>>
      /\ op' = NoOp /\ imp' = [imp EXCEPT ![OpClass][OpSelector] = Forward]
  BY DEF ReplaceMethod
<1>4. imp' \in [Classes -> [Selectors -> Implementations]]
  BY <1>2, <1>3 DEF Typing, TypeOK, Implementations
<1>5. OpTyped'
  BY <1>3 DEF OpTyped, NoOp
<1>6. TypeOK'
  BY <1>3, <1>4, <1>5 DEF Typing, TypeOK, OpTyped
<1>7. SendTyped' /\ Registered'
  BY <1>3 DEF Typing, SendTyped, Registered, Alive
<1> QED
  BY <1>5, <1>6, <1>7 DEF Typing

LEMMA RestoreMethodTyped == ASSUME Typing, RestoreMethod PROVE Typing'
<1> DEFINE m == Lookup(alias, OpClass, OpSelector)
<1>1. op # NoOp /\ op.kind = "remove"
  BY DEF RestoreMethod, NoOp
<1>2. /\ op.aspect \in Tokens /\ token[op.aspect] \in Registration
      /\ OpSubject \in Subjects /\ OpSelector \in Selectors /\ OpClass \in Classes
  BY <1>1, OpTypes
<1>3. m \in Implementations
  BY <1>2, LookupType DEF Typing, TypeOK
<1>4. /\ UNCHANGED <<defined, isa, alias, forwarder, swizzledClasses, registry, send, executed>>
      /\ op' = [op EXCEPT !.at = "cleanUp"]
      /\ UNCHANGED imp \/ imp' = [imp EXCEPT ![OpClass][OpSelector] = m]
  BY DEF RestoreMethod
<1> HIDE DEF m
<1>5. imp' \in [Classes -> [Selectors -> Implementations]]
  <2>1. imp \in [Classes -> [Selectors -> Implementations]]
    BY DEF Typing, TypeOK
  <2>2. [imp EXCEPT ![OpClass][OpSelector] = m] \in [Classes -> [Selectors -> Implementations]]
    BY <1>2, <1>3, <2>1, TableUpdate
  <2> QED
    BY <1>4, <2>1, <2>2
<1>6. OpTyped'
  <2>1. op'.aspect = op.aspect /\ op'.kind = "remove" /\ op' # NoOp
    BY <1>1, <1>4 DEF Typing, OpTyped, NoOp
  <2>2. Alive(OpSubject)'
    BY <1>1, <1>4, <2>1 DEF Typing, OpTyped, OpSubject, Alive
  <2> QED
    BY <1>1, <1>2, <1>4, <2>1, <2>2 DEF Typing, OpTyped
<1>7. TypeOK'
  BY <1>4, <1>5, <1>6 DEF Typing, TypeOK, OpTyped
<1>8. SendTyped' /\ Registered'
  BY <1>4 DEF Typing, SendTyped, Registered, Alive
<1> QED
  BY <1>6, <1>7, <1>8 DEF Typing

LEMMA CleanUpTyped == ASSUME Typing, CleanUp PROVE Typing'
<1>1. op # NoOp /\ op.kind = "remove"
  BY DEF CleanUp, NoOp
<1>2. /\ op.aspect \in Tokens /\ token[op.aspect] \in Registration
      /\ OpSubject \in Subjects /\ OpSelector \in Selectors /\ OpClass \in Classes
      /\ Suffixed(OpClass) => OpSubject \in Objects
      /\ ~Suffixed(OpClass) => OpClass \in BaseClasses
  BY <1>1, OpTypes
<1>3. Base(OpClass[1]) \in Classes /\ Base(OpClass[1]) # Nil
  BY <1>2, ClassKinds, BaseClass, NilAssumption
<1>4. /\ UNCHANGED <<defined, imp, alias, token, contents, tracking, send, executed>>
      /\ op' = NoOp /\ live' = live \ {op.aspect}
      /\ UNCHANGED container \/ container' = [container EXCEPT ![<<OpSubject, OpSelector>>] = 0]
  BY DEF CleanUp
<1>5. \/ UNCHANGED <<isa, forwarder, swizzledClasses>>
      \/ /\ OpSubject \in Objects
         /\ isa' = [isa EXCEPT ![OpSubject] = Base(OpClass[1])]
         /\ UNCHANGED <<forwarder, swizzledClasses>>
      \/ /\ OpClass \in BaseClasses /\ UNCHANGED isa
         /\ forwarder' \in {forwarder, [forwarder EXCEPT ![OpClass] = "original"]}
         /\ swizzledClasses' = swizzledClasses \ {OpClass}
  BY <1>2 DEF CleanUp, UndoHookClass, UndoSwizzleClassInPlace
<1>6. /\ isa' \in [Objects -> Classes \cup {Nil}]
      /\ forwarder' \in [Classes -> {"none", "aspects", "original"}]
      /\ swizzledClasses' \subseteq BaseClasses
      /\ \A o \in Objects : isa[o] # Nil => isa'[o] # Nil
  BY <1>3, <1>5 DEF Typing, TypeOK
<1>7. container' \in [Subjects \X Selectors -> 0..Len(contents)]
  <2>1. Len(contents) \in Nat
    BY DEF Typing, TypeOK
  <2>2. container \in [Subjects \X Selectors -> 0..Len(contents)]
    BY DEF Typing, TypeOK
  <2> DEFINE k == <<OpSubject, OpSelector>>
  <2>3. UNCHANGED container \/ container' = [container EXCEPT ![k] = 0]
    BY <1>4
  <2> HIDE DEF k
  <2> QED
    BY <2>1, <2>2, <2>3
<1>8. OpTyped'
  BY <1>4 DEF OpTyped, NoOp
<1>9. TypeOK'
  BY <1>4, <1>6, <1>7, <1>8 DEF Typing, TypeOK, OpTyped
<1>10. SendTyped' /\ Registered'
  BY <1>4, <1>6 DEF Typing, SendTyped, Registered, Alive
<1> QED
  BY <1>8, <1>9, <1>10 DEF Typing

LEMMA DeallocTyped == ASSUME Typing, NEW o \in Objects, Dealloc(o) PROVE Typing'
<1>1. /\ isa' = [isa EXCEPT ![o] = Nil]
      /\ live' = {t \in live : token[t].subject # o}
      /\ \A x \in Senders : send[x].at # "idle" => send[x].object # o
      /\ op # NoOp => OpSubject # o
      /\ UNCHANGED <<defined, imp, alias, forwarder, swizzledClasses, token, contents,
                     tracking, op, send, executed>>
  BY DEF Dealloc
<1>2. isa' \in [Objects -> Classes \cup {Nil}] /\ \A y \in Objects \ {o} : isa'[y] = isa[y]
  BY <1>1 DEF Typing, TypeOK
<1>3. container' \in [Subjects \X Selectors -> 0..Len(contents)]
  <2>1. Len(contents) \in Nat
    BY DEF Typing, TypeOK
  <2>2. container' = [y \in Subjects \X Selectors |-> IF y[1] = o THEN 0 ELSE container[y]]
    BY DEF Dealloc
  <2> QED
    BY <2>1, <2>2 DEF Typing, TypeOK
<1>4. TypeOK'
  BY <1>1, <1>2, <1>3 DEF Typing, TypeOK
<1>5. SendTyped'
  BY <1>1, <1>2 DEF Typing, SendTyped
<1>6. OpTyped'
  BY <1>1, <1>2 DEF Typing, OpTyped, OpSubject, Alive
<1>7. Registered'
  BY <1>1, <1>2 DEF Typing, Registered, Alive
<1> QED
  BY <1>4, <1>5, <1>6, <1>7 DEF Typing

LEMMA PutInContainerTyped ==
  ASSUME Typing, NEW x \in Subjects, NEW s \in Selectors, NEW aspects \in SUBSET Tokens,
         PutInContainer(x, s, aspects)
  PROVE  /\ contents' \in Seq(SUBSET Tokens) /\ Len(contents') >= Len(contents)
         /\ container' \in [Subjects \X Selectors -> 0..Len(contents')]
         /\ \A i \in 1..Len(contents') : \A t \in contents'[i] :
              t \in aspects \/ (i \in 1..Len(contents) /\ t \in contents[i])
<1>1. contents \in Seq(SUBSET Tokens) /\ Len(contents) \in Nat
  BY DEF Typing, TypeOK
<1>2. container \in [Subjects \X Selectors -> 0..Len(contents)]
  BY DEF Typing, TypeOK
<1>3. CASE container[<<x, s>>] = 0
  <2>1. /\ contents' = Append(contents, aspects)
        /\ container' = [container EXCEPT ![<<x, s>>] = Len(contents) + 1]
    BY <1>3 DEF PutInContainer
  <2>2. contents' \in Seq(SUBSET Tokens) /\ Len(contents') = Len(contents) + 1
    BY <1>1, <2>1
  <2>3. \A i \in 1..Len(contents') :
          contents'[i] = aspects \/ (i \in 1..Len(contents) /\ contents'[i] = contents[i])
    <3> TAKE i \in 1..Len(contents')
    <3>1. CASE i = Len(contents) + 1
      <4>1. Append(contents, aspects)[Len(contents) + 1] = aspects
        BY <1>1
      <4>2. contents'[Len(contents) + 1] = aspects
        BY <2>1, <4>1, Zenon
      <4> QED
        BY <3>1, <4>2
    <3>2. CASE i # Len(contents) + 1
      <4>1. i \in 1..Len(contents)
        BY <1>1, <2>2, <3>2
      <4> QED
        BY <1>1, <2>1, <4>1
    <3> QED
      BY <3>1, <3>2
  <2>4. container' \in [Subjects \X Selectors -> 0..Len(contents')]
    BY <1>1, <1>2, <2>1, <2>2
  <2> QED
    BY <1>1, <2>2, <2>3, <2>4
<1>4. CASE container[<<x, s>>] # 0
  <2>1. /\ contents' = [contents EXCEPT ![container[<<x, s>>]] = @ \cup aspects]
        /\ UNCHANGED container
    BY <1>4 DEF PutInContainer
  <2>2. contents \in [1..Len(contents) -> SUBSET Tokens]
    BY <1>1
  <2>3. contents' \in [1..Len(contents) -> SUBSET Tokens]
    BY <2>1, <2>2, ZenonT(30)
  <2>4. contents' \in Seq(SUBSET Tokens) /\ Len(contents') = Len(contents)
    BY <1>1, <2>3
  <2>5. \A i \in 1..Len(contents) : contents'[i] \subseteq contents[i] \cup aspects
    <3> DEFINE k == container[<<x, s>>]
    <3>1. contents' = [contents EXCEPT ![k] = @ \cup aspects]
      BY <2>1
    <3> HIDE DEF k
    <3> QED
      BY <2>2, <3>1
  <2>6. container' \in [Subjects \X Selectors -> 0..Len(contents')]
    BY <1>2, <2>1, <2>4
  <2>7. Len(contents') >= Len(contents)
    BY <1>1, <2>4
  <2> QED
    BY <2>4, <2>5, <2>6, <2>7
<1> QED
  BY <1>3, <1>4

LEMMA AspectAddTyped ==
  ASSUME Typing, NEW t \in Tokens, NEW x \in Subjects, NEW s \in Selectors, NEW option \in Options,
         AspectAdd(t, x, s, option)
  PROVE  Typing'
<1> DEFINE registration == [subject |-> x, selector |-> s, position |-> option[1], automatic |-> option[2]]
<1>1. /\ Alive(x) /\ token' = [token EXCEPT ![t] = registration]
      /\ live' = live \cup {t} /\ PutInContainer(x, s, {t})
      /\ op' = [kind |-> "add", at |-> "hookClass", aspect |-> t, by |-> Nil]
      /\ UNCHANGED <<defined, runtime, send, executed>>
  BY DEF AspectAdd
<1>2. registration \in Registration /\ registration.subject = x
  BY AspectsAssumption DEF Registration
<1> HIDE DEF registration
<1>3. /\ token' \in [Tokens -> {Nil, Refused} \cup Registration] /\ token'[t] = registration
      /\ \A u \in Tokens \ {t} : token'[u] = token[u]
  BY <1>1, <1>2 DEF Typing, TypeOK
<1>4. /\ contents' \in Seq(SUBSET Tokens) /\ Len(contents') >= Len(contents)
      /\ container' \in [Subjects \X Selectors -> 0..Len(contents')]
      /\ \A i \in 1..Len(contents') : \A u \in contents'[i] :
           u \in {t} \/ (i \in 1..Len(contents) /\ u \in contents[i])
  BY <1>1, PutInContainerTyped, ZenonT(30)
<1>5. OpTyped'
  BY <1>1, <1>2, <1>3 DEF OpTyped, NoOp, OpSubject, Alive
<1>6. TypeOK'
  BY <1>1, <1>3, <1>4 DEF Typing, TypeOK
<1>7. SendTyped'
  <2>1. 0..Len(contents) \subseteq 0..Len(contents')
    BY <1>4 DEF Typing, TypeOK
  <2> QED
    BY <1>1, <2>1, ZenonT(30) DEF Typing, SendTyped
<1>8. Registered'
  <2>0. /\ \A u \in live : u \in Tokens /\ token[u] \in Registration
        /\ \A u \in live : Alive(token[u].subject)
    BY ZenonT(30) DEF Typing, TypeOK, Registered
  <2>1. \A u \in live' : token'[u] \in Registration /\ Alive(token[u].subject)'
    BY <1>1, <1>2, <1>3, <2>0, Zenon DEF Alive
  <2>2. \A i \in 1..Len(contents') : \A u \in contents'[i] : token'[u] \in Registration
    <3>1. \A i \in 1..Len(contents) : \A u \in contents[i] : u \in Tokens /\ token[u] \in Registration
      BY DEF Typing, TypeOK, Registered
    <3> QED
      BY <1>2, <1>3, <1>4, <3>1
  <2> QED
    BY <2>1, <2>2 DEF Registered
<1> QED
  BY <1>5, <1>6, <1>7, <1>8 DEF Typing

LEMMA AspectAddFailsTyped ==
  ASSUME Typing, NEW t \in Tokens, NEW x \in Subjects, NEW s \in Selectors, AspectAddFails(t, x, s)
  PROVE  Typing'
<1>1. /\ op = NoOp /\ token[t] = Nil /\ token' = [token EXCEPT ![t] = Refused]
      /\ PutInContainer(x, s, {}) /\ UNCHANGED <<defined, runtime, live, op, send, executed>>
  BY DEF AspectAddFails
<1>2. /\ contents' \in Seq(SUBSET Tokens) /\ Len(contents') >= Len(contents)
      /\ container' \in [Subjects \X Selectors -> 0..Len(contents')]
      /\ \A i \in 1..Len(contents') : \A u \in contents'[i] :
           u \in {} \/ (i \in 1..Len(contents) /\ u \in contents[i])
  <2>1. {} \in SUBSET Tokens
    OBVIOUS
  <2> QED
    BY <1>1, <2>1, PutInContainerTyped, Zenon
<1>3. \A u \in Tokens \ {t} : token'[u] = token[u]
  BY <1>1 DEF Typing, TypeOK
<1>4. Nil \notin Registration
  BY NilAssumption
<1>5. \A i \in 1..Len(contents) : \A u \in contents[i] : u \in Tokens \ {t} /\ token[u] \in Registration
  BY <1>1, <1>4 DEF Typing, TypeOK, Registered
<1>6. \A u \in live : u \in Tokens \ {t} /\ token[u] \in Registration
  BY <1>1, <1>4 DEF Typing, TypeOK, Registered
<1>7. Registered'
  BY <1>1, <1>2, <1>3, <1>5, <1>6 DEF Typing, Registered, Alive
<1>8. TypeOK'
  BY <1>1, <1>2 DEF Typing, TypeOK
<1>9. SendTyped'
  <2>1. 0..Len(contents) \subseteq 0..Len(contents')
    <3>1. contents \in Seq(SUBSET Tokens)
      BY Zenon DEF Typing, TypeOK
    <3>2. Len(contents) \in Nat /\ Len(contents') \in Nat /\ Len(contents') >= Len(contents)
      BY <3>1, <1>2
    <3> QED
      BY <3>2
  <2> QED
    BY <1>1, <2>1, ZenonT(30) DEF Typing, SendTyped
<1>10. OpTyped'
  BY <1>1 DEF Typing, OpTyped, NoOp
<1> QED
  BY <1>7, <1>8, <1>9, <1>10 DEF Typing

LEMMA TypingNext == ASSUME Typing, [Next]_vars PROVE Typing'
<1>1. ASSUME NEW x \in Hookable, NEW s \in Selectors, NEW t \in Tokens,
             \/ \E option \in Options : AspectAdd(t, x, s, option)
             \/ AspectAddFails(t, x, s)
      PROVE  Typing'
  <2>1. x \in Subjects
    BY DEF Hookable, Subjects
  <2> QED
    BY <1>1, <2>1, AspectAddTyped, AspectAddFailsTyped
<1>2. ASSUME NEW t \in Tokens, AspectRemove(t) PROVE Typing'
  BY <1>2, RemoveAspectTyped DEF AspectRemove
<1>3. CASE LockHolder
  BY <1>3, HookClassTyped, AddAliasTyped, ReplaceMethodTyped, RestoreMethodTyped, CleanUpTyped
     DEF LockHolder
<1>4. ASSUME NEW x \in Senders, Sending(x) PROVE Typing'
  BY <1>4, ForwardMessageTyped, InsteadOrOriginalTyped, RunInsteadTyped, RunAfterTyped, RaiseTyped,
     RemoveNotedTyped DEF Sending
<1>5. ASSUME NEW x \in Senders, NEW o \in Objects, NEW s \in Selectors, Send(x, o, s) PROVE Typing'
  BY <1>5, SendTypedStep
<1>6. ASSUME NEW o \in Objects, Dealloc(o) PROVE Typing'
  BY <1>6, DeallocTyped
<1>7. CASE UNCHANGED vars
  BY <1>7, Zenon DEF vars, Typing, TypeOK, SendTyped, OpTyped, Registered, OpSubject, Alive
<1> QED
  BY <1>1, <1>2, <1>3, <1>4, <1>5, <1>6, <1>7, Zenon DEF Next

\* Every variable of Aspects.m has its type in every reachable state: no
\* lookup of a container, a class or a registration misses.
THEOREM AspectsTyped == Spec => []TypeOK
<1>1. Init => Typing
  BY TypingInit
<1>2. Typing /\ [Next]_vars => Typing'
  BY TypingNext
<1>3. Typing => TypeOK
  BY DEF Typing
<1> QED
  BY <1>1, <1>2, <1>3, PTL DEF Spec

-----------------------------------------------------------------------------
(* The original implementation.                                            *)

Reaches(table, c, s) == \E d \in Up(c) : table[d][s] # Nil

\* Why AliasKept holds: an alias is never _objc_msgForward, is never taken
\* away, and is reachable from the class before its selector is forwarded.
AliasInv ==
  /\ \A c \in Classes, s \in Selectors :
       alias[c][s] # Forward /\ (imp[c][s] = Forward => Reaches(alias, c, s))
  /\ op.kind = "add" => Reaches(imp, OpClass, OpSelector)
  /\ op.kind = "add" /\ op.at = "replace" => Reaches(alias, OpClass, OpSelector)

LEMMA AliasInvInit == Init => AliasInv
<1> SUFFICES ASSUME Init PROVE AliasInv
  OBVIOUS
<1>1. \A c \in Classes, s \in Selectors : alias[c][s] = Nil /\ imp[c][s] \in Names \cup {Nil}
  BY ClassKinds, Zenon DEF Init
<1>2. op.kind = "none"
  BY DEF Init, NoOp
<1> QED
  BY <1>1, <1>2, NilAssumption DEF AliasInv

\* Steps that change neither the tables nor what the lock holder works on.
LEMMA AliasInvFrame ==
  ASSUME AliasInv, UNCHANGED <<imp, alias>>,
         \/ op'.kind # "add"
         \/ op' = op /\ OpClass' = OpClass /\ OpSelector' = OpSelector
  PROVE  AliasInv'
BY DEF AliasInv, Reaches

LEMMA UpSubclass ==
  ASSUME NEW c \in Classes
  PROVE  Up(c) \subseteq Up(Subclass(c)) \/ Suffixed(c)
<1>1. c[1] \in Names /\ c[1] \in Above[c[1]]
  BY ClassKinds, AspectsAssumption
<1>2. Subclass(c)[1] = c[1]
  BY DEF Subclass
<1>3. c = Base(c[1]) \/ Suffixed(c)
  BY ClassKinds
<1> QED
  BY <1>1, <1>2, <1>3 DEF Up

LEMMA AliasInvAdd ==
  ASSUME Typing, AliasInv, NEW t \in Tokens, NEW x \in Subjects, NEW s \in Selectors,
         NEW option \in Options, AspectAdd(t, x, s, option)
  PROVE  AliasInv'
<1>1. /\ UNCHANGED <<isa, imp, alias>> /\ op'.kind = "add" /\ op'.at = "hookClass"
      /\ op'.aspect = t /\ Alive(x) /\ Lookup(imp, ClassOfSubject(x), s) # Nil
  BY ZenonT(30) DEF AspectAdd, Allowed
<1>2. token'[t].subject = x /\ token'[t].selector = s
  BY ZenonT(30) DEF AspectAdd, Typing, TypeOK
<1>3. OpClass' = ClassOfSubject(x) /\ OpSelector' = s
  BY <1>1, <1>2 DEF OpClass, OpSelector, OpSubject, ClassOfSubject
<1>4. ClassOfSubject(x) \in Classes
  BY <1>1, ClassOfSubjectType
<1>5. Reaches(imp, ClassOfSubject(x), s)
  BY <1>1, <1>4, LookupFinds DEF Reaches
<1> QED
  BY <1>1, <1>3, <1>5 DEF AliasInv, Reaches

LEMMA AliasInvLock == ASSUME Typing, AliasInv, LockHolder PROVE AliasInv'
<1>1. CASE HookClass
  <2>1. op # NoOp /\ op.kind = "add" /\ op.at = "hookClass"
    BY <1>1 DEF HookClass, NoOp
  <2>2. OpSubject \in Subjects /\ OpClass \in Classes /\ (Suffixed(OpClass) => OpSubject \in Objects)
    BY <2>1, OpTypes
  <2>3. /\ UNCHANGED <<imp, alias, token>> /\ op' = [op EXCEPT !.at = "alias"]
    BY <1>1 DEF HookClass, SwizzleClassInPlace
  <2>4. op'.kind = "add" /\ op'.at = "alias" /\ op'.aspect = op.aspect
    BY <2>1, <2>3 DEF Typing, OpTyped
  <2>5. OpSelector' = OpSelector /\ OpSubject' = OpSubject
    BY <2>3, <2>4 DEF OpSelector, OpSubject
  <2>6. \/ UNCHANGED isa
        \/ ~Suffixed(OpClass) /\ OpSubject \in Objects /\ isa' = [isa EXCEPT ![OpSubject] = Subclass(OpClass)]
    BY <1>1 DEF HookClass
  <2>7. CASE UNCHANGED isa
    <3>1. OpClass' = OpClass
      BY <2>5, <2>7 DEF OpClass, ClassOfSubject
    <3> QED
      BY <2>1, <2>3, <2>4, <2>5, <3>1 DEF AliasInv, Reaches
  <2>8. CASE ~Suffixed(OpClass) /\ OpSubject \in Objects /\ isa' = [isa EXCEPT ![OpSubject] = Subclass(OpClass)]
    <3>1. OpClass' = Subclass(OpClass)
      BY <2>5, <2>8 DEF OpClass, ClassOfSubject, Typing, TypeOK
    <3>2. Up(OpClass) \subseteq Up(Subclass(OpClass))
      BY <2>2, <2>8, UpSubclass
    <3> QED
      BY <2>1, <2>3, <2>4, <2>5, <3>1, <3>2 DEF AliasInv, Reaches
  <2> QED
    BY <2>6, <2>7, <2>8
<1>2. CASE AddAlias
  <2> DEFINE m == Lookup(imp, OpClass, OpSelector)
  <2>1. op # NoOp /\ op.kind = "add" /\ op.at = "alias"
    BY <1>2 DEF AddAlias, NoOp
  <2>2. OpSelector \in Selectors /\ OpClass \in Classes
    BY <2>1, OpTypes
  <2>3. m # Nil
    BY <2>1, <2>2, LookupFinds DEF AliasInv, Reaches
  <2>4. UNCHANGED <<isa, imp, token>>
    BY <1>2 DEF AddAlias
  <2>5. \/ op' = NoOp /\ UNCHANGED alias
        \/ /\ op' = [op EXCEPT !.at = "replace"] /\ UNCHANGED alias
           /\ Lookup(alias, OpClass, OpSelector) # Nil
        \/ /\ op' = [op EXCEPT !.at = "replace"] /\ m # Forward
           /\ alias' = [alias EXCEPT ![OpClass][OpSelector] = m]
    BY <1>2 DEF AddAlias
  <2> HIDE DEF m
  <2>6. CASE op' = NoOp /\ UNCHANGED alias
    BY <2>4, <2>6, AliasInvFrame DEF NoOp
  <2>7. ASSUME op' = [op EXCEPT !.at = "replace"]
        PROVE  op'.kind = "add" /\ OpClass' = OpClass /\ OpSelector' = OpSelector
    <3>1. op'.kind = "add" /\ op'.aspect = op.aspect
      BY <2>1, <2>7 DEF Typing, OpTyped
    <3> QED
      BY <2>4, <3>1 DEF OpClass, OpSelector, OpSubject, ClassOfSubject
  <2>8. CASE /\ op' = [op EXCEPT !.at = "replace"] /\ UNCHANGED alias
             /\ Lookup(alias, OpClass, OpSelector) # Nil
    <3>1. Reaches(alias, OpClass, OpSelector)
      BY <2>2, <2>8, LookupFinds DEF Reaches
    <3> QED
      BY <2>1, <2>4, <2>7, <2>8, <3>1 DEF AliasInv, Reaches
  <2>9. CASE /\ op' = [op EXCEPT !.at = "replace"] /\ m # Forward
             /\ alias' = [alias EXCEPT ![OpClass][OpSelector] = m]
    <3>1. /\ alias'[OpClass][OpSelector] = m
          /\ \A c \in Classes, s \in Selectors :
               alias'[c][s] = alias[c][s] \/ alias'[c][s] = m
      BY <2>2, <2>9 DEF Typing, TypeOK
    <3>2. \A c \in Classes, s \in Selectors : alias'[c][s] # Forward
      BY <2>9, <3>1 DEF AliasInv
    <3>3. \A c \in Classes, s \in Selectors : Reaches(alias, c, s) => Reaches(alias', c, s)
      BY <2>3, <3>1, UpClasses DEF Reaches
    <3>4. Reaches(alias', OpClass, OpSelector)
      BY <2>2, <2>3, <3>1, UpClasses DEF Reaches
    <3> QED
      BY <2>1, <2>4, <2>7, <2>9, <3>2, <3>3, <3>4 DEF AliasInv, Reaches
  <2> QED
    BY <2>5, <2>6, <2>8, <2>9
<1>3. CASE ReplaceMethod
  <2>1. op # NoOp /\ op.kind = "add" /\ op.at = "replace"
    BY <1>3 DEF ReplaceMethod, NoOp
  <2>2. OpSelector \in Selectors /\ OpClass \in Classes
    BY <2>1, OpTypes
  <2>3. UNCHANGED alias /\ op'.kind = "none" /\ imp' = [imp EXCEPT ![OpClass][OpSelector] = Forward]
    BY <1>3 DEF ReplaceMethod, NoOp
  <2>4. \A c \in Classes, s \in Selectors :
          imp'[c][s] = imp[c][s] \/ (c = OpClass /\ s = OpSelector)
    BY <2>2, <2>3 DEF Typing, TypeOK
  <2> QED
    BY <2>1, <2>3, <2>4 DEF AliasInv, Reaches
<1>4. CASE RestoreMethod
  <2> DEFINE m == Lookup(alias, OpClass, OpSelector)
  <2>1. op # NoOp /\ op.kind = "remove"
    BY <1>4 DEF RestoreMethod, NoOp
  <2>2. OpSelector \in Selectors /\ OpClass \in Classes
    BY <2>1, OpTypes
  <2>3. m # Forward
    BY <2>2, LookupFinds, UpClasses, NilAssumption DEF AliasInv
  <2>4. /\ UNCHANGED alias /\ op' = [op EXCEPT !.at = "cleanUp"]
        /\ UNCHANGED imp \/ imp' = [imp EXCEPT ![OpClass][OpSelector] = m]
    BY <1>4 DEF RestoreMethod
  <2>5. op'.kind = "remove"
    BY <2>1, <2>4 DEF Typing, OpTyped
  <2> HIDE DEF m
  <2>6. \A c \in Classes, s \in Selectors : imp'[c][s] = imp[c][s] \/ imp'[c][s] = m
    BY <2>2, <2>4 DEF Typing, TypeOK
  <2> QED
    BY <2>3, <2>4, <2>5, <2>6 DEF AliasInv, Reaches
<1>5. CASE CleanUp
  <2>1. UNCHANGED <<imp, alias>> /\ op'.kind # "add"
    BY <1>5, Zenon DEF CleanUp, NoOp
  <2> QED
    BY <2>1, AliasInvFrame
<1> QED
  BY <1>1, <1>2, <1>3, <1>4, <1>5 DEF LockHolder

\* A step of a sender leaves the classes, the tables and the tokens alone, and
\* takes the lock at most in order to remove an aspect.
LEMMA SendingFrame ==
  ASSUME NEW x \in Senders, Sending(x) \/ \E o \in Objects, s \in Selectors : Send(x, o, s)
  PROVE  /\ UNCHANGED <<defined, runtime, token, live, container, tracking>>
         /\ \/ UNCHANGED <<op, contents>>
            \/ \E t \in send[x].remove : RemoveAspect(t, x) /\ op' # NoOp /\ op'.kind = "remove"
<1> DEFINE Frame == /\ UNCHANGED <<defined, runtime, token, live, container, tracking>>
                    /\ \/ UNCHANGED <<op, contents>>
                       \/ \E t \in send[x].remove : RemoveAspect(t, x) /\ op' # NoOp /\ op'.kind = "remove"
<1> SUFFICES Frame
  BY Zenon
<1>1. CASE ForwardMessage(x) \/ InsteadOrOriginal(x)
  BY <1>1 DEF ForwardMessage, InsteadOrOriginal
<1>2. CASE RunInstead(x) \/ RunAfter(x) \/ Raise(x)
  BY <1>2 DEF RunInstead, RunAfter, Raise
<1>3. ASSUME NEW o, NEW s, Send(x, o, s) PROVE Frame
  BY <1>3, Zenon DEF Send
<1>4. CASE RemoveNoted(x)
  <2>1. ASSUME NEW t \in send[x].remove, RemoveAspect(t, x) PROVE Frame
    <3>1. op' # NoOp /\ op'.kind = "remove"
      BY <2>1 DEF RemoveAspect, NoOp
    <3>2. UNCHANGED <<defined, runtime, token, live, container, tracking>>
      BY <2>1 DEF RemoveAspect
    <3> QED
      BY <2>1, <3>1, <3>2, Zenon
  <2>2. CASE UNCHANGED <<defined, runtime, registry, tracking, op>>
    BY <2>2
  <2> HIDE DEF Frame
  <2> QED
    BY <1>4, <2>1, <2>2, Zenon DEF RemoveNoted
<1> HIDE DEF Frame
<1> QED
  BY <1>1, <1>2, <1>3, <1>4, Zenon DEF Sending

LEMMA AliasInvNext == ASSUME Typing, AliasInv, [Next]_vars PROVE AliasInv'
<1>1. ASSUME NEW x \in Hookable, NEW s \in Selectors, NEW t \in Tokens, NEW option \in Options,
             AspectAdd(t, x, s, option)
      PROVE  AliasInv'
  <2>1. x \in Subjects
    BY DEF Hookable, Subjects
  <2> QED
    BY <1>1, <2>1, AliasInvAdd
<1>2. ASSUME NEW x, NEW s, NEW t, AspectAddFails(t, x, s) PROVE AliasInv'
  <2>1. UNCHANGED <<imp, alias>> /\ op'.kind # "add"
    BY <1>2 DEF AspectAddFails, NoOp
  <2> QED
    BY <2>1, AliasInvFrame
<1>3. ASSUME NEW t \in Tokens, AspectRemove(t) PROVE AliasInv'
  <2>1. UNCHANGED <<imp, alias>> /\ op'.kind # "add"
    BY <1>3, Zenon DEF AspectRemove, RemoveAspect
  <2> QED
    BY <2>1, AliasInvFrame
<1>4. ASSUME NEW x \in Senders, Sending(x) \/ \E o \in Objects, s \in Selectors : Send(x, o, s)
      PROVE  AliasInv'
  <2>1. UNCHANGED <<imp, alias, isa, token>> /\ (op'.kind # "add" \/ UNCHANGED op)
    BY <1>4, SendingFrame
  <2>2. UNCHANGED op => OpClass' = OpClass /\ OpSelector' = OpSelector
    BY <2>1 DEF OpClass, OpSelector, OpSubject, ClassOfSubject
  <2> QED
    BY <2>1, <2>2, AliasInvFrame
<1>5. ASSUME NEW o \in Objects, Dealloc(o) PROVE AliasInv'
  <2>1. UNCHANGED <<imp, alias, token, op>> /\ (op # NoOp => OpSubject # o) /\ isa' = [isa EXCEPT ![o] = Nil]
    BY <1>5 DEF Dealloc
  <2>2. CASE op = NoOp
    BY <2>1, <2>2, AliasInvFrame DEF NoOp
  <2>3. CASE op # NoOp
    <3>1. OpClass' = OpClass /\ OpSelector' = OpSelector
      BY <2>1, <2>3 DEF OpClass, OpSelector, OpSubject, ClassOfSubject, Typing, TypeOK
    <3> QED
      BY <2>1, <3>1, AliasInvFrame
  <2> QED
    BY <2>2, <2>3
<1>6. CASE UNCHANGED vars
  <2>1. UNCHANGED <<imp, alias, op>> /\ OpClass' = OpClass /\ OpSelector' = OpSelector
    BY <1>6 DEF vars, OpClass, OpSelector, OpSubject, ClassOfSubject
  <2> QED
    BY <2>1, AliasInvFrame
<1> QED
  BY <1>1, <1>2, <1>3, <1>4, <1>5, <1>6, AliasInvLock, Zenon DEF Next

\* Why the aliases are the program's implementations: a class that finds no alias
\* upwards, and so none of whose superclasses was changed, has the methods the
\* program gives it.
OwnMethod(c, s) == IF ~Suffixed(c) /\ <<c[1], s>> \in defined THEN c[1] ELSE Nil

OriginalsInv ==
  \A c \in Classes, s \in Selectors :
    /\ Reaches(alias, c, s) \/ imp[c][s] = OwnMethod(c, s)
    /\ alias[c][s] # Nil => alias[c][s] = Original(c, s)

LEMMA OriginalsInvInit == Init => OriginalsInv
BY DEF Init, OriginalsInv, OwnMethod

LEMMA OriginalsInvFrame ==
  ASSUME OriginalsInv, UNCHANGED <<defined, imp, alias>>
  PROVE  OriginalsInv'
<1>1. \A c, s : /\ OwnMethod(c, s)' = OwnMethod(c, s) /\ Original(c, s)' = Original(c, s)
                /\ Reaches(alias, c, s)' = Reaches(alias, c, s)
  BY DEF OwnMethod, Original, Definers, Reaches
<1> QED
  BY <1>1, ZenonT(30) DEF OriginalsInv

\* Where no superclass was changed, class_getInstanceMethod finds the original.
LEMMA OriginalFound ==
  ASSUME NEW c \in Classes, NEW s \in Selectors,
         \A d \in Up(c) : imp[d][s] = OwnMethod(d, s), Lookup(imp, c, s) # Nil
  PROVE  Lookup(imp, c, s) = Original(c, s)
<1> DEFINE cs == {d \in Up(c) : imp[d][s] # Nil}
<1>1. c[1] \in Names /\ Above[c[1]] \subseteq Names
  BY ClassKinds, AspectsAssumption
<1>2. ASSUME NEW d \in cs PROVE d \in Definers(c[1], s) /\ imp[d][s] = d[1]
  <2>1. d \in Classes /\ d[1] \in Above[c[1]]
    BY UpClasses, UpOrder
  <2>2. ~Suffixed(d) /\ <<d[1], s>> \in defined /\ imp[d][s] = d[1]
    BY DEF OwnMethod
  <2>3. d = Base(d[1])
    BY <2>1, <2>2, ClassKinds
  <2> QED
    BY <2>1, <2>2, <2>3 DEF Definers
<1>3. ASSUME NEW d \in Definers(c[1], s) PROVE d \in cs
  <2>1. PICK n \in Above[c[1]] : d = Base(n) /\ <<n, s>> \in defined
    BY DEF Definers
  <2>2. n \in Names /\ d[1] = n /\ ~Suffixed(d)
    BY <1>1, <2>1, BaseClass
  <2>3. d \in Up(c)
    BY <2>1 DEF Up
  <2>4. imp[d][s] = n /\ n # Nil
    BY <2>1, <2>2, <2>3, NilAssumption DEF OwnMethod
  <2> QED
    BY <2>3, <2>4
<1>4. cs = Definers(c[1], s)
  BY <1>2, <1>3
<1>5. cs # {} /\ Lookup(imp, c, s) = imp[Nearest(cs)][s]
  BY DEF Lookup
<1>6. Nearest(cs) \in cs
  BY <1>5, NearestIn
<1> HIDE DEF cs
<1> QED
  BY <1>2, <1>4, <1>5, <1>6 DEF Original

LEMMA OriginalsInvAddAlias == ASSUME Typing, AliasInv, OriginalsInv, AddAlias PROVE OriginalsInv'
<1> DEFINE m == Lookup(imp, OpClass, OpSelector)
<1>1. op # NoOp /\ op.kind = "add" /\ UNCHANGED <<defined, imp>>
  BY DEF AddAlias, NoOp
<1>2. OpClass \in Classes /\ OpSelector \in Selectors
  BY <1>1, OpTypes
<1>3. CASE alias' = alias
  BY <1>1, <1>3, OriginalsInvFrame
<1>4. CASE /\ Lookup(alias, OpClass, OpSelector) = Nil
           /\ alias' = [alias EXCEPT ![OpClass][OpSelector] = m]
  <2>1. \A d \in Up(OpClass) : alias[d][OpSelector] = Nil
    BY <1>2, <1>4, LookupFinds
  <2>2. ASSUME NEW d \in Up(OpClass) PROVE imp[d][OpSelector] = OwnMethod(d, OpSelector)
    <3>1. d \in Classes /\ Up(d) \subseteq Up(OpClass)
      BY <1>2, UpClasses, UpOrder
    <3>2. ~Reaches(alias, d, OpSelector)
      BY <2>1, <3>1 DEF Reaches
    <3> QED
      BY <1>2, <3>1, <3>2 DEF OriginalsInv
  <2>3. m # Nil
    BY <1>1, <1>2, LookupFinds DEF AliasInv, Reaches
  <2>4. m = Original(OpClass, OpSelector)
    BY <1>2, <2>2, <2>3, OriginalFound
  <2> HIDE DEF m
  <2>5. \A c \in Classes, s \in Selectors :
          alias'[c][s] = IF c = OpClass /\ s = OpSelector THEN m ELSE alias[c][s]
    BY <1>2, <1>4 DEF Typing, TypeOK
  <2>6. \A c \in Classes, s \in Selectors : Reaches(alias, c, s) => Reaches(alias', c, s)
    BY <2>3, <2>5, UpClasses DEF Reaches
  <2>7. \A c, s : OwnMethod(c, s)' = OwnMethod(c, s) /\ Original(c, s)' = Original(c, s)
    BY <1>1 DEF OwnMethod, Original, Definers
  <2>8. \A c \in Classes, s \in Selectors : Reaches(alias', c, s) \/ imp'[c][s] = OwnMethod(c, s)
    BY <1>1, <2>6 DEF OriginalsInv
  <2>9. \A c \in Classes, s \in Selectors : alias'[c][s] # Nil => alias'[c][s] = Original(c, s)
    BY <2>4, <2>5 DEF OriginalsInv
  <2> QED
    BY <2>7, <2>8, <2>9 DEF OriginalsInv, Reaches
<1> QED
  BY <1>3, <1>4 DEF AddAlias

\* A method is only replaced and restored where an alias is found.
LEMMA OriginalsInvChange ==
  ASSUME Typing, OriginalsInv, NEW c \in Classes, NEW s \in Selectors, Reaches(alias, c, s), NEW m,
         imp' = [imp EXCEPT ![c][s] = m], UNCHANGED <<defined, alias>>
  PROVE  OriginalsInv'
<1>1. \A d \in Classes, q \in Selectors : imp'[d][q] = imp[d][q] \/ (d = c /\ q = s)
  BY DEF Typing, TypeOK
<1>2. \A d, q : /\ OwnMethod(d, q)' = OwnMethod(d, q) /\ Original(d, q)' = Original(d, q)
                /\ Reaches(alias, d, q)' = Reaches(alias, d, q)
  BY DEF OwnMethod, Original, Definers, Reaches
<1>3. \A d \in Classes, q \in Selectors : Reaches(alias, d, q) \/ imp'[d][q] = OwnMethod(d, q)
  BY <1>1, Zenon DEF OriginalsInv
<1>4. \A d \in Classes, q \in Selectors : alias'[d][q] # Nil => alias'[d][q] = Original(d, q)
  BY DEF OriginalsInv
<1> QED
  BY <1>2, <1>3, <1>4, Zenon DEF OriginalsInv

LEMMA OriginalsInvReplace ==
  ASSUME Typing, AliasInv, OriginalsInv, ReplaceMethod
  PROVE  OriginalsInv'
<1>1. /\ op # NoOp /\ op.kind = "add" /\ op.at = "replace" /\ UNCHANGED <<defined, alias>>
      /\ imp' = [imp EXCEPT ![OpClass][OpSelector] = Forward]
  BY DEF ReplaceMethod, NoOp
<1>2. OpClass \in Classes /\ OpSelector \in Selectors
  BY <1>1, OpTypes
<1>3. Reaches(alias, OpClass, OpSelector)
  BY <1>1 DEF AliasInv
<1> QED
  BY <1>1, <1>2, <1>3, OriginalsInvChange

LEMMA OriginalsInvRestore ==
  ASSUME Typing, AliasInv, OriginalsInv, RestoreMethod
  PROVE  OriginalsInv'
<1>1. op # NoOp /\ UNCHANGED <<defined, alias>>
  BY DEF RestoreMethod, NoOp
<1>2. OpClass \in Classes /\ OpSelector \in Selectors
  BY <1>1, OpTypes
<1>3. CASE imp' = imp
  BY <1>1, <1>3, OriginalsInvFrame
<1>4. ASSUME Lookup(imp, OpClass, OpSelector) = Forward, NEW m,
             imp' = [imp EXCEPT ![OpClass][OpSelector] = m]
      PROVE  OriginalsInv'
  <2>1. PICK d \in Up(OpClass) : imp[d][OpSelector] = Forward
    BY <1>2, <1>4, LookupFinds, NilAssumption
  <2>2. d \in Classes /\ Up(d) \subseteq Up(OpClass)
    BY <1>2, UpClasses, UpOrder
  <2>3. Reaches(alias, OpClass, OpSelector)
    BY <1>2, <2>1, <2>2 DEF AliasInv, Reaches
  <2> QED
    BY <1>1, <1>2, <1>4, <2>3, OriginalsInvChange
<1> QED
  BY <1>3, <1>4 DEF RestoreMethod

LEMMA OriginalsInvNext == ASSUME Typing, AliasInv, OriginalsInv, [Next]_vars PROVE OriginalsInv'
<1>1. ASSUME NEW x, NEW s, NEW t, NEW option, AspectAdd(t, x, s, option) PROVE OriginalsInv'
  BY <1>1, OriginalsInvFrame DEF AspectAdd
<1>2. ASSUME NEW x, NEW s, NEW t, AspectAddFails(t, x, s) PROVE OriginalsInv'
  BY <1>2, OriginalsInvFrame DEF AspectAddFails
<1>3. ASSUME NEW t, AspectRemove(t) PROVE OriginalsInv'
  BY <1>3, OriginalsInvFrame DEF AspectRemove, RemoveAspect
<1>4. CASE HookClass \/ CleanUp
  BY <1>4, OriginalsInvFrame DEF HookClass, CleanUp
<1>5. ASSUME NEW x \in Senders, Sending(x) \/ \E o \in Objects, s \in Selectors : Send(x, o, s)
      PROVE  OriginalsInv'
  BY <1>5, SendingFrame, OriginalsInvFrame
<1>6. ASSUME NEW o, Dealloc(o) PROVE OriginalsInv'
  BY <1>6, OriginalsInvFrame DEF Dealloc
<1>7. CASE UNCHANGED vars
  BY <1>7, OriginalsInvFrame DEF vars
<1> QED
  BY <1>1, <1>2, <1>3, <1>4, <1>5, <1>6, <1>7, OriginalsInvAddAlias, OriginalsInvReplace,
     OriginalsInvRestore, Zenon DEF Next, LockHolder

\* Whatever is hooked, unhooked, restored and deallocated in whatever order, a
\* selector is forwarded only where an alias is found, and the alias of a class is
\* the implementation that the program gives this class.
THEOREM AliasAlwaysKept == Spec => []AliasKept
<1>1. Init => Typing /\ AliasInv /\ OriginalsInv
  BY TypingInit, AliasInvInit, OriginalsInvInit
<1>2. Typing /\ AliasInv /\ OriginalsInv /\ [Next]_vars => (Typing /\ AliasInv /\ OriginalsInv)'
  BY TypingNext, AliasInvNext, OriginalsInvNext
<1>3. Typing /\ AliasInv /\ OriginalsInv => AliasKept
  <2> SUFFICES ASSUME Typing, AliasInv, OriginalsInv, NEW c \in Classes, NEW s \in Selectors
               PROVE  /\ imp[c][s] = Forward => Lookup(alias, c, s) # Nil
                      /\ alias[c][s] # Nil => alias[c][s] = Original(c, s)
    BY DEF AliasKept
  <2>1. imp[c][s] = Forward => Reaches(alias, c, s)
    BY DEF AliasInv
  <2>2. Reaches(alias, c, s) => Lookup(alias, c, s) # Nil
    BY LookupFinds DEF Reaches
  <2> QED
    BY <2>1, <2>2, Zenon DEF OriginalsInv
<1> QED
  BY <1>1, <1>2, <1>3, PTL DEF Spec

-----------------------------------------------------------------------------
(* Once per class hierarchy.                                               *)

\* Why OncePerHierarchy holds: a tracked selector of a class is known to the
\* trackers of all its superclasses, so no two classes on one chain track it.
TrackerInv ==
  /\ \A t \in live : token[t].subject \in BaseClasses =>
       token[t].selector \in tracker[token[t].subject].selectorNames
  /\ \A c \in BaseClasses, s \in Selectors : s \in tracker[c].selectorNames =>
       \A d \in Up(c) \ {c} : tracker[d].subclassTrackers[s] # {} /\ s \notin tracker[d].selectorNames

IsTracker(r) ==
  /\ r = [id |-> r.id, selectorNames |-> r.selectorNames, subclassTrackers |-> r.subclassTrackers]
  /\ r.subclassTrackers = [s \in Selectors |-> r.subclassTrackers[s]]

TrackerTyped ==
  /\ trackers \in [BaseClasses -> Nat]
  /\ tracker = [c \in BaseClasses |-> tracker[c]]
  /\ \A c \in BaseClasses : IsTracker(tracker[c]) /\ (tracker[c].id = 0 => tracker[c] = NoTracker)

OnceInv == NothingRemoved => TrackerTyped /\ TrackerInv

\* Only aspect_add changes what is tracked while nothing is removed, and
\* nothing becomes unremoved.
LEMMA WhileNothingRemoved ==
  ASSUME Typing, [Next]_vars, NothingRemoved'
  PROVE  /\ NothingRemoved
         /\ \/ UNCHANGED <<tracking, token>> /\ live' \subseteq live
            \/ \E x \in Hookable, s \in Selectors, t \in Tokens :
                 \/ \E option \in Options : AspectAdd(t, x, s, option)
                 \/ AspectAddFails(t, x, s)
<1> DEFINE Adds == \E x \in Hookable, s \in Selectors, t \in Tokens :
                     \/ \E option \in Options : AspectAdd(t, x, s, option)
                     \/ AspectAddFails(t, x, s)
           Goal == NothingRemoved /\ ((UNCHANGED <<tracking, token>> /\ live' \subseteq live) \/ Adds)
<1> SUFFICES Goal
  BY Zenon
<1>0. op'.kind # "remove" /\ \A u \in Tokens : token'[u] \notin {Nil, Refused} => u \in live'
  BY DEF NothingRemoved
<1>1. ASSUME UNCHANGED <<tracking, token>>, live' \subseteq live, op.kind # "remove" PROVE Goal
  BY <1>0, <1>1 DEF NothingRemoved
<1>2. ASSUME NEW x \in Hookable, NEW s \in Selectors, NEW t \in Tokens,
             \/ \E option \in Options : AspectAdd(t, x, s, option)
             \/ AspectAddFails(t, x, s)
      PROVE  Goal
  <2>1. /\ op = NoOp /\ token[t] = Nil /\ live' \subseteq live \cup {t}
        /\ \A u \in Tokens \ {t} : token'[u] = token[u]
    BY <1>2, Zenon DEF AspectAdd, AspectAddFails, Typing, TypeOK
  <2>2. NothingRemoved
    BY <1>0, <2>1 DEF NothingRemoved, NoOp
  <2> HIDE DEF NothingRemoved
  <2> QED
    BY <1>2, <2>2, ZenonT(30)
<1>3. ASSUME NEW t \in Tokens, AspectRemove(t) PROVE Goal
  BY <1>0, <1>3 DEF AspectRemove, RemoveAspect
<1>4. CASE HookClass
  <2>1. UNCHANGED <<tracking, token, live>> /\ op.kind # "remove"
    BY <1>4 DEF HookClass
  <2> QED
    BY <1>1, <2>1
<1>5. CASE AddAlias \/ ReplaceMethod
  <2>1. UNCHANGED <<tracking, token, live>> /\ op.kind # "remove"
    BY <1>5 DEF AddAlias, ReplaceMethod
  <2> QED
    BY <1>1, <2>1
<1>6. CASE RestoreMethod
  <2>1. op'.kind = "remove"
    BY <1>6 DEF RestoreMethod, Typing, OpTyped
  <2> QED
    BY <1>0, <2>1
<1>7. CASE CleanUp
  <2>1. op # NoOp /\ UNCHANGED token /\ live' = live \ {op.aspect}
    BY <1>7 DEF CleanUp, NoOp
  <2>2. op.aspect \in Tokens /\ token[op.aspect] \in Registration
    BY <2>1, OpTypes
  <2> QED
    BY <1>0, <2>1, <2>2, NilAssumption
<1>8. ASSUME NEW x \in Senders, Sending(x) \/ \E o \in Objects, s \in Selectors : Send(x, o, s)
      PROVE  Goal
  <2>1. UNCHANGED <<tracking, token, live>> /\ (op'.kind = "remove" \/ UNCHANGED op)
    BY <1>8, SendingFrame, Zenon
  <2> QED
    BY <1>0, <1>1, <2>1
<1>9. ASSUME NEW o \in Objects, Dealloc(o) PROVE Goal
  <2>1. UNCHANGED <<tracking, token, op>> /\ live' \subseteq live
    BY <1>9 DEF Dealloc
  <2> QED
    BY <1>0, <1>1, <2>1
<1>10. CASE UNCHANGED vars
  BY <1>0, <1>1, <1>10 DEF vars
<1> HIDE DEF Goal
<1> QED
  BY <1>2, <1>3, <1>4, <1>5, <1>6, <1>7, <1>8, <1>9, <1>10, Zenon DEF Next, LockHolder

LEMMA UpBase ==
  ASSUME NEW c \in BaseClasses
  PROVE  c \in Classes /\ c \in Up(c) /\ Up(c) \subseteq BaseClasses
<1>1. c \in Classes
  BY BaseClass DEF BaseClasses
<1> QED
  BY <1>1, UpClasses

LEMMA NewTracker ==
  ASSUME NEW n
  PROVE  LET q == [NoTracker EXCEPT !.id = n] IN
         /\ IsTracker(q) /\ q.id = n /\ q.selectorNames = NoTracker.selectorNames
         /\ q.subclassTrackers = NoTracker.subclassTrackers
<1>1. [NoTracker EXCEPT !.id = n] =
        [id |-> n, selectorNames |-> {}, subclassTrackers |-> [s \in Selectors |-> {}]]
  BY DEF NoTracker
<1> QED
  BY <1>1 DEF IsTracker, NoTracker

\* A tracker with one more selector, or one more tracker of a subclass.
LEMMA AddName ==
  ASSUME NEW r, IsTracker(r), NEW s
  PROVE  LET q == [r EXCEPT !.selectorNames = @ \cup {s}] IN
         /\ IsTracker(q) /\ q.id = r.id /\ q.selectorNames = r.selectorNames \cup {s}
         /\ q.subclassTrackers = r.subclassTrackers
<1>1. [r EXCEPT !.selectorNames = @ \cup {s}] =
        [id |-> r.id, selectorNames |-> r.selectorNames \cup {s}, subclassTrackers |-> r.subclassTrackers]
  BY DEF IsTracker
<1> QED
  BY <1>1 DEF IsTracker

WithSubclassTracker(r, s, e) == [r EXCEPT !.subclassTrackers[s] = @ \cup {e}]

LEMMA AddSubclassTracker ==
  ASSUME NEW r, IsTracker(r), NEW s \in Selectors, NEW e,
         NEW q, q = WithSubclassTracker(r, s, e)
  PROVE  /\ IsTracker(q) /\ q.id = r.id /\ q.selectorNames = r.selectorNames
         /\ q.subclassTrackers[s] # {}
         /\ \A u \in Selectors : r.subclassTrackers[u] \subseteq q.subclassTrackers[u]
<1> DEFINE subs == r.subclassTrackers
           more == [subs EXCEPT ![s] = @ \cup {e}]
<1>1. q = [id |-> r.id, selectorNames |-> r.selectorNames, subclassTrackers |-> more]
  BY DEF IsTracker, WithSubclassTracker
<1>2. subs = [u \in Selectors |-> subs[u]]
  BY DEF IsTracker
<1> HIDE DEF subs
<1>3. /\ more = [u \in Selectors |-> more[u]] /\ more[s] # {}
      /\ \A u \in Selectors : subs[u] \subseteq more[u]
  BY <1>2
<1> HIDE DEF more
<1>4. q.id = r.id /\ q.selectorNames = r.selectorNames /\ q.subclassTrackers = more
  BY <1>1
<1>5. IsTracker(q)
  BY <1>1, <1>3, <1>4 DEF IsTracker
<1> QED
  BY <1>3, <1>4, <1>5 DEF subs

\* What Track changes.
LEMMA TrackChanges ==
  ASSUME TrackerTyped, NEW x \in BaseClasses, NEW s \in Selectors, Track(x, s),
         s \notin tracker[x].selectorNames, x \notin Objects
  PROVE  /\ TrackerTyped'
         /\ tracker'[x].selectorNames = tracker[x].selectorNames \cup {s}
         /\ \A d \in BaseClasses \ {x} : tracker'[d].selectorNames = tracker[d].selectorNames
         /\ \A d \in BaseClasses, u \in Selectors :
              tracker[d].subclassTrackers[u] \subseteq tracker'[d].subclassTrackers[u]
         /\ \A d \in Up(x) \ {x} : tracker'[d].subclassTrackers[s] # {}
<1> DEFINE Made(d) == IF tracker[d].id # 0 THEN tracker[d]
                      ELSE [NoTracker EXCEPT !.id = trackers[d] + 1]
           entry(d) == <<Below(d, x), Made(Below(d, x)).id>>
           New(d) == CASE d \notin Up(x) -> tracker[d]
                       [] d = x -> [Made(d) EXCEPT !.selectorNames = @ \cup {s}]
                       [] OTHER -> [Made(d) EXCEPT !.subclassTrackers[s] = @ \cup {entry(d)}]
<1>1. /\ tracker' = [d \in BaseClasses |-> New(d)]
      /\ trackers' = [d \in BaseClasses |->
            IF d \in Up(x) /\ tracker[d].id = 0 THEN trackers[d] + 1 ELSE trackers[d]]
  BY DEF Track
<1>2. trackers' \in [BaseClasses -> Nat]
  BY <1>1 DEF TrackerTyped
<1>3. x \in Up(x)
  BY UpBase
<1>4. ASSUME NEW d \in BaseClasses
      PROVE  /\ IsTracker(New(d)) /\ (New(d).id = 0 => New(d) = NoTracker)
             /\ d = x => New(d).selectorNames = tracker[d].selectorNames \cup {s}
             /\ d # x => New(d).selectorNames = tracker[d].selectorNames
             /\ \A u \in Selectors : tracker[d].subclassTrackers[u] \subseteq New(d).subclassTrackers[u]
             /\ d \in Up(x) \ {x} => New(d).subclassTrackers[s] # {}
  <2>1. IsTracker(tracker[d]) /\ (tracker[d].id = 0 => tracker[d] = NoTracker) /\ trackers[d] \in Nat
    BY DEF TrackerTyped
  <2>2. /\ IsTracker(Made(d)) /\ Made(d).selectorNames = tracker[d].selectorNames
        /\ Made(d).subclassTrackers = tracker[d].subclassTrackers /\ Made(d).id # 0
    <3>1. CASE tracker[d].id # 0
      BY <2>1, <3>1
    <3>2. CASE tracker[d].id = 0
      <4>1. Made(d) = [NoTracker EXCEPT !.id = trackers[d] + 1] /\ tracker[d] = NoTracker
        BY <2>1, <3>2
      <4>2. trackers[d] + 1 # 0
        BY <2>1
      <4> HIDE DEF Made
      <4> QED
        BY <4>1, <4>2, NewTracker
    <3> QED
      BY <3>1, <3>2
  <2> HIDE DEF Made
  <2>3. CASE d \notin Up(x)
    <3>1. New(d) = tracker[d]
      BY <1>3, <2>3
    <3> HIDE DEF New
    <3> QED
      BY <1>3, <2>1, <2>3, <3>1
  <2>4. CASE d = x
    <3>1. New(d) = [Made(d) EXCEPT !.selectorNames = @ \cup {s}]
      BY <1>3, <2>4
    <3> DEFINE m == Made(d)
               n == New(d)
    <3>2. /\ IsTracker(m) /\ m.selectorNames = tracker[d].selectorNames
          /\ m.subclassTrackers = tracker[d].subclassTrackers /\ m.id # 0
          /\ n = [m EXCEPT !.selectorNames = @ \cup {s}]
      BY <2>2, <3>1
    <3> HIDE DEF m, New
    <3>3. /\ IsTracker(n) /\ n.id = m.id /\ n.selectorNames = m.selectorNames \cup {s}
          /\ n.subclassTrackers = m.subclassTrackers
      BY <3>2, AddName
    <3> QED
      BY <2>4, <3>2, <3>3
  <2>5. CASE d \in Up(x) /\ d # x
    <3>1. New(d) = [Made(d) EXCEPT !.subclassTrackers[s] = @ \cup {entry(d)}]
      BY <2>5
    <3> DEFINE m == Made(d)
               n == New(d)
               e == entry(d)
    <3>2. /\ IsTracker(m) /\ m.selectorNames = tracker[d].selectorNames
          /\ m.subclassTrackers = tracker[d].subclassTrackers /\ m.id # 0
          /\ n = WithSubclassTracker(m, s, e)
      BY <2>2, <3>1 DEF WithSubclassTracker
    <3> HIDE DEF e, m, n, New
    <3>3. /\ IsTracker(n) /\ n.id = m.id /\ n.selectorNames = m.selectorNames
          /\ n.subclassTrackers[s] # {}
          /\ \A u \in Selectors : m.subclassTrackers[u] \subseteq n.subclassTrackers[u]
      BY <3>2, AddSubclassTracker
    <3> QED
      BY <2>5, <3>2, <3>3 DEF n
  <2> QED
    BY <2>3, <2>4, <2>5
<1> HIDE DEF New
<1>5. \A d \in BaseClasses : tracker'[d] = New(d)
  BY <1>1
<1>6. TrackerTyped'
  <2>1. tracker' = [d \in BaseClasses |-> tracker'[d]]
    BY <1>1
  <2> QED
    BY <1>2, <1>4, <1>5, <2>1 DEF TrackerTyped
<1> QED
  BY <1>4, <1>5, <1>6, UpBase

LEMMA OnceAdd ==
  ASSUME Typing, TrackerTyped, TrackerInv, NEW x \in Subjects, NEW s \in Selectors,
         Allowed(x, s), Track(x, s)
  PROVE  /\ TrackerTyped'
         /\ x \in BaseClasses => s \in tracker'[x].selectorNames
         /\ \A c \in BaseClasses : tracker[c].selectorNames \subseteq tracker'[c].selectorNames
         /\ \A c \in BaseClasses, u \in Selectors : u \in tracker'[c].selectorNames =>
              \A d \in Up(c) \ {c} : tracker'[d].subclassTrackers[u] # {} /\ u \notin tracker'[d].selectorNames
<1>0. x \in Objects => x \notin BaseClasses
  BY NilAssumption, BaseClass DEF BaseClasses
<1>1. CASE x \in Objects \/ s \in tracker[x].selectorNames
  <2>1. UNCHANGED tracking
    BY <1>1 DEF Track
  <2> QED
    BY <1>0, <1>1, <2>1, ZenonT(30) DEF TrackerTyped, TrackerInv
<1>2. CASE x \notin Objects /\ s \notin tracker[x].selectorNames
  <2>0. x \in BaseClasses
    BY <1>2 DEF Subjects
  <2>1. /\ TrackerTyped'
        /\ tracker'[x].selectorNames = tracker[x].selectorNames \cup {s}
        /\ \A d \in BaseClasses \ {x} : tracker'[d].selectorNames = tracker[d].selectorNames
        /\ \A d \in BaseClasses, u \in Selectors :
             tracker[d].subclassTrackers[u] \subseteq tracker'[d].subclassTrackers[u]
        /\ \A d \in Up(x) \ {x} : tracker'[d].subclassTrackers[s] # {}
    BY <1>2, <2>0, TrackChanges
  <2>2. tracker[x].subclassTrackers[s] = {} /\ \A d \in Up(x) : s \notin tracker[d].selectorNames
    BY <1>2, <2>0 DEF Allowed
  <2>3. ASSUME NEW c \in BaseClasses, NEW u \in Selectors, u \in tracker'[c].selectorNames,
               NEW d \in Up(c) \ {c}
        PROVE  tracker'[d].subclassTrackers[u] # {} /\ u \notin tracker'[d].selectorNames
    <3>0. d \in BaseClasses
      BY UpBase
    <3>1. CASE u \in tracker[c].selectorNames
      <4>1. tracker[d].subclassTrackers[u] # {} /\ u \notin tracker[d].selectorNames
        BY <3>1 DEF TrackerInv
      <4>2. ~(d = x /\ u = s)
        BY <2>2, <4>1
      <4> QED
        BY <2>1, <3>0, <4>1, <4>2
    <3>2. CASE u \notin tracker[c].selectorNames
      <4>1. c = x /\ u = s
        BY <2>1, <2>3, <3>2
      <4> QED
        BY <2>1, <2>2, <3>0, <4>1
    <3> QED
      BY <3>1, <3>2
  <2> QED
    BY <2>0, <2>1, <2>3
<1> QED
  BY <1>1, <1>2

LEMMA OnceInvInit == Init => OnceInv
<1> SUFFICES ASSUME Init PROVE TrackerTyped /\ TrackerInv
  BY DEF OnceInv
<1>1. tracker = [c \in BaseClasses |-> NoTracker] /\ trackers = [c \in BaseClasses |-> 0] /\ live = {}
  BY DEF Init
<1>2. IsTracker(NoTracker)
  BY Zenon DEF IsTracker, NoTracker
<1>3. TrackerTyped
  BY <1>1, <1>2 DEF TrackerTyped
<1>4. TrackerInv
  BY <1>1 DEF TrackerInv, NoTracker
<1> QED
  BY <1>3, <1>4

LEMMA OnceInvNext == ASSUME Typing, OnceInv, [Next]_vars PROVE OnceInv'
<1> SUFFICES ASSUME NothingRemoved' PROVE TrackerTyped' /\ TrackerInv'
  BY DEF OnceInv
<1>1. NothingRemoved
  BY WhileNothingRemoved
<1>2. TrackerTyped /\ TrackerInv
  BY <1>1 DEF OnceInv
<1>3. CASE UNCHANGED <<tracking, token>> /\ live' \subseteq live
  BY <1>2, <1>3, ZenonT(30) DEF TrackerTyped, TrackerInv
<1>4. ASSUME NEW x \in Hookable, NEW s \in Selectors, NEW t \in Tokens, NEW option \in Options,
             AspectAdd(t, x, s, option)
      PROVE  TrackerTyped' /\ TrackerInv'
  <2>1. x \in Subjects /\ Allowed(x, s) /\ Track(x, s)
    BY <1>4 DEF Hookable, Subjects, AspectAdd
  <2>2. /\ TrackerTyped'
        /\ x \in BaseClasses => s \in tracker'[x].selectorNames
        /\ \A c \in BaseClasses : tracker[c].selectorNames \subseteq tracker'[c].selectorNames
        /\ \A c \in BaseClasses, u \in Selectors : u \in tracker'[c].selectorNames =>
             \A d \in Up(c) \ {c} : tracker'[d].subclassTrackers[u] # {} /\ u \notin tracker'[d].selectorNames
    BY <1>2, <2>1, OnceAdd
  <2>3. /\ live' = live \cup {t} /\ token'[t].subject = x /\ token'[t].selector = s
        /\ token[t] = Nil /\ \A u \in Tokens \ {t} : token'[u] = token[u]
    BY <1>4, ZenonT(30) DEF AspectAdd, Typing, TypeOK
  <2>4. \A u \in live : u \in Tokens \ {t}
    BY <2>3, NilAssumption, ZenonT(30) DEF Typing, TypeOK, Registered
  <2>5. \A u \in live' : token'[u].subject \in BaseClasses =>
          token'[u].selector \in tracker'[token'[u].subject].selectorNames
    BY <1>2, <2>2, <2>3, <2>4 DEF TrackerInv
  <2> QED
    BY <2>2, <2>5 DEF TrackerInv
<1>5. ASSUME NEW x \in Hookable, NEW s \in Selectors, NEW t \in Tokens, AspectAddFails(t, x, s)
      PROVE  TrackerTyped' /\ TrackerInv'
  <2>1. x \in Subjects /\ Allowed(x, s) /\ Track(x, s)
    BY <1>5 DEF Hookable, Subjects, AspectAddFails
  <2>2. /\ TrackerTyped'
        /\ \A c \in BaseClasses : tracker[c].selectorNames \subseteq tracker'[c].selectorNames
        /\ \A c \in BaseClasses, u \in Selectors : u \in tracker'[c].selectorNames =>
             \A d \in Up(c) \ {c} : tracker'[d].subclassTrackers[u] # {} /\ u \notin tracker'[d].selectorNames
    BY <1>2, <2>1, OnceAdd
  <2>3. live' = live /\ token[t] = Nil /\ \A u \in Tokens \ {t} : token'[u] = token[u]
    BY <1>5 DEF AspectAddFails, Typing, TypeOK
  <2>4. \A u \in live : u \in Tokens \ {t}
    BY <2>3, NilAssumption, ZenonT(30) DEF Typing, TypeOK, Registered
  <2>5. \A u \in live' : token'[u].subject \in BaseClasses =>
          token'[u].selector \in tracker'[token'[u].subject].selectorNames
    BY <1>2, <2>2, <2>3, <2>4, Zenon DEF TrackerInv
  <2> QED
    BY <2>2, <2>5, Zenon DEF TrackerInv
<1> QED
  BY <1>3, <1>4, <1>5, WhileNothingRemoved, Zenon

\* As long as nothing is removed, aspect_add refuses a second hook of a method
\* on one class hierarchy, whatever the order and the kind of the attempts,
\* and although a refused block leaves its selector tracked.
THEOREM OncePerHierarchyAlways == Spec => []OncePerHierarchy
<1>1. Init => Typing /\ OnceInv
  BY TypingInit, OnceInvInit
<1>2. Typing /\ OnceInv /\ [Next]_vars => (Typing /\ OnceInv)'
  BY TypingNext, OnceInvNext
<1>3. Typing /\ OnceInv => OncePerHierarchy
  <2> SUFFICES ASSUME Typing, OnceInv, NothingRemoved, NEW t \in live, NEW u \in live,
                      token[t].selector = token[u].selector,
                      token[t].subject \in BaseClasses,
                      token[u].subject \in Up(token[t].subject)
               PROVE  token[t].subject = token[u].subject
    BY DEF OncePerHierarchy
  <2>1. TrackerInv
    BY DEF OnceInv
  <2>2. token[u].subject \in BaseClasses
    BY UpBase
  <2>3. token[t].selector \in Selectors
    BY DEF Typing, Registered, Registration
  <2> QED
    BY <2>1, <2>2, <2>3 DEF TrackerInv
<1> QED
  BY <1>1, <1>2, <1>3, PTL DEF Spec

-----------------------------------------------------------------------------
(* Automatic removal.                                                      *)

\* Why AutomaticallyRemoved holds: an aspect that a send called and that is not
\* removed yet is noted by this send, or the send is removing it, unless it raised
\* an exception.
Pending(x) == {t \in live : t \in send[x].remove \/ (op.kind = "remove" /\ op.aspect = t /\ op.by = x)}

RemovalInv ==
  /\ executed \cap live = {}
  /\ \A t \in executed : token[t] \in Registration
  /\ \A x \in Senders :
       /\ \A t \in send[x].called : token[t] \in Registration
       /\ send[x].at = "idle" => send[x].called = {}
       /\ send[x].at # "raise" => send[x].called \cap live \subseteq Pending(x)

\* Steps that leave the sends alone and remove aspects at most.
LEMMA RemovalInvFrame ==
  ASSUME Typing, RemovalInv, UNCHANGED <<send, executed>>, live' \subseteq live,
         \A t \in Tokens : token[t] \in Registration => token'[t] = token[t],
         \/ op.kind # "remove"
         \/ op'.kind = "remove" /\ op'.aspect = op.aspect /\ op'.by = op.by
         \/ op.aspect \notin live'
  PROVE  RemovalInv'
<1>1. /\ \A t \in executed : t \in Tokens
      /\ \A x \in Senders : \A t \in send[x].called : t \in Tokens
  BY DEF Typing, TypeOK
<1>2. \A x \in Senders : Pending(x) \cap live' \subseteq Pending(x)'
  BY DEF Pending
<1>3. ASSUME NEW x \in Senders, send[x].at # "raise" PROVE send[x].called \cap live' \subseteq Pending(x)'
  BY <1>2, <1>3 DEF RemovalInv
<1> QED
  BY <1>1, <1>3, ZenonT(30) DEF RemovalInv

\* A step of a send that calls and notes aspects, and takes no lock.
LEMMA RemovalInvSend ==
  ASSUME Typing, RemovalInv, NEW x \in Senders, NEW record, NEW more,
         \A t \in more : token[t] \in Registration,
         record.at = "idle" => record.called = {},
         record.called \subseteq send[x].called \cup more,
         record.at # "raise" =>
           \/ record.called = {}
           \/ /\ send[x].at # "raise"
              /\ (send[x].remove \cup more) \cap live \subseteq record.remove,
         send' = [send EXCEPT ![x] = record], UNCHANGED <<live, op, executed, token>>
  PROVE  RemovalInv'
<1>0. send'[x] = record /\ \A y \in Senders : y # x => send'[y] = send[y]
  BY DEF Typing, SendTyped
<1>1. ASSUME NEW y \in Senders, y # x
      PROVE  /\ send'[y] = send[y]
             /\ Pending(y)' = Pending(y)
  BY <1>0, <1>1 DEF Pending
<1>2. record.at # "raise" => record.called \cap live \subseteq Pending(x)'
  <2> SUFFICES ASSUME record.at # "raise", NEW t \in record.called, t \in live PROVE t \in Pending(x)'
    OBVIOUS
  <2>1. send[x].at # "raise" /\ (send[x].remove \cup more) \cap live \subseteq record.remove
    OBVIOUS
  <2>2. CASE t \in more
    BY <1>0, <2>1, <2>2 DEF Pending
  <2>3. CASE t \in send[x].called
    <3>1. t \in Pending(x)
      BY <2>1, <2>3 DEF RemovalInv
    <3> QED
      BY <1>0, <2>1, <3>1 DEF Pending
  <2> QED
    BY <2>2, <2>3
<1>3. \A t \in record.called : token[t] \in Registration
  BY DEF RemovalInv
<1>4. ASSUME NEW y \in Senders
      PROVE  /\ \A t \in send'[y].called : token'[t] \in Registration
             /\ send'[y].at = "idle" => send'[y].called = {}
             /\ send'[y].at # "raise" => send'[y].called \cap live' \subseteq Pending(y)'
  <2>1. CASE y = x
    BY <1>0, <1>2, <1>3, <2>1
  <2>2. CASE y # x
    BY <1>1, <2>2 DEF RemovalInv
  <2> QED
    BY <2>1, <2>2
<1> QED
  BY <1>4 DEF RemovalInv

LEMMA RemovalInvKeep ==
  ASSUME Typing, RemovalInv, NEW x \in Senders, NEW record,
         record.at = "idle" => record.called = {},
         record.called \subseteq send[x].called,
         \/ record.at = "raise"
         \/ record.called = {}
         \/ send[x].at # "raise" /\ send[x].remove \cap live \subseteq record.remove,
         send' = [send EXCEPT ![x] = record], UNCHANGED <<live, op, executed, token>>
  PROVE  RemovalInv'
<1> DEFINE more == {}
<1>1. \A t \in more : token[t] \in Registration
  OBVIOUS
<1>2. record.called \subseteq send[x].called \cup more
  OBVIOUS
<1>3. record.at # "raise" =>
        \/ record.called = {}
        \/ /\ send[x].at # "raise"
           /\ (send[x].remove \cup more) \cap live \subseteq record.remove
  OBVIOUS
<1> HIDE DEF more
<1> QED
  BY <1>1, <1>2, <1>3, RemovalInvSend, ZenonT(30)

LEMMA RemovalInvInvoke ==
  ASSUME Typing, RemovalInv, NEW x \in Senders, NEW aspects, NEW next \in SendRecord,
         \A t \in aspects : token[t] \in Registration,
         next.at # "idle", send[x].at # "raise",
         next.remove = send[x].remove, next.called = send[x].called,
         Invoke(x, aspects, next), UNCHANGED <<live, op, executed, token>>
  PROVE  RemovalInv'
<1> DEFINE automatic == {t \in aspects : token[t].automatic}
           record == [next EXCEPT !.remove = @ \cup automatic, !.called = @ \cup automatic]
<1>1. send' = [send EXCEPT ![x] = record] /\ \A t \in automatic : token[t] \in Registration
  BY DEF Invoke
<1> HIDE DEF automatic
<1>2. /\ record.at = next.at /\ record.remove = send[x].remove \cup automatic
      /\ record.called = send[x].called \cup automatic
  BY DEF SendRecord
<1> HIDE DEF record
<1> QED
  BY <1>1, <1>2, RemovalInvSend

\* The send removes what it noted, and returns when nothing is left to remove.
LEMMA RemovalInvRemove ==
  ASSUME Typing, RemovalInv, NEW x \in Senders, RemoveNoted(x)
  PROVE  RemovalInv'
<1>0. send[x] \in SendRecord /\ send \in [Senders -> SendRecord] /\ send[x].at = "remove"
  BY DEF RemoveNoted, Typing, SendTyped
<1>1. ASSUME NEW t \in send[x].remove, send' = [send EXCEPT ![x].remove = @ \ {t}]
      PROVE  LET record == [send[x] EXCEPT !.remove = @ \ {t}] IN
             /\ send' = [send EXCEPT ![x] = record]
             /\ record.at = "remove" /\ record.called = send[x].called
             /\ record.remove = send[x].remove \ {t}
  BY <1>0, <1>1 DEF SendRecord
<1>2. ASSUME NEW t \in send[x].remove, send' = [send EXCEPT ![x].remove = @ \ {t}], RemoveAspect(t, x)
      PROVE  RemovalInv'
  <2> DEFINE record == [send[x] EXCEPT !.remove = @ \ {t}]
  <2>1. /\ op.kind # "remove" /\ op'.kind = "remove" /\ op'.aspect = t /\ op'.by = x
        /\ UNCHANGED <<live, executed, token>>
    BY <1>2 DEF RemoveAspect, NoOp
  <2>2. /\ send' = [send EXCEPT ![x] = record] /\ record.at = "remove"
        /\ record.called = send[x].called /\ record.remove = send[x].remove \ {t}
    BY <1>1, <1>2, Zenon
  <2> HIDE DEF record
  <2>3. /\ send'[x].at = send[x].at /\ send'[x].called = send[x].called
        /\ send'[x].remove = send[x].remove \ {t}
        /\ \A y \in Senders : y # x => send'[y] = send[y]
    BY <1>0, <2>2
  <2>4. \A y \in Senders : Pending(y) \subseteq Pending(y)'
    BY <2>1, <2>3 DEF Pending
  <2>5. \A y \in Senders : send'[y].at = send[y].at /\ send'[y].called = send[y].called
    BY <2>3
  <2> QED
    BY <2>1, <2>4, <2>5 DEF RemovalInv
<1>3. ASSUME NEW t \in send[x].remove \ live, send' = [send EXCEPT ![x].remove = @ \ {t}],
             UNCHANGED <<defined, runtime, registry, tracking, op, executed>>
      PROVE  RemovalInv'
  <2> DEFINE record == [send[x] EXCEPT !.remove = @ \ {t}]
  <2>1. /\ send' = [send EXCEPT ![x] = record] /\ record.at = "remove"
        /\ record.called = send[x].called /\ record.remove = send[x].remove \ {t}
    BY <1>1, <1>3, Zenon
  <2> HIDE DEF record
  <2>2. send[x].remove \cap live \subseteq record.remove /\ send[x].at # "raise" /\ record.at # "idle"
    BY <1>0, <1>3, <2>1
  <2> QED
    BY <1>3, <2>1, <2>2, RemovalInvKeep, ZenonT(30)
<1>4. ASSUME send[x].remove = {}, op.by # x, send' = [send EXCEPT ![x] = NoSend],
             executed' = executed \cup send[x].called,
             UNCHANGED <<defined, runtime, registry, tracking, op>>
      PROVE  RemovalInv'
  <2>1. send[x].called \cap live = {} /\ \A t \in send[x].called : token[t] \in Registration
    BY <1>0, <1>4 DEF RemovalInv, Pending
  <2>2. /\ executed' \cap live' = {}
        /\ \A t \in executed' : token'[t] \in Registration
    BY <1>4, <2>1 DEF RemovalInv
  <2>3. /\ send'[x] = NoSend /\ NoSend.called = {}
        /\ \A y \in Senders : y # x => send'[y] = send[y] /\ Pending(y)' = Pending(y)
    BY <1>0, <1>4 DEF NoSend, Pending
  <2> QED
    BY <1>4, <2>2, <2>3 DEF RemovalInv
<1> QED
  BY <1>2, <1>3, <1>4, Zenon DEF RemoveNoted

LEMMA RemovalInvSending ==
  ASSUME Typing, RemovalInv, NEW x \in Senders, Sending(x)
  PROVE  RemovalInv'
<1>0. send[x] \in SendRecord /\ send \in [Senders -> SendRecord]
  BY DEF Typing, SendTyped
<1>1. CASE ForwardMessage(x)
  <2> DEFINE lost == [send[x] EXCEPT !.at = "raise", !.result = "unrecognized"]
             ids == {container[<<send[x].object, send[x].selector>>],
                     ContainerForClass(isa[send[x].object], send[x].selector)}
             next == [send[x] EXCEPT !.at = "instead", !.containers = ids]
  <2>1. UNCHANGED <<live, op, executed, token>> /\ send[x].at = "forward"
    BY <1>1 DEF ForwardMessage
  <2>2. send' = [send EXCEPT ![x] = lost] \/ Invoke(x, AspectsAt(ids, "before"), next)
    BY <1>0, <1>1, Zenon DEF ForwardMessage
  <2>3. lost.at = "raise" /\ lost.called = send[x].called
    BY <1>0 DEF SendRecord
  <2>4. /\ \A i \in ids : i \in 0..Len(contents)
        /\ ids \in SUBSET Nat
    <3>1. send[x].object \in Subjects /\ send[x].selector \in Selectors /\ isa[send[x].object] \in Classes
      BY <2>1, SendFields DEF Subjects
    <3>2. Len(contents) \in Nat
      BY DEF Typing, TypeOK
    <3> QED
      BY <3>1, <3>2, ContainerTypes
  <2> HIDE DEF ids
  <2>5. /\ next.at = "instead" /\ next.remove = send[x].remove /\ next.called = send[x].called
        /\ next \in SendRecord
    BY <1>0, <2>4, Zenon DEF SendRecord
  <2>6. \A t \in AspectsAt(ids, "before") : token[t] \in Registration
    BY <2>4, AspectsAtType, Zenon
  <2> HIDE DEF lost, next
  <2>7. CASE send' = [send EXCEPT ![x] = lost]
    <3>1. lost.called \subseteq send[x].called /\ lost.at # "idle"
      BY <2>3
    <3> QED
      BY <2>1, <2>3, <2>7, <3>1, RemovalInvKeep, ZenonT(30)
  <2>8. CASE Invoke(x, AspectsAt(ids, "before"), next)
    BY <2>1, <2>5, <2>6, <2>8, RemovalInvInvoke, ZenonT(30)
  <2> QED
    BY <2>2, <2>7, <2>8
<1>2. CASE InsteadOrOriginal(x)
  <2> DEFINE m == Lookup(alias, isa[send[x].object], send[x].selector)
             instead == [send[x] EXCEPT !.at = "runInstead"]
             original == [send[x] EXCEPT !.at = "after",
                                         !.result = IF m = Nil THEN "unrecognized" ELSE m]
  <2>1. UNCHANGED <<live, op, executed, token>> /\ send[x].at = "instead"
    BY <1>2 DEF InsteadOrOriginal
  <2>2. send' = [send EXCEPT ![x] = instead] \/ send' = [send EXCEPT ![x] = original]
    BY <1>0, <1>2, Zenon DEF InsteadOrOriginal
  <2> HIDE DEF m
  <2>3. /\ instead.at = "runInstead" /\ instead.remove = send[x].remove /\ instead.called = send[x].called
        /\ original.at = "after" /\ original.remove = send[x].remove /\ original.called = send[x].called
    BY <1>0 DEF SendRecord
  <2> HIDE DEF instead, original
  <2>4. ASSUME NEW record, record.at \in {"runInstead", "after"}, record.remove = send[x].remove,
               record.called = send[x].called, send' = [send EXCEPT ![x] = record]
        PROVE  RemovalInv'
    <3>1. /\ record.called \subseteq send[x].called
          /\ send[x].remove \cap live \subseteq record.remove
          /\ record.at # "idle" /\ send[x].at # "raise"
      BY <2>1, <2>4
    <3> QED
      BY <2>1, <2>4, <3>1, RemovalInvKeep, ZenonT(30)
  <2> QED
    BY <2>2, <2>3, <2>4
<1>3. CASE RunInstead(x)
  <2> DEFINE aspects == AspectsAt(send[x].containers, "instead")
             next == [send[x] EXCEPT !.at = "after",
                        !.result = IF aspects = {} THEN "skipped" ELSE "instead"]
  <2>1. UNCHANGED <<live, op, executed, token>> /\ Invoke(x, aspects, next) /\ send[x].at = "runInstead"
    BY <1>3 DEF RunInstead
  <2>2. \A t \in aspects : token[t] \in Registration
    BY <2>1, SendFields, AspectsAtType
  <2> HIDE DEF aspects
  <2>3. /\ next.at = "after" /\ next.remove = send[x].remove /\ next.called = send[x].called
        /\ next \in SendRecord
    BY <1>0, Zenon DEF SendRecord
  <2> HIDE DEF next
  <2> QED
    BY <2>1, <2>2, <2>3, RemovalInvInvoke, ZenonT(30)
<1>4. CASE RunAfter(x)
  <2> DEFINE aspects == AspectsAt(send[x].containers, "after")
             next == [send[x] EXCEPT !.containers = {},
                        !.at = IF send[x].result = "unrecognized" THEN "raise" ELSE "remove"]
  <2>1. UNCHANGED <<live, op, executed, token>> /\ Invoke(x, aspects, next) /\ send[x].at = "after"
    BY <1>4 DEF RunAfter
  <2>2. \A t \in aspects : token[t] \in Registration
    BY <2>1, SendFields, AspectsAtType
  <2> HIDE DEF aspects
  <2>3. /\ next.at # "idle" /\ next.remove = send[x].remove /\ next.called = send[x].called
        /\ next \in SendRecord
    BY <1>0, Zenon DEF SendRecord
  <2> HIDE DEF next
  <2> QED
    BY <2>1, <2>2, <2>3, RemovalInvInvoke, ZenonT(30)
<1>5. ASSUME send' = [send EXCEPT ![x] = NoSend], UNCHANGED <<live, op, executed, token>> PROVE RemovalInv'
  <2>1. NoSend.called = {} /\ NoSend.called \subseteq send[x].called
    BY DEF NoSend
  <2> QED
    BY <1>5, <2>1, RemovalInvKeep, ZenonT(30)
<1>6. CASE Raise(x)
  BY <1>5, <1>6 DEF Raise
<1>7. CASE RemoveNoted(x)
  BY <1>7, RemovalInvRemove
<1> QED
  BY <1>1, <1>2, <1>3, <1>4, <1>6, <1>7 DEF Sending

LEMMA RemovalInvNext == ASSUME Typing, RemovalInv, [Next]_vars PROVE RemovalInv'
<1>1. ASSUME NEW x, NEW s, NEW t \in Tokens, NEW option, AspectAdd(t, x, s, option)
      PROVE  RemovalInv'
  <2>1. /\ op.kind # "remove" /\ token[t] = Nil /\ live' = live \cup {t}
        /\ UNCHANGED <<send, executed>>
    BY <1>1 DEF AspectAdd, NoOp
  <2>2. /\ token[t] \notin Registration
        /\ \A u \in Tokens : token[u] \in Registration => token'[u] = token[u]
    BY <1>1, <2>1, NilAssumption DEF AspectAdd, Typing, TypeOK
  <2>3. /\ \A u \in executed : u \in Tokens /\ u # t /\ token[u] \in Registration
        /\ \A y \in Senders : \A u \in send[y].called : u \in Tokens /\ u # t /\ token[u] \in Registration
    BY <2>2, Zenon DEF RemovalInv, Typing, TypeOK
  <2>4. \A y \in Senders : send[y].called \cap live' = send[y].called \cap live /\ Pending(y) \subseteq Pending(y)'
    BY <2>1, <2>3 DEF Pending
  <2>5. executed \cap live' = executed \cap live
    BY <2>1, <2>3
  <2> QED
    BY <2>1, <2>2, <2>3, <2>4, <2>5 DEF RemovalInv
<1>2. ASSUME NEW x, NEW s, NEW t \in Tokens, AspectAddFails(t, x, s) PROVE RemovalInv'
  <2>1. UNCHANGED <<send, executed, live, op>> /\ op.kind # "remove"
    BY <1>2 DEF AspectAddFails, NoOp
  <2>2. \A u \in Tokens : token[u] \in Registration => token'[u] = token[u]
    BY <1>2, NilAssumption DEF AspectAddFails, Typing, TypeOK
  <2> QED
    BY <2>1, <2>2, RemovalInvFrame
<1>3. ASSUME NEW t \in Tokens, AspectRemove(t) PROVE RemovalInv'
  <2>1. op.kind # "remove" /\ UNCHANGED <<send, executed, live, token>>
    BY <1>3 DEF AspectRemove, RemoveAspect, NoOp
  <2> QED
    BY <2>1, RemovalInvFrame
<1>4. CASE HookClass
  <2>1. op.kind # "remove" /\ UNCHANGED <<send, executed, live, token>>
    BY <1>4 DEF HookClass
  <2> QED
    BY <2>1, RemovalInvFrame
<1>5. CASE AddAlias \/ ReplaceMethod
  <2>1. op.kind # "remove" /\ UNCHANGED <<send, executed, live, token>>
    BY <1>5 DEF AddAlias, ReplaceMethod
  <2> QED
    BY <2>1, RemovalInvFrame
<1>6. CASE RestoreMethod
  <2>1. /\ op'.kind = op.kind /\ op'.aspect = op.aspect /\ op'.by = op.by
        /\ UNCHANGED <<send, executed, live, token>>
    BY <1>6 DEF RestoreMethod, Typing, OpTyped
  <2> QED
    BY <2>1, RemovalInvFrame
<1>7. CASE CleanUp
  <2>1. live' = live \ {op.aspect} /\ UNCHANGED <<send, executed, token>>
    BY <1>7 DEF CleanUp
  <2> QED
    BY <2>1, RemovalInvFrame
<1>8. ASSUME NEW x \in Senders, NEW o \in Objects, NEW s \in Selectors, Send(x, o, s)
      PROVE  RemovalInv'
  <2> DEFINE record == [NoSend EXCEPT !.at = "forward", !.object = o, !.selector = s]
  <2>1. send' = [send EXCEPT ![x] = record] /\ UNCHANGED <<live, op, executed, token>>
    BY <1>8 DEF Send
  <2>2. record.called = {}
    BY DEF NoSend
  <2> HIDE DEF record
  <2>3. record.called \subseteq send[x].called
    BY <2>2
  <2> QED
    BY <2>1, <2>2, <2>3, RemovalInvKeep, ZenonT(30)
<1>9. ASSUME NEW o \in Objects, Dealloc(o) PROVE RemovalInv'
  <2>1. live' \subseteq live /\ UNCHANGED <<send, executed, op, token>>
    BY <1>9 DEF Dealloc
  <2> QED
    BY <2>1, RemovalInvFrame
<1>10. CASE UNCHANGED vars
  BY <1>10, RemovalInvFrame DEF vars
<1> QED
  BY <1>1, <1>2, <1>3, <1>4, <1>5, <1>6, <1>7, <1>8, <1>9, <1>10, RemovalInvSending, Zenon
     DEF Next, LockHolder

\* An AutomaticRemoval aspect is gone as soon as one of the sends that called it
\* returns, for any number of concurrent sends and aspects of any position.
THEOREM AlwaysAutomaticallyRemoved == Spec => []AutomaticallyRemoved
<1>1. Init => Typing /\ RemovalInv
  <2>1. Init => RemovalInv
    BY DEF Init, RemovalInv, NoSend
  <2> QED
    BY <2>1, TypingInit
<1>2. Typing /\ RemovalInv /\ [Next]_vars => (Typing /\ RemovalInv)'
  BY TypingNext, RemovalInvNext
<1>3. RemovalInv => AutomaticallyRemoved
  BY DEF RemovalInv, AutomaticallyRemoved
<1> QED
  BY <1>1, <1>2, <1>3, PTL DEF Spec
=============================================================================
