-------------------------- MODULE AspectsRemovalProofs -------------------------
(***************************************************************************)
(* Proofs about Aspects, for any classes, objects, aspects and senders:    *)
(* once all aspects are removed, objects and classes are as before, but    *)
(* for methods that are overridden.                                        *)
(***************************************************************************)
EXTENDS AspectsProofs

\* A leaf that names no prover is tried with SMT, with Zenon, and at length with
\* SMT again.
USE SMT, Zenon, SMTT(30)

USE DEF runtime, registry, tracking

\* An object went away with an aspect.
Dead == \E t \in Tokens : token[t] \in Registration /\ ~Alive(token[t].subject)

\* The aspect t makes the class c be changed in place.
InPlace(t, c) ==
  /\ ClassOfSubject(token[t].subject) = c
  /\ token[t].subject \in BaseClasses \/ MadeByKVO(c)

\* A container holds the aspects of its subject and selector that are not removed,
\* and is there until the last of them is.
ContentsInv ==
  /\ \A u, v \in Subjects \X Selectors : container[u] = container[v] /\ container[u] # 0 => u = v
  /\ \A u \in Subjects \X Selectors : container[u] # 0 =>
       \A t \in contents[container[u]] :
         /\ t \in live /\ <<token[t].subject, token[t].selector>> = u
         /\ op.kind = "remove" => t # op.aspect
  /\ \A t \in live :
       LET i == container[<<token[t].subject, token[t].selector>>] IN
       i # 0 /\ (t \in contents[i] \/ (op.kind = "remove" /\ t = op.aspect))
  /\ op.kind = "remove" => op.aspect \in live

\* An implementation and an alias are the program's own or were replaced.
MethodsInv ==
  /\ \A c \in Classes, s \in Selectors :
       /\ imp[c][s] \notin {Nil, Forward} => Base(imp[c][s]) \in Definers(c[1], s)
       /\ alias[c][s] # Nil => Base(alias[c][s]) \in Definers(c[1], s)
  /\ \A n \in Names, s \in Selectors : <<n, s>> \in defined => imp[Base(n)][s] # Nil

\* An object whose class is a subclass made by Aspects has an aspect.
IsaInv ==
  \A o \in Objects : isa[o] # Nil =>
    isa[o][1] = ClassOf[o] /\ (Suffixed(isa[o]) => \E t \in live : token[t].subject = o)

\* A class changed in place is listed, and is changed on account of an aspect that
\* is not removed, or that went away with its object.
ForwarderInv == \A c \in BaseClasses : forwarder[c] = "aspects" => c \in swizzledClasses
SwizzledInv == \A c \in swizzledClasses : Dead \/ \E t \in live : InPlace(t, c)

\* So is each of its methods, the aspect for which it was put back excepted.
ImpInv ==
  \A c \in BaseClasses, s \in Selectors : imp[c][s] = Forward =>
    Dead \/ \E t \in live : /\ InPlace(t, c) /\ token[t].selector = s
                            /\ ~(op.at = "cleanUp" /\ op.aspect = t)

\* An aspect that is being added will account for what it changes.
AddInv ==
  op.kind = "add" =>
    /\ op.aspect \in live
    /\ op.at \in {"alias", "replace"} =>
         Suffixed(OpClass) \/ OpSubject \in BaseClasses \/ MadeByKVO(OpClass)

ChangesInv == IsaInv /\ ForwarderInv /\ SwizzledInv /\ ImpInv /\ AddInv

RestoringInv == ContentsInv /\ MethodsInv /\ ChangesInv

LEMMA ContentsInvInit == Init => ContentsInv
BY DEF Init, ContentsInv, NoOp

LEMMA ContentsInvFrame ==
  ASSUME ContentsInv, UNCHANGED <<token, live, container, contents>>,
         op.kind = "remove" \/ op'.kind = "remove" => op'.kind = op.kind /\ op'.aspect = op.aspect
  PROVE  ContentsInv'
BY DEF ContentsInv

LEMMA ContentsInvAdd ==
  ASSUME Typing, ContentsInv, NEW t \in Tokens, NEW x \in Subjects, NEW s \in Selectors,
         \/ \E option \in Options : AspectAdd(t, x, s, option)
         \/ AspectAddFails(t, x, s)
  PROVE  ContentsInv'
<1> DEFINE y == <<x, s>>
           n == Len(contents)
<1>1. /\ token[t] = Nil /\ op = NoOp /\ op'.kind # "remove"
      /\ \A u \in Tokens \ {t} : token'[u] = token[u]
  BY DEF AspectAdd, AspectAddFails, Typing, TypeOK, NoOp
<1>2. PICK aspects \in SUBSET {t} :
        /\ PutInContainer(x, s, aspects) /\ live' = live \cup aspects
        /\ t \in aspects => token'[t].subject = x /\ token'[t].selector = s
  <2>1. ASSUME NEW option \in Options, AspectAdd(t, x, s, option)
        PROVE  /\ PutInContainer(x, s, {t}) /\ live' = live \cup {t}
               /\ token'[t].subject = x /\ token'[t].selector = s
    BY <2>1 DEF AspectAdd, Typing, TypeOK
  <2>2. ASSUME AspectAddFails(t, x, s)
        PROVE  PutInContainer(x, s, {}) /\ live' = live
    BY <2>2 DEF AspectAddFails
  <2> QED
    BY <2>1, <2>2
<1>3. /\ contents \in Seq(SUBSET Tokens) /\ n \in Nat /\ y \in Subjects \X Selectors
      /\ container \in [Subjects \X Selectors -> 0..n]
  BY DEF Typing, TypeOK
<1>4. /\ \A u \in live : u \in Tokens \ {t} /\ token[u].subject \in Subjects /\ token[u].selector \in Selectors
      /\ \A i \in 1..n : \A u \in contents[i] : u \in Tokens \ {t}
  BY <1>1, <1>3, NilAssumption DEF Typing, TypeOK, Registered, Registration
<1>5. PICK i \in Nat \ {0} :
        /\ i = container[y] \/ (container[y] = 0 /\ i = n + 1)
        /\ container' = [container EXCEPT ![y] = i]
        /\ \A j \in 1..n : j # i => contents'[j] = contents[j]
        /\ contents'[i] = aspects \cup (IF i = n + 1 THEN {} ELSE contents[i])
  <2> DEFINE Put(i) ==
        /\ i = container[y] \/ (container[y] = 0 /\ i = n + 1)
        /\ container' = [container EXCEPT ![y] = i]
        /\ \A j \in 1..n : j # i => contents'[j] = contents[j]
        /\ contents'[i] = aspects \cup (IF i = n + 1 THEN {} ELSE contents[i])
  <2>1. CASE container[y] = 0
    <3>1. container' = [container EXCEPT ![y] = n + 1] /\ contents' = Append(contents, aspects)
      BY <1>2, <2>1 DEF PutInContainer
    <3>2. contents'[n + 1] = aspects /\ \A j \in 1..n : contents'[j] = contents[j]
      BY <1>3, <3>1
    <3>3. n + 1 \in Nat \ {0}
      BY <1>3
    <3>4. Put(n + 1)
      BY <2>1, <3>1, <3>2
    <3> HIDE DEF Put
    <3>5. \E i \in Nat \ {0} : Put(i)
      BY <3>3, <3>4
    <3> QED
      BY <3>5, Zenon DEF Put
  <2>2. CASE container[y] # 0
    <3>1. container' = container /\ contents' = [contents EXCEPT ![container[y]] = @ \cup aspects]
      BY <1>2, <2>2 DEF PutInContainer
    <3>2. container[y] \in 1..n /\ container[y] # n + 1 /\ container' = [container EXCEPT ![y] = container[y]]
      BY <1>3, <2>2, <3>1
    <3>3. /\ contents'[container[y]] = contents[container[y]] \cup aspects
          /\ \A j \in 1..n : j # container[y] => contents'[j] = contents[j]
      BY <1>3, <3>1, <3>2
    <3>4. container[y] \in Nat \ {0}
      BY <1>3, <3>2
    <3>5. Put(container[y])
      BY <3>2, <3>3
    <3> HIDE DEF Put
    <3>6. \E i \in Nat \ {0} : Put(i)
      BY <3>4, <3>5
    <3> QED
      BY <3>6, Zenon DEF Put
  <2> QED
    BY <2>1, <2>2, Zenon
<1> HIDE DEF n, y
<1>6. container'[y] = i /\ \A u \in Subjects \X Selectors : u # y => container'[u] = container[u] /\ container'[u] # i
  <2>1. container'[y] = i /\ \A u \in Subjects \X Selectors : u # y => container'[u] = container[u]
    BY <1>3, <1>5
  <2>2. \A u \in Subjects \X Selectors : u # y => container[u] # i
    BY <1>3, <1>5 DEF ContentsInv
  <2> QED
    BY <2>1, <2>2
<1>7. \A u, v \in Subjects \X Selectors : container'[u] = container'[v] /\ container'[u] # 0 => u = v
  BY <1>6 DEF ContentsInv
<1>8. ASSUME NEW u \in Subjects \X Selectors, container'[u] # 0, NEW v \in contents'[container'[u]]
      PROVE  v \in live' /\ <<token'[v].subject, token'[v].selector>> = u
  <2>1. CASE u = y /\ v \in aspects
    BY <1>2, <2>1 DEF y
  <2>2. CASE u = y /\ v \notin aspects
    <3>1. i = container[y] /\ v \in contents[i] /\ i \in 1..n
      BY <1>3, <1>5, <1>6, <1>8, <2>2
    <3>2. v \in live /\ <<token[v].subject, token[v].selector>> = u /\ token'[v] = token[v]
      BY <1>1, <1>3, <1>4, <2>2, <3>1 DEF ContentsInv
    <3> QED
      BY <1>2, <3>2
  <2>3. CASE u # y
    <3>1. container[u] \in 1..n /\ container[u] # 0 /\ v \in contents[container[u]]
      BY <1>3, <1>5, <1>6, <1>8, <2>3
    <3>2. v \in live /\ <<token[v].subject, token[v].selector>> = u /\ token'[v] = token[v]
      BY <1>1, <1>3, <1>4, <3>1 DEF ContentsInv
    <3> QED
      BY <1>2, <3>2
  <2> QED
    BY <2>1, <2>2, <2>3
<1>9. ASSUME NEW v \in live'
      PROVE  /\ container'[<<token'[v].subject, token'[v].selector>>] # 0
             /\ v \in contents'[container'[<<token'[v].subject, token'[v].selector>>]]
  <2>1. CASE v \in aspects
    BY <1>2, <1>5, <1>6, <2>1 DEF y
  <2>2. CASE v \notin aspects
    <3> DEFINE z == <<token[v].subject, token[v].selector>>
    <3>1. v \in live /\ token'[v] = token[v] /\ z \in Subjects \X Selectors
      BY <1>1, <1>2, <1>4, <2>2
    <3>2. container[z] # 0 /\ v \in contents[container[z]]
      BY <1>1, <3>1 DEF ContentsInv, NoOp
    <3> HIDE DEF z
    <3>3. container[z] \in 1..n
      BY <1>3, <3>1, <3>2
    <3>4. CASE z = y
      <4>1. i = container[z] /\ i # n + 1
        BY <1>3, <1>5, <3>2, <3>3, <3>4
      <4>2. v \in contents'[i] /\ container'[z] = i
        BY <1>5, <1>6, <3>2, <3>4, <4>1
      <4> QED
        BY <3>1, <4>2 DEF z
    <3>5. CASE z # y
      BY <1>3, <1>5, <1>6, <3>1, <3>2, <3>3, <3>5 DEF z
    <3> QED
      BY <3>4, <3>5
  <2> QED
    BY <2>1, <2>2
<1> QED
  BY <1>1, <1>7, <1>8, <1>9 DEF ContentsInv

\* aspect_remove takes the aspect out of its container.
LEMMA ContentsInvRemove ==
  ASSUME Typing, ContentsInv, NEW t \in Tokens, NEW by, RemoveAspect(t, by)
  PROVE  ContentsInv'
<1> DEFINE y == <<token[t].subject, token[t].selector>>
<1>1. /\ op = NoOp /\ t \in live /\ UNCHANGED <<token, live, container>>
      /\ contents' = [contents EXCEPT ![container[y]] = @ \ {t}]
      /\ op'.kind = "remove" /\ op'.aspect = t
  BY DEF RemoveAspect
<1>2. y \in Subjects \X Selectors
  BY <1>1 DEF Typing, Registered, Registration
<1>3. op.kind # "remove"
  BY <1>1 DEF NoOp
<1>4. container[y] # 0 /\ \A u \in Subjects \X Selectors : container[u] # 0 => container[u] \in DOMAIN contents
  <2>1. /\ contents \in Seq(SUBSET Tokens) /\ Len(contents) \in Nat
        /\ \A u \in Subjects \X Selectors : container[u] \in 0..Len(contents)
    BY DEF Typing, TypeOK
  <2>2. DOMAIN contents = 1..Len(contents)
    BY <2>1
  <2>3. \A u \in Subjects \X Selectors : container[u] # 0 => container[u] \in DOMAIN contents
    BY <2>1, <2>2
  <2> QED
    BY <1>1, <2>3 DEF ContentsInv
<1>5. \A u \in Subjects \X Selectors : container[u] # 0 =>
        /\ u = y => contents'[container[u]] = contents[container[u]] \ {t}
        /\ u # y => contents'[container[u]] = contents[container[u]] /\ t \notin contents[container[u]]
  <2> SUFFICES ASSUME NEW u \in Subjects \X Selectors, container[u] # 0
               PROVE  /\ u = y => contents'[container[u]] = contents[container[u]] \ {t}
                      /\ u # y => /\ contents'[container[u]] = contents[container[u]]
                                  /\ t \notin contents[container[u]]
    OBVIOUS
  <2>1. container[u] \in DOMAIN contents /\ (u # y => container[u] # container[y])
    BY <1>2, <1>4 DEF ContentsInv
  <2>2. t \in contents[container[u]] => u = y
    BY DEF ContentsInv
  <2> HIDE DEF y
  <2> QED
    BY <1>1, <2>1, <2>2
<1>6. \A u \in Subjects \X Selectors : container[u] # 0 =>
        contents'[container[u]] = contents[container[u]] \ {t}
  BY <1>5
<1>7. \A u \in live :
        LET i == container[<<token[u].subject, token[u].selector>>] IN
        i # 0 /\ (u \in contents'[i] \/ u = t)
  <2> SUFFICES ASSUME NEW u \in live
               PROVE  LET i == container[<<token[u].subject, token[u].selector>>] IN
                      i # 0 /\ (u \in contents'[i] \/ u = t)
    OBVIOUS
  <2> DEFINE z == <<token[u].subject, token[u].selector>>
  <2>1. z \in Subjects \X Selectors
    BY DEF Typing, Registered, Registration
  <2>2. container[z] # 0 /\ u \in contents[container[z]]
    BY <1>3 DEF ContentsInv
  <2> QED
    BY <1>6, <2>1, <2>2
<1> HIDE DEF y
<1> QED
  BY <1>1, <1>6, <1>7 DEF ContentsInv

\* The last aspect takes its container with it.
LEMMA ContentsInvCleanUp == ASSUME Typing, ContentsInv, CleanUp PROVE ContentsInv'
<1> DEFINE y == <<OpSubject, OpSelector>>
<1>1. /\ op.kind = "remove" /\ op # NoOp /\ op'.kind = "none" /\ live' = live \ {op.aspect}
      /\ UNCHANGED <<token, contents>>
  BY DEF CleanUp, NoOp
<1>2. y \in Subjects \X Selectors /\ container \in [Subjects \X Selectors -> 0..Len(contents)]
  BY <1>1, OpTypes DEF Typing, TypeOK
<1>3. ASSUME container' = container \/ (container' = [container EXCEPT ![y] = 0] /\ contents[container[y]] = {})
      PROVE  ContentsInv'
  <2>1. \A u \in Subjects \X Selectors : container'[u] = container[u] \/ container'[u] = 0
    BY <1>2, <1>3
  <2>2. \A u \in Subjects \X Selectors : container[u] # 0 /\ contents[container[u]] # {} => container'[u] = container[u]
    BY <1>2, <1>3
  <2> HIDE DEF y
  <2>3. \A u, v \in Subjects \X Selectors : container'[u] = container'[v] /\ container'[u] # 0 => u = v
    BY <2>1 DEF ContentsInv
  <2>4. \A u \in Subjects \X Selectors : container'[u] # 0 =>
          \A t \in contents'[container'[u]] :
            t \in live' /\ <<token'[t].subject, token'[t].selector>> = u
    BY <1>1, <2>1 DEF ContentsInv
  <2>5. ASSUME NEW t \in live'
        PROVE  LET i == container'[<<token'[t].subject, token'[t].selector>>] IN i # 0 /\ t \in contents'[i]
    <3> DEFINE z == <<token[t].subject, token[t].selector>>
    <3>1. t \in live /\ t # op.aspect /\ token'[t] = token[t]
      BY <1>1
    <3>2. z \in Subjects \X Selectors
      BY <3>1 DEF Typing, Registered, Registration
    <3>3. container[z] # 0 /\ t \in contents[container[z]]
      BY <3>1 DEF ContentsInv
    <3>4. container'[z] = container[z]
      BY <2>2, <3>2, <3>3
    <3> QED
      BY <1>1, <3>1, <3>3, <3>4
  <2> QED
    BY <1>1, <2>3, <2>4, <2>5 DEF ContentsInv
<1> QED
  BY <1>3 DEF CleanUp, OpContainer

LEMMA ContentsInvDealloc ==
  ASSUME Typing, ContentsInv, NEW o \in Objects, Dealloc(o)
  PROVE  ContentsInv'
<1>1. /\ UNCHANGED <<token, contents, op>> /\ (op # NoOp => OpSubject # o)
      /\ live' = {t \in live : token[t].subject # o}
      /\ \A y \in Subjects \X Selectors : container'[y] = IF y[1] = o THEN 0 ELSE container[y]
  BY DEF Dealloc
<1>2. op.kind = "remove" => op.aspect \in live'
  BY <1>1 DEF ContentsInv, OpSubject, NoOp
<1>3. \A t \in live : <<token[t].subject, token[t].selector>> \in Subjects \X Selectors
  BY DEF Typing, Registered, Registration
<1>4. \A t \in live' :
        LET z == <<token[t].subject, token[t].selector>> IN
        container'[z] # 0 /\ (t \in contents'[container'[z]] \/ (op'.kind = "remove" /\ t = op'.aspect))
  BY <1>1, <1>3 DEF ContentsInv
<1>5. \A u, v \in Subjects \X Selectors : container'[u] = container'[v] /\ container'[u] # 0 => u = v
  BY <1>1 DEF ContentsInv
<1>6. \A u \in Subjects \X Selectors : container'[u] # 0 =>
        \A t \in contents'[container'[u]] :
          /\ t \in live' /\ <<token'[t].subject, token'[t].selector>> = u
          /\ op'.kind = "remove" => t # op'.aspect
  <2> SUFFICES ASSUME NEW u \in Subjects \X Selectors, container'[u] # 0, NEW t \in contents'[container'[u]]
               PROVE  /\ t \in live' /\ <<token'[t].subject, token'[t].selector>> = u
                      /\ op'.kind = "remove" => t # op'.aspect
    OBVIOUS
  <2>1. u[1] # o /\ container'[u] = container[u]
    BY <1>1
  <2>2. /\ t \in live /\ <<token[t].subject, token[t].selector>> = u
        /\ op.kind = "remove" => t # op.aspect
    BY <1>1, <2>1 DEF ContentsInv
  <2> QED
    BY <1>1, <2>1, <2>2
<1> QED
  BY <1>1, <1>2, <1>4, <1>5, <1>6 DEF ContentsInv

LEMMA ContentsInvNext == ASSUME Typing, ContentsInv, [Next]_vars PROVE ContentsInv'
<1>1. ASSUME NEW x \in Hookable, NEW s \in Selectors, NEW t \in Tokens,
             \/ \E option \in Options : AspectAdd(t, x, s, option)
             \/ AspectAddFails(t, x, s)
      PROVE  ContentsInv'
  <2>1. x \in Subjects
    BY DEF Hookable, Subjects
  <2> QED
    BY <1>1, <2>1, ContentsInvAdd
<1>2. ASSUME NEW t \in Tokens, AspectRemove(t) PROVE ContentsInv'
  BY <1>2, ContentsInvRemove DEF AspectRemove
<1>3. CASE HookClass
  <2>1. UNCHANGED <<token, live, container, contents>> /\ op.kind # "remove" /\ op'.kind # "remove"
    BY <1>3 DEF HookClass, Typing, OpTyped
  <2> QED
    BY <2>1, ContentsInvFrame
<1>4. CASE AddAlias \/ ReplaceMethod
  <2>1. UNCHANGED <<token, live, container, contents>> /\ op.kind # "remove" /\ op'.kind # "remove"
    BY <1>4 DEF AddAlias, ReplaceMethod, Typing, OpTyped, NoOp
  <2> QED
    BY <2>1, ContentsInvFrame
<1>5. CASE RestoreMethod
  <2>1. UNCHANGED <<token, live, container, contents>> /\ op'.kind = op.kind /\ op'.aspect = op.aspect
    BY <1>5 DEF RestoreMethod, Typing, OpTyped
  <2> QED
    BY <2>1, ContentsInvFrame
<1>6. ASSUME NEW x \in Senders, Sending(x) \/ \E o \in Objects, s \in Selectors : Send(x, o, s)
      PROVE  ContentsInv'
  <2>1. \/ UNCHANGED <<token, live, container, contents, op>>
        \/ \E t \in send[x].remove : RemoveAspect(t, x)
    BY <1>6, SendingFrame
  <2>2. send[x].remove \subseteq Tokens
    BY DEF Typing, TypeOK
  <2> QED
    BY <2>1, <2>2, ContentsInvFrame, ContentsInvRemove
<1>7. CASE UNCHANGED vars
  BY <1>7, ContentsInvFrame DEF vars
<1> QED
  BY <1>1, <1>2, <1>3, <1>4, <1>5, <1>6, <1>7, ContentsInvCleanUp, ContentsInvDealloc, Zenon DEF Next, LockHolder

-----------------------------------------------------------------------------
LEMMA DefinersUp ==
  ASSUME NEW c \in Classes, NEW d \in Up(c), NEW s
  PROVE  Definers(d[1], s) \subseteq Definers(c[1], s)
<1>1. c[1] \in Names /\ d[1] \in Above[c[1]]
  BY UpOrder
<1>2. Above[d[1]] \subseteq Above[c[1]]
  BY <1>1, AspectsAssumption
<1> QED
  BY <1>2 DEF Definers

LEMMA MethodsInvInit == Init => MethodsInv
<1> SUFFICES ASSUME Init PROVE MethodsInv
  OBVIOUS
<1>1. \A c \in Classes, s \in Selectors :
        /\ alias[c][s] = Nil
        /\ imp[c][s] = IF ~Suffixed(c) /\ <<c[1], s>> \in defined THEN c[1] ELSE Nil
  BY DEF Init
<1>2. ASSUME NEW c \in Classes, NEW s \in Selectors, <<c[1], s>> \in defined
      PROVE  Base(c[1]) \in Definers(c[1], s)
  <2>1. c[1] \in Above[c[1]]
    BY ClassKinds, AspectsAssumption
  <2> QED
    BY <1>2, <2>1 DEF Definers
<1>3. ASSUME NEW n \in Names, NEW s \in Selectors, <<n, s>> \in defined
      PROVE  imp[Base(n)][s] # Nil
  BY <1>1, <1>3, BaseClass, NilAssumption
<1> QED
  BY <1>1, <1>2, <1>3, Zenon DEF MethodsInv

LEMMA MethodsInvFrame == ASSUME MethodsInv, UNCHANGED <<defined, imp, alias>> PROVE MethodsInv'
BY DEF MethodsInv, Definers

\* What the tables hold is restored or kept by aspect_add and aspect_remove.
LEMMA MethodsInvAddAlias == ASSUME Typing, AliasInv, MethodsInv, AddAlias PROVE MethodsInv'
<1> DEFINE m == Lookup(imp, OpClass, OpSelector)
<1>1. op # NoOp /\ op.kind = "add" /\ UNCHANGED <<defined, imp>>
  BY DEF AddAlias, NoOp
<1>2. OpClass \in Classes /\ OpSelector \in Selectors
  BY <1>1, OpTypes
<1>3. CASE alias' = alias
  BY <1>1, <1>3, MethodsInvFrame
<1>4. CASE m # Forward /\ alias' = [alias EXCEPT ![OpClass][OpSelector] = m]
  <2>1. PICK d \in Up(OpClass) : imp[d][OpSelector] # Nil /\ m = imp[d][OpSelector]
    BY <1>1, <1>2, LookupFinds DEF AliasInv, Reaches
  <2>2. d \in Classes
    BY <1>2, UpClasses
  <2>3. Base(m) \in Definers(d[1], OpSelector)
    BY <1>2, <1>4, <2>1, <2>2 DEF MethodsInv
  <2>4. Base(m) \in Definers(OpClass[1], OpSelector)
    BY <1>2, <2>3, DefinersUp
  <2> HIDE DEF m
  <2>5. \A c \in Classes, s \in Selectors :
          alias'[c][s] = IF c = OpClass /\ s = OpSelector THEN m ELSE alias[c][s]
    BY <1>2, <1>4 DEF Typing, TypeOK
  <2>6. \A c \in Classes, s \in Selectors : alias'[c][s] # Nil => Base(alias'[c][s]) \in Definers(c[1], s)
    BY <2>4, <2>5 DEF MethodsInv
  <2>7. \A n, s : Definers(n, s)' = Definers(n, s)
    BY <1>1 DEF Definers
  <2> QED
    BY <1>1, <2>6, <2>7 DEF MethodsInv
<1> QED
  BY <1>3, <1>4 DEF AddAlias

LEMMA MethodsInvReplace == ASSUME Typing, MethodsInv, ReplaceMethod PROVE MethodsInv'
<1>1. op # NoOp /\ UNCHANGED <<defined, alias>> /\ imp' = [imp EXCEPT ![OpClass][OpSelector] = Forward]
  BY DEF ReplaceMethod, NoOp
<1>2. OpClass \in Classes /\ OpSelector \in Selectors
  BY <1>1, OpTypes
<1>3. \A c \in Classes, s \in Selectors :
        imp'[c][s] = IF c = OpClass /\ s = OpSelector THEN Forward ELSE imp[c][s]
  BY <1>1, <1>2 DEF Typing, TypeOK
<1>4. \A n, s : Definers(n, s)' = Definers(n, s)
  BY <1>1 DEF Definers
<1>5. \A n \in Names, s \in Selectors : <<n, s>> \in defined' => imp'[Base(n)][s] # Nil
  BY <1>1, <1>3, BaseClass, NilAssumption DEF MethodsInv
<1> QED
  BY <1>1, <1>3, <1>4, <1>5 DEF MethodsInv

\* The implementation put back: not _objc_msgForward, and one of the class.
LEMMA RestoredMethod ==
  ASSUME Typing, AliasInv, MethodsInv, NEW c \in Classes, NEW s \in Selectors, Lookup(imp, c, s) = Forward
  PROVE  /\ Lookup(alias, c, s) \notin {Nil, Forward}
         /\ Base(Lookup(alias, c, s)) \in Definers(c[1], s)
<1>1. PICK d \in Up(c) : imp[d][s] = Forward
  BY LookupFinds, NilAssumption
<1>2. d \in Classes /\ Up(d) \subseteq Up(c)
  BY UpClasses, UpOrder
<1>3. Reaches(alias, c, s)
  BY <1>1, <1>2 DEF AliasInv, Reaches
<1>4. PICK e \in Up(c) : alias[e][s] # Nil /\ Lookup(alias, c, s) = alias[e][s]
  BY <1>3, LookupFinds DEF Reaches
<1>5. e \in Classes
  BY UpClasses
<1>6. Base(alias[e][s]) \in Definers(e[1], s) /\ alias[e][s] # Forward
  BY <1>4, <1>5 DEF MethodsInv, AliasInv
<1> QED
  BY <1>4, <1>6, DefinersUp

LEMMA MethodsInvRestore == ASSUME Typing, AliasInv, MethodsInv, RestoreMethod PROVE MethodsInv'
<1> DEFINE m == Lookup(alias, OpClass, OpSelector)
<1>1. op # NoOp /\ UNCHANGED <<defined, alias>>
  BY DEF RestoreMethod, NoOp
<1>2. OpClass \in Classes /\ OpSelector \in Selectors
  BY <1>1, OpTypes
<1>3. CASE imp' = imp
  BY <1>1, <1>3, MethodsInvFrame
<1>4. CASE /\ Lookup(imp, OpClass, OpSelector) = Forward
           /\ imp' = [imp EXCEPT ![OpClass][OpSelector] = m]
  <2>1. m \notin {Nil, Forward} /\ Base(m) \in Definers(OpClass[1], OpSelector)
    BY <1>2, <1>4, RestoredMethod
  <2> HIDE DEF m
  <2>2. \A c \in Classes, s \in Selectors :
          imp'[c][s] = IF c = OpClass /\ s = OpSelector THEN m ELSE imp[c][s]
    BY <1>2, <1>4 DEF Typing, TypeOK
  <2>3. \A n, s : Definers(n, s)' = Definers(n, s)
    BY <1>1 DEF Definers
  <2>4. \A n \in Names, s \in Selectors : <<n, s>> \in defined' => imp'[Base(n)][s] # Nil
    BY <1>1, <2>1, <2>2, BaseClass DEF MethodsInv
  <2>5. \A c \in Classes, s \in Selectors :
          imp'[c][s] \notin {Nil, Forward} => Base(imp'[c][s]) \in Definers(c[1], s)
    BY <2>1, <2>2 DEF MethodsInv
  <2> QED
    BY <1>1, <2>3, <2>4, <2>5 DEF MethodsInv
<1> QED
  BY <1>3, <1>4 DEF RestoreMethod

LEMMA MethodsInvNext == ASSUME Typing, AliasInv, MethodsInv, [Next]_vars PROVE MethodsInv'
<1>1. ASSUME NEW x, NEW s, NEW t, NEW option, AspectAdd(t, x, s, option) PROVE MethodsInv'
  BY <1>1, MethodsInvFrame DEF AspectAdd
<1>2. ASSUME NEW x, NEW s, NEW t, AspectAddFails(t, x, s) PROVE MethodsInv'
  BY <1>2, MethodsInvFrame DEF AspectAddFails
<1>3. ASSUME NEW t, AspectRemove(t) PROVE MethodsInv'
  BY <1>3, MethodsInvFrame DEF AspectRemove, RemoveAspect
<1>4. CASE HookClass
  BY <1>4, MethodsInvFrame DEF HookClass
<1>5. CASE CleanUp
  BY <1>5, MethodsInvFrame DEF CleanUp
<1>6. ASSUME NEW x \in Senders, Sending(x) \/ \E o \in Objects, s \in Selectors : Send(x, o, s)
      PROVE  MethodsInv'
  BY <1>6, SendingFrame, MethodsInvFrame
<1>7. ASSUME NEW o, Dealloc(o) PROVE MethodsInv'
  BY <1>7, MethodsInvFrame DEF Dealloc
<1>8. CASE UNCHANGED vars
  BY <1>8, MethodsInvFrame DEF vars
<1> QED
  BY <1>1, <1>2, <1>3, <1>4, <1>5, <1>6, <1>7, <1>8, MethodsInvAddAlias, MethodsInvReplace,
     MethodsInvRestore, Zenon DEF Next, LockHolder

-----------------------------------------------------------------------------
LEMMA ChangesInvInit == Init => ChangesInv
<1> SUFFICES ASSUME Init PROVE ChangesInv
  OBVIOUS
<1>1. /\ swizzledClasses = {} /\ op.kind = "none"
      /\ \A c \in Classes : forwarder[c] = "none"
      /\ \A o \in Objects : isa[o] = Base(ClassOf[o])
  BY DEF Init, NoOp
<1>2. \A o \in Objects : isa[o][1] = ClassOf[o] /\ ~Suffixed(isa[o])
  BY <1>1, BaseClass, AspectsAssumption
<1>3. \A c \in Classes, s \in Selectors : imp[c][s] # Forward
  BY NilAssumption, ClassKinds, Zenon DEF Init
<1>4. ImpInv
  BY <1>3, UpBase DEF ImpInv
<1>5. ForwarderInv
  BY <1>1, UpBase DEF ForwarderInv
<1> QED
  BY <1>1, <1>2, <1>4, <1>5 DEF ChangesInv, IsaInv, SwizzledInv, AddInv

\* Steps that keep the classes, the methods and the aspects that are live.
LEMMA ChangesInvFrame ==
  ASSUME Typing, ChangesInv, UNCHANGED <<isa, forwarder, swizzledClasses>>,
         \A c \in BaseClasses, s \in Selectors : imp'[c][s] = Forward => imp[c][s] = Forward,
         \A t \in Tokens : token[t] \in Registration => token'[t] = token[t],
         live \subseteq live',
         op'.at = "cleanUp" => op.at = "cleanUp" /\ op'.aspect = op.aspect,
         op'.kind = "add" =>
           /\ op'.aspect \in live'
           /\ op'.at \in {"alias", "replace"} =>
                op.kind = "add" /\ op.at \in {"alias", "replace"} /\ op'.aspect = op.aspect
  PROVE  ChangesInv'
<1>1. live \subseteq Tokens /\ \A t \in live : t \in live' /\ token'[t] = token[t]
  BY DEF Typing, TypeOK, Registered
<1>2. Dead => Dead'
  BY DEF Dead, Alive
<1>3. \A t \in live, c \in BaseClasses : InPlace(t, c) => InPlace(t, c)'
  BY <1>1 DEF InPlace, ClassOfSubject
<1>4. IsaInv' /\ ForwarderInv'
  BY <1>1 DEF ChangesInv, IsaInv, ForwarderInv
<1>5. SwizzledInv'
  <2>1. swizzledClasses \subseteq BaseClasses
    BY DEF Typing, TypeOK
  <2> QED
    BY <1>1, <1>2, <1>3, <2>1 DEF ChangesInv, SwizzledInv
<1>6. ImpInv'
  <2> SUFFICES ASSUME NEW c \in BaseClasses, NEW s \in Selectors, imp'[c][s] = Forward, ~Dead
               PROVE  \E t \in live' : /\ InPlace(t, c)' /\ token'[t].selector = s
                                       /\ ~(op'.at = "cleanUp" /\ op'.aspect = t)
    BY <1>2 DEF ImpInv
  <2>1. PICK t \in live : /\ InPlace(t, c) /\ token[t].selector = s
                          /\ ~(op.at = "cleanUp" /\ op.aspect = t)
    BY DEF ChangesInv, ImpInv
  <2> QED
    BY <1>1, <1>3, <2>1
<1>7. AddInv'
  <2> SUFFICES ASSUME op'.kind = "add", op'.at \in {"alias", "replace"}
               PROVE  Suffixed(OpClass') \/ OpSubject' \in BaseClasses \/ MadeByKVO(OpClass')
    BY DEF AddInv
  <2>1. op.kind = "add" /\ op.at \in {"alias", "replace"} /\ op'.aspect = op.aspect /\ op.aspect \in live
    BY DEF ChangesInv, AddInv
  <2>2. OpSubject' = OpSubject /\ OpClass' = OpClass
    BY <1>1, <2>1 DEF OpSubject, OpClass, ClassOfSubject
  <2> QED
    BY <2>1, <2>2 DEF ChangesInv, AddInv
<1> QED
  BY <1>4, <1>5, <1>6, <1>7 DEF ChangesInv

LEMMA ChangesInvAdd ==
  ASSUME Typing, ChangesInv, NEW t \in Tokens, NEW x \in Subjects, NEW s \in Selectors,
         \/ \E option \in Options : AspectAdd(t, x, s, option)
         \/ AspectAddFails(t, x, s)
  PROVE  ChangesInv'
<1>1. /\ token[t] = Nil /\ UNCHANGED runtime /\ live \subseteq live'
      /\ \A u \in Tokens \ {t} : token'[u] = token[u]
      /\ \/ op'.kind = "add" /\ op'.at = "hookClass" /\ op'.aspect \in live'
         \/ op' = NoOp
  <2>0. token \in [Tokens -> {Nil, Refused} \cup Registration]
    BY Zenon DEF Typing, TypeOK
  <2>1. ASSUME NEW option \in Options, AspectAdd(t, x, s, option)
        PROVE  /\ token[t] = Nil /\ UNCHANGED runtime /\ live' = live \cup {t}
               /\ op' = [kind |-> "add", at |-> "hookClass", aspect |-> t, by |-> Nil]
               /\ \E r : token' = [token EXCEPT ![t] = r]
    BY <2>1, Zenon DEF AspectAdd
  <2>2. ASSUME AspectAddFails(t, x, s)
        PROVE  /\ token[t] = Nil /\ UNCHANGED runtime /\ live' = live /\ op' = NoOp
               /\ \E r : token' = [token EXCEPT ![t] = r]
    BY <2>2, Zenon DEF AspectAddFails
  <2> QED
    BY <2>0, <2>1, <2>2
<1>2. \A u \in Tokens : token[u] \in Registration => token'[u] = token[u]
  BY <1>1, NilAssumption
<1>3. op' = NoOp => op'.kind = "none" /\ op'.at = "none"
  BY DEF NoOp
<1> QED
  BY <1>1, <1>2, <1>3, ChangesInvFrame

\* aspect_hookClass: the change of the class is on account of the new aspect, and
\* no other change was on account of an object whose class is not changed in place.
LEMMA ChangesInvHookClass == ASSUME Typing, ChangesInv, HookClass PROVE ChangesInv'
<1> DEFINE a == op.aspect
<1>1. op # NoOp /\ op.kind = "add" /\ op.at = "hookClass" /\ a \in live
  BY DEF HookClass, NoOp, ChangesInv, AddInv
<1>2. /\ OpSubject \in Subjects /\ OpClass \in Classes /\ a \in Tokens
      /\ (Suffixed(OpClass) => OpSubject \in Objects) /\ (~Suffixed(OpClass) => OpClass \in BaseClasses)
  BY <1>1, OpTypes
<1>3. /\ UNCHANGED <<imp, token, live>>
      /\ op'.kind = "add" /\ op'.at = "alias" /\ op'.aspect = a
  BY <1>1 DEF HookClass, SwizzleClassInPlace, Typing, OpTyped
<1>4. OpSubject' = OpSubject
  BY <1>3 DEF OpSubject
<1>5. live \subseteq Tokens /\ swizzledClasses \subseteq BaseClasses
  BY DEF Typing, TypeOK
<1>6. ASSUME UNCHANGED isa,
             Suffixed(OpClass) \/ OpSubject \in BaseClasses \/ MadeByKVO(OpClass),
             \A c \in BaseClasses : forwarder'[c] = "aspects" => forwarder[c] = "aspects" \/ c \in swizzledClasses',
             swizzledClasses \subseteq swizzledClasses',
             \A c \in swizzledClasses' : c \in swizzledClasses \/ (c \in BaseClasses /\ InPlace(a, c))
      PROVE  ChangesInv'
  <2>1. OpClass' = OpClass
    BY <1>4, <1>6 DEF OpClass, ClassOfSubject
  <2>2. Dead => Dead'
    BY <1>3, <1>6 DEF Dead, Alive
  <2>3. \A t, c : InPlace(t, c) => InPlace(t, c)'
    BY <1>3, <1>6 DEF InPlace, ClassOfSubject
  <2>4. SwizzledInv'
    BY <1>1, <1>3, <1>6, <2>2, <2>3 DEF ChangesInv, SwizzledInv
  <2>5. ImpInv'
    BY <1>3, <2>2, <2>3 DEF ChangesInv, ImpInv
  <2>6. IsaInv'
    BY <1>3, <1>6 DEF ChangesInv, IsaInv
  <2>7. ForwarderInv'
    BY <1>6 DEF ChangesInv, ForwarderInv
  <2>8. AddInv'
    BY <1>1, <1>3, <1>4, <1>6, <2>1 DEF AddInv
  <2> QED
    BY <2>4, <2>5, <2>6, <2>7, <2>8 DEF ChangesInv
<1>7. CASE Suffixed(OpClass) /\ UNCHANGED runtime
  BY <1>6, <1>7
<1>8. CASE /\ ~Suffixed(OpClass) /\ (OpSubject \in BaseClasses \/ MadeByKVO(OpClass))
           /\ SwizzleClassInPlace(OpClass) /\ UNCHANGED <<isa, imp, alias>>
  <2>1. InPlace(a, OpClass) /\ OpClass \in BaseClasses
    BY <1>2, <1>8 DEF InPlace, OpClass, OpSubject
  <2>2. swizzledClasses' = swizzledClasses \cup {OpClass}
    BY <1>8 DEF SwizzleClassInPlace
  <2>3. \A c \in BaseClasses : forwarder'[c] = "aspects" => forwarder[c] = "aspects" \/ c = OpClass
    BY <1>8, UpBase DEF SwizzleClassInPlace, Typing, TypeOK
  <2> QED
    BY <1>6, <1>8, <2>1, <2>2, <2>3
<1>9. CASE /\ ~Suffixed(OpClass) /\ OpSubject \in Objects /\ ~MadeByKVO(OpClass)
           /\ forwarder' = [forwarder EXCEPT ![Subclass(OpClass)] = "aspects"]
           /\ isa' = [isa EXCEPT ![OpSubject] = Subclass(OpClass)]
           /\ UNCHANGED <<imp, alias, swizzledClasses>>
  <2>0. OpClass = isa[OpSubject] /\ OpClass # Nil /\ OpClass[1] = ClassOf[OpSubject] /\ OpSubject \notin BaseClasses
    <3>1. OpClass = isa[OpSubject] /\ OpClass # Nil
      BY <1>2, <1>9, NilAssumption DEF OpClass, ClassOfSubject
    <3>2. OpClass[1] = ClassOf[OpSubject]
      BY <1>9, <3>1 DEF ChangesInv, IsaInv
    <3>3. OpSubject \notin BaseClasses
      BY <1>9, NilAssumption, UpBase
    <3> QED
      BY <3>1, <3>2, <3>3
  <2>1. /\ Subclass(OpClass) \in Classes /\ Subclass(OpClass)[1] = OpClass[1]
        /\ Suffixed(Subclass(OpClass)) /\ Subclass(OpClass) # Nil
    <3>1. /\ Subclass(OpClass) \in Classes /\ Subclass(OpClass)[1] = OpClass[1]
          /\ Suffixed(Subclass(OpClass))
      BY <1>2, ClassKinds, ZenonT(30) DEF Subclass, Classes, Suffixed
    <3> QED
      BY <3>1, NilAssumption
  <2>2. OpClass' = Subclass(OpClass)
    BY <1>4, <1>9 DEF OpClass, ClassOfSubject, Typing, TypeOK
  <2>3. isa'[OpSubject] = Subclass(OpClass) /\ \A o \in Objects \ {OpSubject} : isa'[o] = isa[o]
    BY <1>9 DEF Typing, TypeOK
  <2>4. Dead => Dead'
    BY <1>3, <2>0, <2>3 DEF Dead, Alive
  <2>5. \A t \in live, c \in BaseClasses : InPlace(t, c) => InPlace(t, c)'
    BY <1>3, <1>9, <2>0, <2>3 DEF InPlace, ClassOfSubject
  <2>6. SwizzledInv'
    BY <1>3, <1>5, <1>9, <2>4, <2>5 DEF ChangesInv, SwizzledInv
  <2>7. ImpInv'
    BY <1>3, <2>4, <2>5 DEF ChangesInv, ImpInv
  <2>8. IsaInv'
    <3>1. token'[a].subject = OpSubject /\ a \in live'
      BY <1>1, <1>3 DEF OpSubject
    <3> QED
      BY <1>3, <2>0, <2>1, <2>3, <3>1 DEF ChangesInv, IsaInv
  <2>9. ForwarderInv'
    <3>1. \A c \in BaseClasses : c # Subclass(OpClass) /\ c \in Classes
      BY <2>1, BaseClass DEF BaseClasses
    <3> QED
      BY <1>9, <3>1 DEF ChangesInv, ForwarderInv, Typing, TypeOK
  <2>10. AddInv'
    BY <1>1, <1>3, <2>1, <2>2 DEF AddInv
  <2> QED
    BY <2>6, <2>7, <2>8, <2>9, <2>10 DEF ChangesInv
<1> QED
  BY <1>7, <1>8, <1>9 DEF HookClass

\* aspect_prepareClassAndHookSelector replaces the method for the new aspect.
LEMMA ChangesInvReplace == ASSUME Typing, ChangesInv, ReplaceMethod PROVE ChangesInv'
<1> DEFINE a == op.aspect
<1>1. /\ op # NoOp /\ op.kind = "add" /\ op.at = "replace" /\ a \in live
      /\ Suffixed(OpClass) \/ OpSubject \in BaseClasses \/ MadeByKVO(OpClass)
  BY DEF ReplaceMethod, NoOp, ChangesInv, AddInv
<1>2. OpClass \in Classes /\ OpSelector \in Selectors
  BY <1>1, OpTypes
<1>3. /\ UNCHANGED <<isa, forwarder, swizzledClasses, token, live>>
      /\ imp' = [imp EXCEPT ![OpClass][OpSelector] = Forward] /\ op'.kind = "none" /\ op'.at = "none"
  BY DEF ReplaceMethod, NoOp
<1>4. \A c \in Classes, s \in Selectors :
        imp'[c][s] = IF c = OpClass /\ s = OpSelector THEN Forward ELSE imp[c][s]
  BY <1>2, <1>3 DEF Typing, TypeOK
<1>5. (Dead <=> Dead') /\ \A t, c : InPlace(t, c)' <=> InPlace(t, c)
  BY <1>3 DEF Dead, Alive, InPlace, ClassOfSubject
<1>6. OpClass \in BaseClasses => InPlace(a, OpClass) /\ token[a].selector = OpSelector
  <2>1. OpClass \in BaseClasses => ~Suffixed(OpClass)
    BY BaseClass DEF BaseClasses
  <2> QED
    BY <1>1, <2>1 DEF InPlace, OpClass, OpSubject, OpSelector
<1>7. ImpInv'
  <2> SUFFICES ASSUME NEW c \in BaseClasses, NEW s \in Selectors, imp'[c][s] = Forward
               PROVE  Dead \/ \E t \in live : InPlace(t, c) /\ token[t].selector = s
    BY <1>3, <1>5 DEF ImpInv
  <2>1. CASE c = OpClass /\ s = OpSelector
    BY <1>1, <1>6, <2>1
  <2>2. CASE ~(c = OpClass /\ s = OpSelector)
    <3>1. imp[c][s] = Forward
      BY <1>4, <2>2, UpBase
    <3> QED
      BY <3>1 DEF ChangesInv, ImpInv
  <2> QED
    BY <2>1, <2>2
<1>8. IsaInv' /\ ForwarderInv'
  BY <1>3 DEF ChangesInv, IsaInv, ForwarderInv
<1>9. SwizzledInv'
  BY <1>3, <1>5 DEF ChangesInv, SwizzledInv
<1>10. AddInv'
  BY <1>3 DEF AddInv
<1> QED
  BY <1>7, <1>8, <1>9, <1>10 DEF ChangesInv

\* What aspect_remove puts back no longer counts on the aspect it removes.
LEMMA ChangesInvRestore ==
  ASSUME Typing, AliasInv, MethodsInv, ChangesInv, RestoreMethod
  PROVE  ChangesInv'
<1> DEFINE m == Lookup(alias, OpClass, OpSelector)
<1>1. op # NoOp /\ op.kind = "remove" /\ op.at = "restore"
  BY DEF RestoreMethod, NoOp
<1>2. OpClass \in Classes /\ OpSelector \in Selectors
  BY <1>1, OpTypes
<1>3. /\ UNCHANGED <<isa, forwarder, swizzledClasses, token, live>>
      /\ op'.kind = "remove" /\ op'.at = "cleanUp" /\ op'.aspect = op.aspect
  BY <1>1 DEF RestoreMethod, Typing, OpTyped
<1>4. /\ imp'[OpClass][OpSelector] # Forward
      /\ \A c \in Classes, s \in Selectors : imp'[c][s] = Forward => imp[c][s] = Forward
  <2>1. CASE Lookup(imp, OpClass, OpSelector) # Forward /\ imp' = imp
    <3>1. imp[OpClass][OpSelector] # Forward
      BY <1>2, <2>1, LookupOwn, NilAssumption
    <3> QED
      BY <2>1, <3>1
  <2>2. CASE /\ Lookup(imp, OpClass, OpSelector) = Forward
             /\ imp' = [imp EXCEPT ![OpClass][OpSelector] = m]
    <3>1. m # Forward
      BY <1>2, <2>2, RestoredMethod
    <3> HIDE DEF m
    <3>2. \A c \in Classes, s \in Selectors :
            imp'[c][s] = IF c = OpClass /\ s = OpSelector THEN m ELSE imp[c][s]
      BY <1>2, <2>2 DEF Typing, TypeOK
    <3> QED
      BY <1>2, <3>1, <3>2
  <2> QED
    BY <2>1, <2>2 DEF RestoreMethod
<1>5. (Dead <=> Dead') /\ \A t, c : InPlace(t, c)' <=> InPlace(t, c)
  BY <1>3 DEF Dead, Alive, InPlace, ClassOfSubject
<1>6. ImpInv'
  <2> SUFFICES ASSUME NEW c \in BaseClasses, NEW s \in Selectors, imp'[c][s] = Forward, ~Dead
               PROVE  \E t \in live : InPlace(t, c) /\ token[t].selector = s /\ op.aspect # t
    BY <1>3, <1>5 DEF ImpInv
  <2>1. PICK t \in live : InPlace(t, c) /\ token[t].selector = s
    <3>1. imp[c][s] = Forward
      BY <1>4, UpBase
    <3> QED
      BY <3>1 DEF ChangesInv, ImpInv
  <2>2. CASE t = op.aspect
    <3>1. c = OpClass /\ s = OpSelector
      BY <2>1, <2>2 DEF InPlace, OpClass, OpSubject, OpSelector
    <3> QED
      BY <1>4, <3>1
  <2> QED
    BY <2>1, <2>2, ZenonT(30)
<1>7. IsaInv' /\ ForwarderInv'
  BY <1>3 DEF ChangesInv, IsaInv, ForwarderInv
<1>8. SwizzledInv'
  BY <1>3, <1>5 DEF ChangesInv, SwizzledInv
<1>9. AddInv'
  BY <1>3 DEF AddInv
<1> QED
  BY <1>6, <1>7, <1>8, <1>9 DEF ChangesInv

\* The object of an aspect goes away: its changes stay on account of Dead.
LEMMA ChangesInvDealloc ==
  ASSUME Typing, ChangesInv, NEW o \in Objects, Dealloc(o)
  PROVE  ChangesInv'
<1>1. /\ UNCHANGED <<imp, forwarder, swizzledClasses, token, op>> /\ (op # NoOp => OpSubject # o)
      /\ live' = {t \in live : token[t].subject # o}
      /\ isa'[o] = Nil /\ \A q \in Objects \ {o} : isa'[q] = isa[q]
  BY Zenon DEF Dealloc, Typing, TypeOK
<1>2. live \subseteq Tokens /\ swizzledClasses \subseteq BaseClasses
  BY DEF Typing, TypeOK
<1>3. \A t \in live : token[t] \in Registration
  BY DEF Typing, Registered
<1>4. Dead => Dead'
  BY <1>1 DEF Dead, Alive
<1>5. ASSUME NEW t \in live, NEW c, InPlace(t, c), ~Dead' PROVE t \in live' /\ InPlace(t, c)'
  <2>1. token[t].subject # o
    BY <1>1, <1>2, <1>3, <1>5 DEF Dead, Alive
  <2> QED
    BY <1>1, <1>5, <2>1 DEF InPlace, ClassOfSubject
<1>6. IsaInv'
  BY <1>1 DEF ChangesInv, IsaInv
<1>7. SwizzledInv'
  BY <1>1, <1>4, <1>5 DEF ChangesInv, SwizzledInv
<1>8. ImpInv'
  <2> SUFFICES ASSUME NEW c \in BaseClasses, NEW s \in Selectors, imp'[c][s] = Forward, ~Dead'
               PROVE  \E t \in live' : /\ InPlace(t, c)' /\ token'[t].selector = s
                                       /\ ~(op'.at = "cleanUp" /\ op'.aspect = t)
    BY DEF ImpInv
  <2>1. PICK t \in live : /\ InPlace(t, c) /\ token[t].selector = s
                          /\ ~(op.at = "cleanUp" /\ op.aspect = t)
    BY <1>1, <1>4 DEF ChangesInv, ImpInv
  <2> QED
    BY <1>1, <1>5, <2>1
<1>9. AddInv'
  <2> SUFFICES ASSUME op.kind = "add"
               PROVE  /\ op.aspect \in live'
                      /\ op.at \in {"alias", "replace"} =>
                           Suffixed(OpClass') \/ OpSubject' \in BaseClasses \/ MadeByKVO(OpClass')
    BY <1>1 DEF AddInv
  <2>1. OpSubject # o /\ op.aspect \in live
    BY <1>1 DEF ChangesInv, AddInv, NoOp
  <2>2. OpSubject' = OpSubject /\ OpClass' = OpClass
    BY <1>1, <2>1 DEF OpSubject, OpClass, ClassOfSubject
  <2>3. op.aspect \in live'
    BY <1>1, <2>1 DEF OpSubject
  <2> QED
    BY <2>2, <2>3 DEF ChangesInv, AddInv
<1>10. ForwarderInv'
  BY <1>1 DEF ChangesInv, ForwarderInv
<1> QED
  BY <1>6, <1>7, <1>8, <1>9, <1>10 DEF ChangesInv

\* The change of a class is undone with the last aspect in the container; before,
\* another aspect of the same subject accounts for it.
LEMMA ChangesInvCleanUp == ASSUME Typing, ContentsInv, ChangesInv, CleanUp PROVE ChangesInv'
<1> DEFINE a == op.aspect
           x == OpSubject
           c0 == OpClass
<1>1. /\ op # NoOp /\ op.kind = "remove" /\ op.at = "cleanUp" /\ a \in live
      /\ live' = live \ {a} /\ UNCHANGED <<imp, token>> /\ op'.kind = "none" /\ op'.at = "none"
  <2>1. op.kind = "remove" /\ op.at = "cleanUp"
    BY DEF CleanUp
  <2>2. live' = live \ {a} /\ UNCHANGED <<imp, token>> /\ op' = NoOp
    BY DEF CleanUp
  <2>3. a \in live
    BY <2>1 DEF ContentsInv
  <2> QED
    BY <2>1, <2>2, <2>3 DEF NoOp
<1>2. /\ x \in Subjects /\ OpSelector \in Selectors /\ c0 \in Classes
      /\ Suffixed(c0) => x \in Objects
      /\ ~Suffixed(c0) => c0 \in BaseClasses
  BY <1>1, OpTypes
<1>3. /\ \A c \in BaseClasses : ~Suffixed(c) /\ c \in Classes
      /\ x \in Objects => x \notin BaseClasses /\ c0 = isa[x]
      /\ x \notin Objects => c0 = x
      /\ token[a].subject = x /\ Nil \notin Classes
  BY BaseClass, NilAssumption DEF BaseClasses, OpClass, ClassOfSubject, OpSubject
<1>4. swizzledClasses \subseteq BaseClasses /\ live \subseteq Tokens
  BY DEF Typing, TypeOK
<1>5. \A c : InPlace(a, c) <=> c = c0 /\ (x \in BaseClasses \/ MadeByKVO(c))
  BY Zenon DEF InPlace, OpClass, OpSubject
<1>6. Base(c0[1]) \in Classes /\ Base(c0[1])[1] = c0[1] /\ ~Suffixed(Base(c0[1]))
  BY <1>2, ClassKinds, BaseClass
\* What undoing does, and that it is done unless there is another aspect.
<1>7. /\ \A q \in Objects : isa'[q] = isa[q] \/ (q = x /\ Suffixed(c0) /\ isa'[q] = Base(c0[1]))
      /\ \/ \E u \in live' : token[u].subject = x
         \/ Suffixed(c0) => ~Suffixed(isa'[x])
      /\ \/ UNCHANGED <<forwarder, swizzledClasses>> /\ \E u \in live' : token[u].subject = x
         \/ UNCHANGED <<forwarder, swizzledClasses>> /\ \A c \in BaseClasses : ~InPlace(a, c)
         \/ UndoSwizzleClassInPlace(c0) /\ c0 \in BaseClasses
  <2>1. CASE contents[OpContainer] # {} /\ UNCHANGED <<isa, forwarder, swizzledClasses>>
    <3>1. PICK u \in contents[OpContainer] : TRUE
      BY <2>1
    <3>2. OpContainer # 0
      BY <1>1 DEF ContentsInv, OpContainer, OpSubject, OpSelector
    <3>3. u \in live /\ u # a /\ <<token[u].subject, token[u].selector>> = <<OpSubject, OpSelector>>
      BY <1>1, <1>2, <3>1, <3>2 DEF ContentsInv, OpContainer
    <3>4. u \in live' /\ token[u].subject = x
      BY <1>1, <3>3
    <3> QED
      BY <2>1, <3>4
  <2>2. CASE UndoHookClass
    <3>1. CASE /\ Suffixed(c0) /\ isa' = [isa EXCEPT ![x] = Base(c0[1])]
               /\ UNCHANGED <<forwarder, swizzledClasses>>
      <4>1. isa'[x] = Base(c0[1]) /\ \A q \in Objects \ {x} : isa'[q] = isa[q]
        BY <1>2, <3>1 DEF Typing, TypeOK
      <4> QED
        BY <1>2, <1>3, <1>5, <1>6, <3>1, <4>1
    <3>2. CASE ~Suffixed(c0) /\ UndoSwizzleClassInPlace(c0) /\ UNCHANGED isa
      BY <1>2, <3>2
    <3>3. CASE /\ ~Suffixed(c0) /\ x \in Objects /\ ~MadeByKVO(c0)
               /\ UNCHANGED <<isa, forwarder, swizzledClasses>>
      BY <1>3, <1>5, <3>3
    <3> QED
      BY <2>2, <3>1, <3>2, <3>3, ZenonT(30) DEF UndoHookClass
  <2> QED
    BY <2>1, <2>2, ZenonT(30) DEF CleanUp
<1> HIDE DEF x, c0
<1>8. Dead => Dead'
  <2>1. \A q \in Objects : isa[q] = Nil => isa'[q] = Nil
    BY <1>2, <1>3, <1>7
  <2> QED
    BY <1>1, <2>1 DEF Dead, Alive
<1>9. \A t \in live, c \in BaseClasses : InPlace(t, c) => InPlace(t, c)'
  <2> SUFFICES ASSUME NEW t \in live, NEW c \in BaseClasses, InPlace(t, c) PROVE InPlace(t, c)'
    OBVIOUS
  <2>1. CASE token[t].subject \in Objects
    <3>1. isa[token[t].subject] = c /\ ~Suffixed(c)
      BY <1>3, <2>1 DEF InPlace, ClassOfSubject
    <3>2. isa'[token[t].subject] = c
      BY <1>2, <1>3, <1>7, <2>1, <3>1
    <3> QED
      BY <1>1, <2>1, <3>2 DEF InPlace, ClassOfSubject
  <2>2. CASE token[t].subject \notin Objects
    BY <1>1, <2>2 DEF InPlace, ClassOfSubject
  <2> QED
    BY <2>1, <2>2
<1>10. ImpInv'
  BY <1>1, <1>8, <1>9 DEF ChangesInv, ImpInv
<1>11. ASSUME NEW q \in Objects, isa'[q] # Nil
       PROVE  isa'[q][1] = ClassOf[q] /\ (Suffixed(isa'[q]) => \E t \in live' : token'[t].subject = q)
  <2>1. CASE isa'[q] = isa[q]
    <3>1. isa[q][1] = ClassOf[q] /\ (Suffixed(isa[q]) => \E t \in live : token[t].subject = q)
      BY <1>11, <2>1 DEF ChangesInv, IsaInv
    <3>2. CASE q # x \/ \E u \in live' : token[u].subject = x
      BY <1>1, <1>3, <2>1, <3>1, <3>2
    <3>3. CASE q = x /\ (Suffixed(c0) => ~Suffixed(isa'[x]))
      BY <1>3, <2>1, <3>1, <3>3
    <3> QED
      BY <1>7, <3>2, <3>3
  <2>2. CASE q = x /\ Suffixed(c0) /\ isa'[q] = Base(c0[1])
    <3>1. isa[x] # Nil /\ c0 = isa[x]
      BY <1>2, <1>3, <2>2
    <3>2. c0[1] = ClassOf[q]
      BY <2>2, <3>1 DEF ChangesInv, IsaInv
    <3> QED
      BY <1>6, <2>2, <3>2
  <2> QED
    BY <1>7, <2>1, <2>2
<1>12. ForwarderInv' /\ SwizzledInv'
  <2>1. CASE UNCHANGED <<forwarder, swizzledClasses>> /\ \E u \in live' : token[u].subject = x
    <3>1. PICK u \in live' : token[u].subject = x
      BY <2>1
    <3>2. \A c : InPlace(a, c) => InPlace(u, c)
      BY <1>3, <3>1 DEF InPlace
    <3>3. u \in live
      BY <1>1
    <3>4. ASSUME NEW c \in swizzledClasses, ~Dead' PROVE \E t \in live' : InPlace(t, c)'
      <4>1. PICK t \in live : InPlace(t, c)
        BY <1>8, <3>4 DEF ChangesInv, SwizzledInv
      <4> QED
        BY <1>1, <1>4, <1>9, <3>2, <3>3, <4>1
    <3> QED
      BY <2>1, <3>4 DEF ChangesInv, ForwarderInv, SwizzledInv
  <2>2. CASE UNCHANGED <<forwarder, swizzledClasses>> /\ \A c \in BaseClasses : ~InPlace(a, c)
    <3>1. ASSUME NEW c \in swizzledClasses, ~Dead' PROVE \E t \in live' : InPlace(t, c)'
      <4>1. PICK t \in live : InPlace(t, c)
        BY <1>8, <3>1 DEF ChangesInv, SwizzledInv
      <4> QED
        BY <1>1, <1>4, <1>9, <2>2, <4>1
    <3> QED
      BY <2>2, <3>1 DEF ChangesInv, ForwarderInv, SwizzledInv
  <2>3. CASE UndoSwizzleClassInPlace(c0) /\ c0 \in BaseClasses
    <3>1. swizzledClasses' = swizzledClasses \ {c0}
      BY <2>3 DEF UndoSwizzleClassInPlace
    <3>2. \A c \in BaseClasses : forwarder'[c] = "aspects" => forwarder[c] = "aspects" /\ c # c0
      <4>1. \/ UNCHANGED forwarder /\ c0 \notin swizzledClasses
            \/ \A c \in BaseClasses : forwarder'[c] = "aspects" => forwarder[c] = "aspects" /\ c # c0
        BY <1>3, <2>3 DEF UndoSwizzleClassInPlace, Typing, TypeOK
      <4> QED
        BY <4>1 DEF ChangesInv, ForwarderInv
    <3>3. ASSUME NEW c \in swizzledClasses, c # c0, ~Dead' PROVE \E t \in live' : InPlace(t, c)'
      <4>1. PICK t \in live : InPlace(t, c)
        BY <1>8, <3>3 DEF ChangesInv, SwizzledInv
      <4> QED
        BY <1>1, <1>4, <1>5, <1>9, <3>3, <4>1
    <3> QED
      BY <3>1, <3>2, <3>3 DEF ChangesInv, ForwarderInv, SwizzledInv
  <2> QED
    BY <1>7, <2>1, <2>2, <2>3
<1>13. IsaInv' /\ AddInv'
  BY <1>1, <1>11 DEF IsaInv, AddInv
<1> QED
  BY <1>10, <1>12, <1>13 DEF ChangesInv

LEMMA ChangesInvNext ==
  ASSUME Typing, AliasInv, RestoringInv, [Next]_vars
  PROVE  ChangesInv'
<1>0. ContentsInv /\ MethodsInv /\ ChangesInv
  BY DEF RestoringInv
<1>1. ASSUME NEW x \in Hookable, NEW s \in Selectors, NEW t \in Tokens,
             \/ \E option \in Options : AspectAdd(t, x, s, option)
             \/ AspectAddFails(t, x, s)
      PROVE  ChangesInv'
  <2>1. x \in Subjects
    BY DEF Hookable, Subjects
  <2> QED
    BY <1>0, <1>1, <2>1, ChangesInvAdd
<1>2. ASSUME NEW t, NEW by, RemoveAspect(t, by) PROVE ChangesInv'
  <2>1. UNCHANGED <<runtime, token, live>> /\ op'.kind = "remove" /\ op'.at = "restore"
    BY <1>2 DEF RemoveAspect
  <2> QED
    BY <1>0, <2>1, ChangesInvFrame
<1>3. CASE AddAlias
  <2>1. /\ UNCHANGED <<isa, imp, forwarder, swizzledClasses, token, live>>
        /\ op.kind = "add" /\ op.at = "alias"
        /\ op' = NoOp \/ op' = [op EXCEPT !.at = "replace"]
    BY <1>3 DEF AddAlias
  <2>2. \/ op'.kind = "none" /\ op'.at = "none"
        \/ op'.kind = "add" /\ op'.at = "replace" /\ op'.aspect = op.aspect
    BY <2>1 DEF NoOp, Typing, OpTyped
  <2>3. op.aspect \in live
    BY <1>0, <2>1 DEF ChangesInv, AddInv
  <2> QED
    BY <1>0, <2>1, <2>2, <2>3, ChangesInvFrame
<1>4. ASSUME UNCHANGED <<runtime, token, live, op>> PROVE ChangesInv'
  <2>1. op.kind = "add" => op.aspect \in live
    BY <1>0 DEF ChangesInv, AddInv
  <2> QED
    BY <1>0, <1>4, <2>1, ChangesInvFrame
<1>5. ASSUME NEW x \in Senders, Sending(x) \/ \E o \in Objects, s \in Selectors : Send(x, o, s)
      PROVE  ChangesInv'
  <2>1. \/ UNCHANGED <<runtime, token, live, op>>
        \/ \E t \in send[x].remove : RemoveAspect(t, x)
    BY <1>5, SendingFrame, Zenon
  <2> QED
    BY <1>2, <1>4, <2>1, ZenonT(30)
<1>6. CASE UNCHANGED vars
  BY <1>4, <1>6 DEF vars
<1>7. ASSUME NEW t \in Tokens, AspectRemove(t) PROVE ChangesInv'
  BY <1>2, <1>7 DEF AspectRemove
<1> QED
  BY <1>0, <1>1, <1>3, <1>5, <1>6, <1>7, ChangesInvHookClass, ChangesInvReplace, ChangesInvRestore,
     ChangesInvCleanUp, ChangesInvDealloc, Zenon DEF Next, LockHolder

\* With all aspects removed and all their objects there, nothing is changed any more.
LEMMA NothingChanged ==
  ASSUME Typing, RestoringInv, op = NoOp,
         \A t \in Tokens : token[t] \notin {Nil, Refused} => t \notin live /\ Alive(token[t].subject)
  PROVE  /\ \A o \in Objects : isa[o] # Nil => isa[o] = Base(ClassOf[o])
         /\ \A c \in BaseClasses : forwarder[c] # "aspects"
         /\ \A c \in BaseClasses, s \in Selectors : imp[c][s] # Forward
<1>0. \A r \in Registration : r \notin {Nil, Refused}
  BY NilAssumption, Zenon
<1>1. live = {} /\ ~Dead
  <2>1. ~Dead
    BY <1>0, Zenon DEF Dead
  <2>2. live \subseteq Tokens /\ \A t \in live : token[t] \in Registration
    BY Zenon DEF Typing, TypeOK, Registered
  <2> QED
    BY <1>0, <2>1, <2>2, Zenon
<1>2. ChangesInv
  BY DEF RestoringInv
<1>3. \A o \in Objects : isa[o] # Nil => isa[o] \in Classes /\ isa[o][1] = ClassOf[o] /\ ~Suffixed(isa[o])
  BY <1>1, <1>2 DEF ChangesInv, IsaInv, Typing, TypeOK
<1> QED
  BY <1>1, <1>2, <1>3, ClassKinds DEF ChangesInv, ForwarderInv, SwizzledInv, ImpInv

\* In whatever order aspects were added to and removed from classes and objects,
\* with sends in between, once all are removed every object is an instance of
\* its class, every class has its forwardInvocation: back and forwards no method,
\* and a method that one class of the line implements is found there again.
THEOREM AlwaysRestored == Spec => []Restored
<1>1. Init => Typing /\ AliasInv /\ RestoringInv
  BY TypingInit, AliasInvInit, ContentsInvInit, MethodsInvInit, ChangesInvInit DEF RestoringInv
<1>2. Typing /\ AliasInv /\ RestoringInv /\ [Next]_vars => (Typing /\ AliasInv /\ RestoringInv)'
  BY TypingNext, AliasInvNext, ContentsInvNext, MethodsInvNext, ChangesInvNext DEF RestoringInv
<1>3. Typing /\ RestoringInv => Restored
  <2> SUFFICES ASSUME Typing, RestoringInv, op = NoOp,
                      \A t \in Tokens : token[t] \notin {Nil, Refused} => t \notin live /\ Alive(token[t].subject)
               PROVE  /\ \A o \in Objects : isa[o] \in {Base(ClassOf[o]), Nil}
                      /\ \A n \in Names : ForwardInvocation(Base(n)) = "original"
                      /\ \A n \in Names, s \in Selectors :
                           LET m == Lookup(imp, Base(n), s)
                               cs == Definers(n, s) IN
                           m # Forward /\ (\A c \in cs : cs = {c} => m = c[1])
    BY DEF Restored
  <2>1. /\ \A o \in Objects : isa[o] # Nil => isa[o] = Base(ClassOf[o])
        /\ \A c \in BaseClasses : forwarder[c] # "aspects"
        /\ \A c \in BaseClasses, s \in Selectors : imp[c][s] # Forward
    BY NothingChanged
  <2>2. ASSUME NEW n \in Names PROVE ForwardInvocation(Base(n)) = "original"
    <3> DEFINE cs == {d \in Up(Base(n)) : forwarder[d] # "none"}
    <3>0. forwarder \in [Classes -> {"none", "aspects", "original"}]
      BY Zenon DEF Typing, TypeOK
    <3>a. cs \subseteq BaseClasses /\ cs \subseteq Classes
      BY BaseClass, UpBase, UpClasses
    <3>1. \A d \in cs : forwarder[d] = "original"
      BY <2>1, <3>0, <3>a
    <3>2. cs # {} => Nearest(cs) \in cs
      BY BaseClass, NearestIn
    <3>3. ForwardInvocation(Base(n)) = IF cs = {} THEN "original" ELSE forwarder[Nearest(cs)]
      BY DEF ForwardInvocation
    <3> HIDE DEF cs
    <3> QED
      BY <3>1, <3>2, <3>3
  <2>3. ASSUME NEW n \in Names, NEW s \in Selectors
        PROVE  /\ Lookup(imp, Base(n), s) # Forward
               /\ \A c \in Definers(n, s) : Definers(n, s) = {c} => Lookup(imp, Base(n), s) = c[1]
    <3> DEFINE m == Lookup(imp, Base(n), s)
    <3>0. Base(n) \in Classes /\ Base(n)[1] = n /\ Up(Base(n)) \subseteq BaseClasses
      BY BaseClass, UpBase
    <3>1. m # Forward
      <4>1. CASE m = Nil
        BY <4>1, NilAssumption
      <4>2. CASE \E d \in Up(Base(n)) : imp[d][s] # Nil /\ m = imp[d][s]
        BY <2>1, <3>0, <4>2
      <4> QED
        BY <3>0, <4>1, <4>2, LookupFinds
    <3>2. ASSUME NEW c \in Definers(n, s), Definers(n, s) = {c} PROVE m = c[1]
      <4>1. PICK k \in Above[n] : <<k, s>> \in defined /\ c = Base(k)
        BY DEF Definers
      <4>2. k \in Names /\ c \in Up(Base(n))
        BY <3>0, <4>1, AspectsAssumption DEF Up
      <4>3. imp[c][s] # Nil
        BY <4>1, <4>2 DEF RestoringInv, MethodsInv
      <4>4. PICK d \in Up(Base(n)) : imp[d][s] # Nil /\ m = imp[d][s]
        BY <3>0, <4>2, <4>3, LookupFinds
      <4>5. d \in Classes
        BY <3>0, UpClasses
      <4>6. Base(m) \in Definers(d[1], s)
        BY <3>1, <4>4, <4>5 DEF RestoringInv, MethodsInv
      <4>7. Base(m) \in Definers(n, s)
        BY <3>0, <4>6, DefinersUp
      <4> HIDE DEF m
      <4>8. Base(m) = c
        BY <3>2, <4>7
      <4> QED
        BY <4>8 DEF Base
    <3> QED
      BY <3>1, <3>2
  <2> QED
    BY <2>1, <2>2, <2>3, ZenonT(30)
<1> QED
  BY <1>1, <1>2, <1>3, PTL DEF Spec
=============================================================================
