-------------------------- MODULE AspectsAddingProofs --------------------------
(***************************************************************************)
(* Proofs about Aspects, for any classes, objects, aspects and senders:    *)
(* while aspects are only added, no message gets lost and no hook is       *)
(* silenced by another one.                                                *)
(***************************************************************************)
EXTENDS AspectsProofs

\* A leaf that names no prover is tried with SMT, with Zenon, and at length with
\* SMT again.
USE SMT, Zenon, SMTT(30)

USE DEF runtime, registry, tracking

\* Where the implementations are replaced, forwardInvocation: is too; a hook that
\* was added completely is found from the class of its subject.
HooksInv ==
  /\ \A c \in Classes : forwarder[c] # "original"
  /\ \A c \in swizzledClasses : forwarder[c] = "aspects"
  /\ \A c \in Classes, s \in Selectors :
       /\ imp[c][s] = Forward => forwarder[c] = "aspects"
       /\ imp[c][s] \notin {Nil, Forward} => ~Suffixed(c) /\ <<c[1], s>> \in defined
  /\ \A o \in Objects : isa[o] # Nil =>
       isa[o][1] = ClassOf[o] /\ (Suffixed(isa[o]) => forwarder[isa[o]] = "aspects")
  /\ op.kind = "add" /\ op.at \in {"alias", "replace"} => forwarder[OpClass] = "aspects"
  /\ \A t \in live : t # op.aspect =>
       Lookup(imp, ClassOfSubject(token[t].subject), token[t].selector) = Forward

\* What a send ran is an aspect, or what an alias it found stands for.
Reached(x) ==
  \/ send[x].result \in {"none", "instead"}
  \/ /\ send[x].at # "idle"
     /\ \E d \in Up(isa[send[x].object]) :
          alias[d][send[x].selector] # Nil /\ send[x].result = Original(d, send[x].selector)

\* What a send found is still there when it is used.
SendSafe(x) ==
  LET o == send[x].object IN
  /\ Reached(x)
  /\ send[x].at = "forward" => \E d \in Up(isa[o]) : forwarder[d] = "aspects"
  /\ send[x].at \in {"forward", "instead"} => Reaches(alias, isa[o], send[x].selector)
  /\ send[x].at = "runInstead" => AspectsAt(send[x].containers, "instead") # {}

SendsInv == \A x \in Senders : SendSafe(x)

AddingInv == NothingRemoved => HooksInv /\ SendsInv

\* A selector that is forwarded stays so when others are forwarded too.
LEMMA ForwardStays ==
  ASSUME NEW table, NEW c \in Classes, NEW s \in Selectors, Lookup(imp, c, s) = Forward,
         \A d \in Classes : table[d][s] = imp[d][s] \/ table[d][s] = Forward
  PROVE  Lookup(table, c, s) = Forward
<1>0. Forward # Nil
  BY NilAssumption
<1>1. PICK d \in Up(c) : imp[d][s] = Forward /\ \A e \in Up(c) : imp[e][s] # Nil => e \in Up(d)
  BY <1>0, LookupNearest
<1>2. d \in Classes /\ table[d][s] = Forward
  BY <1>1, UpClasses
<1>3. Lookup(table, c, s) # Nil
  BY <1>0, <1>2, LookupFinds
<1>4. PICK f \in Up(c) : /\ table[f][s] # Nil /\ Lookup(table, c, s) = table[f][s]
                         /\ \A e \in Up(c) : table[e][s] # Nil => e \in Up(f)
  BY <1>3, LookupNearest
<1>5. f \in Classes /\ d \in Up(f)
  BY <1>0, <1>2, <1>4, UpClasses
<1>6. CASE table[f][s] = imp[f][s]
  <2>1. f \in Up(d)
    BY <1>1, <1>4, <1>6
  <2>2. f = d
    BY <1>2, <1>5, <2>1, UpOrder
  <2> QED
    BY <1>2, <1>4, <2>2
<1> QED
  BY <1>4, <1>5, <1>6

\* A selector that is forwarded for a class is so for those below it that do not
\* implement it otherwise.
LEMMA ForwardBelow ==
  ASSUME NEW c \in Classes, NEW e \in Up(c), NEW s, Lookup(imp, e, s) = Forward,
         \A d \in Up(c) : imp[d][s] \notin {Nil, Forward} => d \in Up(e)
  PROVE  Lookup(imp, c, s) = Forward
<1>0. Forward # Nil /\ e \in Classes /\ Up(e) \subseteq Up(c)
  BY NilAssumption, UpClasses, UpOrder
<1>1. PICK d \in Up(e) : imp[d][s] = Forward /\ \A f \in Up(e) : imp[f][s] # Nil => f \in Up(d)
  BY <1>0, LookupNearest
<1>2. d \in Up(c) /\ d \in Classes
  BY <1>0, <1>1, UpClasses
<1>3. Lookup(imp, c, s) # Nil
  BY <1>0, <1>1, <1>2, LookupFinds
<1>4. PICK f \in Up(c) : /\ imp[f][s] # Nil /\ Lookup(imp, c, s) = imp[f][s]
                         /\ \A g \in Up(c) : imp[g][s] # Nil => g \in Up(f)
  BY <1>3, LookupNearest
<1>5. f \in Classes /\ d \in Up(f)
  BY <1>0, <1>1, <1>2, <1>4, UpClasses
<1>6. CASE imp[f][s] # Forward
  <2>1. f \in Up(d)
    BY <1>1, <1>4, <1>6
  <2>2. f = d
    BY <1>2, <1>5, <2>1, UpOrder
  <2> QED
    BY <1>1, <1>6, <2>2
<1> QED
  BY <1>4, <1>6

\* Where a selector is forwarded, forwardInvocation: calls the aspects.
LEMMA AspectsForward ==
  ASSUME HooksInv, NEW c \in Classes, NEW d \in Up(c), forwarder[d] = "aspects", Typing
  PROVE  ForwardInvocation(c) = "aspects"
<1> DEFINE cs == {e \in Up(c) : forwarder[e] # "none"}
<1>1. cs # {}
  OBVIOUS
<1>2. Nearest(cs) \in cs
  BY <1>1, NearestIn
<1>3. ForwardInvocation(c) = forwarder[Nearest(cs)]
  BY <1>1 DEF ForwardInvocation
<1>4. \A e \in cs : forwarder[e] = "aspects"
  BY UpClasses DEF HooksInv, Typing, TypeOK
<1> HIDE DEF cs
<1> QED
  BY <1>2, <1>3, <1>4

LEMMA HooksInvInit == Init => HooksInv
<1> SUFFICES ASSUME Init PROVE HooksInv
  OBVIOUS
<1>1. /\ live = {} /\ swizzledClasses = {} /\ op.kind = "none"
      /\ \A c \in Classes : forwarder[c] = "none"
      /\ \A o \in Objects : isa[o] = Base(ClassOf[o])
  BY DEF Init, NoOp
<1>2. \A o \in Objects : isa[o][1] = ClassOf[o] /\ ~Suffixed(isa[o])
  BY <1>1, BaseClass, AspectsAssumption
<1>3. \A c \in Classes, s \in Selectors :
        imp[c][s] # Forward /\ (imp[c][s] # Nil => ~Suffixed(c) /\ <<c[1], s>> \in defined)
  BY NilAssumption, ClassKinds, Zenon DEF Init
<1> QED
  BY <1>1, <1>2, <1>3 DEF HooksInv

\* Steps that leave the methods of the classes alone.
LEMMA HooksInvFrame ==
  ASSUME HooksInv, UNCHANGED <<defined, imp, forwarder, swizzledClasses>>,
         \A o \in Objects : isa'[o] \in {isa[o], Nil},
         \A t \in live' : t # op'.aspect =>
           /\ t \in live /\ t # op.aspect /\ token'[t] = token[t]
           /\ ClassOfSubject(token[t].subject)' = ClassOfSubject(token[t].subject),
         op'.kind = "add" /\ op'.at \in {"alias", "replace"} =>
           /\ op.kind = "add" /\ op.at \in {"alias", "replace"} /\ OpClass' = OpClass
  PROVE  HooksInv'
<1>1. \A t \in live' : t # op'.aspect =>
        Lookup(imp', ClassOfSubject(token[t].subject)', token'[t].selector) = Forward
  BY DEF HooksInv
<1>2. \A o \in Objects : isa'[o] # Nil =>
        isa'[o][1] = ClassOf[o] /\ (Suffixed(isa'[o]) => forwarder'[isa'[o]] = "aspects")
  BY DEF HooksInv
<1>3. op'.kind = "add" /\ op'.at \in {"alias", "replace"} => forwarder'[OpClass'] = "aspects"
  BY DEF HooksInv
<1> QED
  BY <1>1, <1>2, <1>3, Zenon DEF HooksInv

\* aspect_hookClass: an object moved to its subclass keeps its hooks.
LEMMA HooksInvHookClass == ASSUME Typing, HooksInv, HookClass PROVE HooksInv'
<1>1. op # NoOp /\ op.kind = "add" /\ op.at = "hookClass"
  BY DEF HookClass, NoOp
<1>2. /\ OpSubject \in Subjects /\ OpClass \in Classes
      /\ (Suffixed(OpClass) => OpSubject \in Objects) /\ (~Suffixed(OpClass) => OpClass \in BaseClasses)
  BY <1>1, OpTypes
<1>3. /\ UNCHANGED <<defined, imp, alias, token, live>>
      /\ op'.kind = "add" /\ op'.at = "alias" /\ op'.aspect = op.aspect
  BY <1>1 DEF HookClass, SwizzleClassInPlace, Typing, OpTyped
<1>4. OpSubject' = OpSubject
  BY <1>3 DEF OpSubject
<1>5. CASE Suffixed(OpClass) /\ UNCHANGED runtime
  <2>1. OpClass' = OpClass /\ OpClass = isa[OpSubject] /\ OpClass # Nil
    BY <1>2, <1>4, <1>5, NilAssumption DEF OpClass, ClassOfSubject
  <2>2. forwarder[OpClass] = "aspects"
    BY <1>2, <1>5, <2>1 DEF HooksInv
  <2>3. \A t \in live : ClassOfSubject(token[t].subject)' = ClassOfSubject(token[t].subject)
    BY <1>3, <1>5 DEF ClassOfSubject
  <2> QED
    BY <1>3, <1>5, <2>1, <2>2, <2>3 DEF HooksInv
<1>6. CASE ~Suffixed(OpClass) /\ SwizzleClassInPlace(OpClass) /\ UNCHANGED <<isa, imp, alias>>
  <2>1. OpClass' = OpClass
    BY <1>4, <1>6 DEF OpClass, ClassOfSubject
  <2>2. /\ \A c \in Classes : forwarder'[c] = forwarder[c] \/ forwarder'[c] = "aspects"
        /\ forwarder'[OpClass] = "aspects" /\ swizzledClasses' = swizzledClasses \cup {OpClass}
    BY <1>2, <1>6 DEF SwizzleClassInPlace, HooksInv, Typing, TypeOK
  <2>3. \A t \in live : ClassOfSubject(token[t].subject)' = ClassOfSubject(token[t].subject)
    BY <1>3, <1>6 DEF ClassOfSubject
  <2>4. swizzledClasses \subseteq Classes
    BY UpBase DEF Typing, TypeOK
  <2>5. \A o \in Objects : isa[o] # Nil => isa[o] \in Classes
    BY DEF Typing, TypeOK
  <2>6. \A t \in live' : t # op'.aspect =>
          Lookup(imp', ClassOfSubject(token[t].subject)', token'[t].selector) = Forward
    BY <1>3, <2>3 DEF HooksInv
  <2> QED
    BY <1>3, <1>6, <2>1, <2>2, <2>4, <2>5, <2>6 DEF HooksInv
<1>7. CASE /\ ~Suffixed(OpClass) /\ OpSubject \in Objects
           /\ forwarder' = [forwarder EXCEPT ![Subclass(OpClass)] = "aspects"]
           /\ isa' = [isa EXCEPT ![OpSubject] = Subclass(OpClass)]
           /\ UNCHANGED <<imp, alias, swizzledClasses>>
  <2>0. OpClass = isa[OpSubject] /\ OpClass # Nil /\ OpClass[1] = ClassOf[OpSubject]
    BY <1>2, <1>7, NilAssumption DEF OpClass, ClassOfSubject, HooksInv
  <2>1. /\ Subclass(OpClass) \in Classes /\ Subclass(OpClass)[1] = OpClass[1]
        /\ Suffixed(Subclass(OpClass))
    BY <1>2, ClassKinds, Zenon DEF Subclass, Classes, Suffixed
  <2>2. OpClass' = Subclass(OpClass)
    BY <1>4, <1>7 DEF OpClass, ClassOfSubject, Typing, TypeOK
  <2>3. /\ \A c \in Classes : forwarder'[c] = forwarder[c] \/ forwarder'[c] = "aspects"
        /\ forwarder'[Subclass(OpClass)] = "aspects"
    BY <1>7, <2>1 DEF Typing, TypeOK
  <2>4. /\ isa'[OpSubject] = Subclass(OpClass)
        /\ \A o \in Objects \ {OpSubject} : isa'[o] = isa[o]
    BY <1>7 DEF Typing, TypeOK
  <2>5. ASSUME NEW s \in Selectors, Lookup(imp, OpClass, s) = Forward
        PROVE  Lookup(imp, Subclass(OpClass), s) = Forward
    <3>1. Up(OpClass) \subseteq Up(Subclass(OpClass)) /\ OpClass \in Up(OpClass)
      BY <1>2, <1>7, UpSubclass, UpClasses
    <3>2. \A d \in Up(Subclass(OpClass)) : d = Subclass(OpClass) \/ d \in Up(OpClass)
      BY <2>1 DEF Up
    <3>3. imp[Subclass(OpClass)][s] \in {Nil, Forward}
      BY <2>1, Zenon DEF HooksInv
    <3> QED
      BY <2>1, <2>5, <3>1, <3>2, <3>3, ForwardBelow
  <2>6. ASSUME NEW t \in live', t # op'.aspect
        PROVE  Lookup(imp', ClassOfSubject(token[t].subject)', token'[t].selector) = Forward
    <3>1. t \in live /\ t # op.aspect /\ token'[t] = token[t] /\ imp' = imp
      BY <1>3, <2>6
    <3>2. Lookup(imp, ClassOfSubject(token[t].subject), token[t].selector) = Forward
      BY <3>1 DEF HooksInv
    <3>3. token[t].selector \in Selectors /\ token[t].subject \in Subjects
      BY <3>1 DEF Typing, Registered, Registration
    <3>4. CASE token[t].subject = OpSubject
      <4>1. ClassOfSubject(token[t].subject) = OpClass /\ ClassOfSubject(token[t].subject)' = Subclass(OpClass)
        BY <1>7, <2>4, <3>1, <3>4 DEF OpClass, ClassOfSubject
      <4> QED
        BY <2>5, <3>1, <3>2, <3>3, <4>1
    <3>5. CASE token[t].subject # OpSubject
      <4>1. ClassOfSubject(token[t].subject)' = ClassOfSubject(token[t].subject)
        BY <2>4, <3>1, <3>5 DEF ClassOfSubject
      <4> QED
        BY <3>1, <3>2, <4>1
    <3> QED
      BY <3>4, <3>5
  <2>7. \A o \in Objects : isa'[o] # Nil =>
          isa'[o][1] = ClassOf[o] /\ (Suffixed(isa'[o]) => forwarder'[isa'[o]] = "aspects")
    <3>1. \A o \in Objects : isa[o] # Nil => isa[o] \in Classes
      BY DEF Typing, TypeOK
    <3> QED
      BY <2>0, <2>1, <2>3, <2>4, <3>1 DEF HooksInv
  <2>8. \A c \in swizzledClasses' : forwarder'[c] = "aspects"
    BY <1>7, <2>3, UpBase DEF HooksInv, Typing, TypeOK
  <2>9. \A c \in Classes : forwarder'[c] # "original"
    BY <2>3 DEF HooksInv
  <2>10. \A c \in Classes, s \in Selectors :
           /\ imp'[c][s] = Forward => forwarder'[c] = "aspects"
           /\ imp'[c][s] \notin {Nil, Forward} => ~Suffixed(c) /\ <<c[1], s>> \in defined'
    BY <1>3, <2>3, Zenon DEF HooksInv
  <2> QED
    BY <2>2, <2>3, <2>6, <2>7, <2>8, <2>9, <2>10 DEF HooksInv
<1> QED
  BY <1>5, <1>6, <1>7 DEF HookClass

LEMMA HooksInvAddAlias == ASSUME Typing, HooksInv, AddAlias PROVE HooksInv'
<1> DEFINE m == Lookup(imp, OpClass, OpSelector)
<1>1. op # NoOp /\ op.kind = "add" /\ op.at = "alias"
  BY DEF AddAlias, NoOp
<1>2. /\ UNCHANGED <<defined, isa, imp, forwarder, swizzledClasses, token, live>>
      /\ (m = Forward /\ op' = NoOp) \/ op' = [op EXCEPT !.at = "replace"]
  BY DEF AddAlias
<1>3. \A t \in live : ClassOfSubject(token[t].subject)' = ClassOfSubject(token[t].subject)
  BY <1>2 DEF ClassOfSubject
<1>4. CASE m = Forward /\ op' = NoOp
  <2>1. m = Lookup(imp, ClassOfSubject(token[op.aspect].subject), token[op.aspect].selector)
    BY DEF OpClass, OpSubject, OpSelector
  <2>2. op'.kind = "none"
    BY <1>4 DEF NoOp
  <2> HIDE DEF m
  <2>3. \A t \in live' : Lookup(imp', ClassOfSubject(token[t].subject)', token'[t].selector) = Forward
    BY <1>2, <1>3, <1>4, <2>1 DEF HooksInv
  <2> QED
    BY <1>2, <2>2, <2>3 DEF HooksInv
<1>5. CASE op' = [op EXCEPT !.at = "replace"]
  <2>1. op'.aspect = op.aspect
    BY <1>5 DEF Typing, OpTyped
  <2>2. OpClass' = OpClass
    BY <1>2, <2>1 DEF OpClass, OpSubject, ClassOfSubject
  <2> QED
    BY <1>1, <1>2, <1>3, <2>1, <2>2, HooksInvFrame
<1> QED
  BY <1>2, <1>4, <1>5

LEMMA HooksInvReplaceMethod == ASSUME Typing, HooksInv, ReplaceMethod PROVE HooksInv'
<1>1. op # NoOp /\ op.kind = "add" /\ op.at = "replace"
  BY DEF ReplaceMethod, NoOp
<1>2. OpSelector \in Selectors /\ OpClass \in Classes
  BY <1>1, OpTypes
<1>3. /\ UNCHANGED <<defined, isa, forwarder, swizzledClasses, token, live>>
      /\ op'.kind = "none" /\ imp' = [imp EXCEPT ![OpClass][OpSelector] = Forward]
  BY DEF ReplaceMethod, NoOp
<1>4. /\ imp'[OpClass][OpSelector] = Forward
      /\ \A c \in Classes, s \in Selectors :
           imp'[c][s] = imp[c][s] \/ (imp'[c][s] = Forward /\ c = OpClass)
  BY <1>2, <1>3 DEF Typing, TypeOK
<1>5. ASSUME NEW t \in live
      PROVE  Lookup(imp', ClassOfSubject(token[t].subject)', token'[t].selector) = Forward
  <2>1. ClassOfSubject(token[t].subject)' = ClassOfSubject(token[t].subject) /\ token'[t] = token[t]
    BY <1>3 DEF ClassOfSubject
  <2>2. token[t].selector \in Selectors /\ ClassOfSubject(token[t].subject) \in Classes
    BY ClassOfSubjectType DEF Typing, Registered, Registration
  <2>3. CASE t = op.aspect
    <3>1. OpClass = ClassOfSubject(token[t].subject) /\ OpSelector = token[t].selector
      BY <2>3 DEF OpClass, OpSubject, OpSelector
    <3>2. Lookup(imp', OpClass, OpSelector) = Forward
      BY <1>2, <1>4, LookupOwn, NilAssumption
    <3> QED
      BY <2>1, <3>1, <3>2
  <2>4. CASE t # op.aspect
    <3>1. Lookup(imp, ClassOfSubject(token[t].subject), token[t].selector) = Forward
      BY <2>4 DEF HooksInv
    <3> QED
      BY <1>4, <2>1, <2>2, <3>1, ForwardStays
  <2> QED
    BY <2>3, <2>4
<1>6. forwarder[OpClass] = "aspects"
  BY <1>1 DEF HooksInv
<1> QED
  BY <1>3, <1>4, <1>5, <1>6, ZenonT(30) DEF HooksInv

LEMMA HooksInvNext ==
  ASSUME Typing, HooksInv, [Next]_vars, NothingRemoved'
  PROVE  HooksInv'
<1>0. op'.kind # "remove" /\ \A u \in Tokens : token'[u] \notin {Nil, Refused} => u \in live'
  BY DEF NothingRemoved
<1>1. live \subseteq Tokens /\ Nil \notin Tokens /\ \A u \in live : token[u] # Nil
  BY NilAssumption DEF Typing, TypeOK, Registered
<1>2. ASSUME NEW x, NEW s, NEW t \in Tokens, NEW option, AspectAdd(t, x, s, option) PROVE HooksInv'
  <2>1. /\ op = NoOp /\ token[t] = Nil /\ live' = live \cup {t} /\ op'.aspect = t /\ op'.at = "hookClass"
        /\ UNCHANGED <<defined, runtime>> /\ \A u \in Tokens \ {t} : token'[u] = token[u]
    BY <1>2 DEF AspectAdd, Typing, TypeOK
  <2>2. op.aspect = Nil
    BY <2>1 DEF NoOp
  <2>3. \A u \in live' : u # op'.aspect =>
          /\ u \in live /\ u # op.aspect /\ token'[u] = token[u]
          /\ ClassOfSubject(token[u].subject)' = ClassOfSubject(token[u].subject)
    BY <1>1, <2>1, <2>2 DEF ClassOfSubject
  <2> QED
    BY <2>1, <2>3, HooksInvFrame
<1>3. ASSUME NEW x, NEW s, NEW t \in Tokens, AspectAddFails(t, x, s) PROVE HooksInv'
  <2>1. /\ op = NoOp /\ op' = NoOp /\ token[t] = Nil /\ live' = live
        /\ UNCHANGED <<defined, runtime>> /\ \A u \in Tokens \ {t} : token'[u] = token[u]
    BY <1>3 DEF AspectAddFails, Typing, TypeOK
  <2>2. op.aspect = Nil /\ op'.kind = "none"
    BY <2>1 DEF NoOp
  <2>3. \A u \in live' : u # op'.aspect =>
          /\ u \in live /\ u # op.aspect /\ token'[u] = token[u]
          /\ ClassOfSubject(token[u].subject)' = ClassOfSubject(token[u].subject)
    BY <1>1, <2>1, <2>2 DEF ClassOfSubject
  <2> QED
    BY <2>1, <2>2, <2>3, HooksInvFrame
<1>4. ASSUME UNCHANGED <<defined, runtime, token, live, op>> PROVE HooksInv'
  <2>1. OpClass' = OpClass /\ \A u \in live : ClassOfSubject(token[u].subject)' = ClassOfSubject(token[u].subject)
    BY <1>4 DEF OpClass, OpSubject, ClassOfSubject
  <2> QED
    BY <1>4, <2>1, HooksInvFrame
<1>5. ASSUME NEW o \in Objects, Dealloc(o) PROVE HooksInv'
  <2>1. /\ UNCHANGED <<defined, imp, forwarder, swizzledClasses, token, op>> /\ (op # NoOp => OpSubject # o)
        /\ live' = {u \in live : token[u].subject # o}
        /\ isa'[o] = Nil /\ \A q \in Objects \ {o} : isa'[q] = isa[q]
    BY <1>5 DEF Dealloc, Typing, TypeOK
  <2>2. \A u \in live' : ClassOfSubject(token[u].subject)' = ClassOfSubject(token[u].subject)
    BY <2>1 DEF ClassOfSubject
  <2>3. op.kind = "add" => OpClass' = OpClass
    BY <2>1 DEF OpClass, OpSubject, ClassOfSubject, NoOp
  <2> QED
    BY <2>1, <2>2, <2>3, HooksInvFrame
<1>6. ASSUME NEW t, AspectRemove(t) PROVE FALSE
  BY <1>0, <1>6 DEF AspectRemove, RemoveAspect
<1>7. CASE RestoreMethod
  BY <1>0, <1>7 DEF RestoreMethod, Typing, OpTyped
<1>8. CASE CleanUp
  <2>1. op # NoOp /\ UNCHANGED token /\ live' = live \ {op.aspect}
    BY <1>8 DEF CleanUp, NoOp
  <2>2. op.aspect \in Tokens /\ token[op.aspect] \in Registration
    BY <2>1, OpTypes
  <2> QED
    BY <1>0, <2>1, <2>2, NilAssumption
<1>9. ASSUME NEW x \in Senders, Sending(x) \/ \E o \in Objects, s \in Selectors : Send(x, o, s)
      PROVE  HooksInv'
  <2>1. UNCHANGED <<defined, runtime, token, live>> /\ UNCHANGED op
    BY <1>0, <1>9, SendingFrame
  <2> QED
    BY <1>4, <2>1
<1>10. CASE UNCHANGED vars
  BY <1>4, <1>10 DEF vars
<1> QED
  BY <1>2, <1>3, <1>5, <1>6, <1>7, <1>8, <1>9, <1>10, HooksInvHookClass, HooksInvAddAlias,
     HooksInvReplaceMethod, Zenon DEF Next, LockHolder

LEMMA OriginalStays ==
  ASSUME UNCHANGED defined, NEW c, NEW s
  PROVE  Original(c, s)' = Original(c, s)
BY DEF Original, Definers

\* What a send ran stays known while aliases are only added and classes of objects
\* only moved to subclasses.
LEMMA ReachedStays ==
  ASSUME Typing, NEW x \in Senders, Reached(x), UNCHANGED defined,
         send[x].at # "idle" => send'[x].at # "idle", send'[x].result = send[x].result,
         send'[x].object = send[x].object, send'[x].selector = send[x].selector,
         \A c \in Classes, s \in Selectors : alias[c][s] # Nil => alias'[c][s] # Nil,
         send[x].at # "idle" => Up(isa[send[x].object]) \subseteq Up(isa'[send[x].object])
  PROVE  Reached(x)'
<1> DEFINE o == send[x].object
           q == send[x].selector
<1>1. CASE send[x].result \in {"none", "instead"}
  BY <1>1 DEF Reached
<1>2. ASSUME send[x].at # "idle", NEW d \in Up(isa[o]), alias[d][q] # Nil, send[x].result = Original(d, q)
      PROVE  Reached(x)'
  <2>1. isa[o] \in Classes /\ q \in Selectors
    BY <1>2, SendFields, Zenon
  <2>2. d \in Classes /\ d \in Up(isa'[o]) /\ alias'[d][q] # Nil
    BY <1>2, <2>1, UpClasses
  <2>3. Original(d, q)' = Original(d, q)
    BY OriginalStays
  <2> QED
    BY <1>2, <2>2, <2>3, ZenonT(30) DEF Reached
<1> QED
  BY <1>1, <1>2, ZenonT(30) DEF Reached

\* Aspects are only added: a send keeps what it found while others take steps.
LEMMA SendSafeFrame ==
  ASSUME Typing, NEW x \in Senders, SendSafe(x), send'[x] = send[x], UNCHANGED defined,
         \A c \in Classes : forwarder[c] = "aspects" => forwarder'[c] = "aspects",
         \A c \in Classes, s \in Selectors : alias[c][s] # Nil => alias'[c][s] # Nil,
         send[x].at # "idle" => Up(isa[send[x].object]) \subseteq Up(isa'[send[x].object]),
         Len(contents) <= Len(contents'),
         \A i \in 1..Len(contents) : contents[i] \subseteq contents'[i],
         \A i \in 1..Len(contents) : \A t \in contents[i] : token'[t] = token[t]
  PROVE  SendSafe(x)'
<1> DEFINE o == send[x].object
<1>1. send[x].at # "idle" => isa[o] \in Classes /\ send[x].selector \in Selectors
  BY SendFields, Zenon
<1>2. send[x].at # "idle" => Up(isa[o]) \subseteq Classes
  BY <1>1, UpClasses, Zenon
<1>3. send[x].at = "forward" => \E d \in Up(isa'[o]) : forwarder'[d] = "aspects"
  BY <1>2 DEF SendSafe
<1>4. send[x].at \in {"forward", "instead"} => Reaches(alias', isa'[o], send[x].selector)
  BY <1>1, <1>2 DEF SendSafe, Reaches
<1>5. send[x].at = "runInstead" => AspectsAt(send[x].containers, "instead")' # {}
  <2> SUFFICES ASSUME send[x].at = "runInstead" PROVE AspectsAt(send[x].containers, "instead")' # {}
    OBVIOUS
  <2>1. PICK t \in AspectsAt(send[x].containers, "instead") : TRUE
    BY DEF SendSafe
  <2>2. PICK i \in send[x].containers \ {0} : t \in contents[i] /\ token[t].position = "instead"
    BY <2>1 DEF AspectsAt
  <2>3. i \in 1..Len(contents)
    BY <2>2 DEF Typing, SendTyped, TypeOK
  <2>4. t \in contents'[i] /\ token'[t].position = "instead"
    BY <2>2, <2>3, Zenon
  <2> QED
    BY <2>2, <2>4 DEF AspectsAt
<1>6. Reached(x)'
  <2>1. Reached(x)
    BY DEF SendSafe
  <2> QED
    BY <2>1, ReachedStays, ZenonT(30)
<1> QED
  BY <1>3, <1>4, <1>5, <1>6, ZenonT(30) DEF SendSafe

LEMMA SendSafeLock ==
  ASSUME Typing, NEW x \in Senders, SendSafe(x), HookClass \/ AddAlias \/ ReplaceMethod
  PROVE  SendSafe(x)'
<1>1. UNCHANGED <<contents, token, send, defined>>
  BY DEF HookClass, AddAlias, ReplaceMethod, SwizzleClassInPlace
<1>2. op # NoOp
  BY DEF HookClass, AddAlias, ReplaceMethod, NoOp
<1>3. /\ OpSubject \in Subjects /\ OpClass \in Classes /\ OpSelector \in Selectors
      /\ OpClass \in Up(OpClass)
  BY <1>2, OpTypes, UpClasses
<1>4. contents \in Seq(SUBSET Tokens) /\ Len(contents) \in Nat
  BY DEF Typing, TypeOK
<1>5. CASE HookClass
  <2>1. alias' = alias /\ \A c \in Classes : forwarder[c] = "aspects" => forwarder'[c] = "aspects"
    BY <1>5 DEF HookClass, SwizzleClassInPlace, Typing, TypeOK
  <2>2. send[x].at # "idle" => Up(isa[send[x].object]) \subseteq Up(isa'[send[x].object])
    <3>1. CASE isa' = isa
      BY <3>1
    <3>2. CASE /\ ~Suffixed(OpClass) /\ OpSubject \in Objects
               /\ isa' = [isa EXCEPT ![OpSubject] = Subclass(OpClass)]
      <4>1. OpClass = isa[OpSubject] /\ Up(OpClass) \subseteq Up(Subclass(OpClass))
        BY <1>3, <3>2, UpSubclass DEF OpClass, ClassOfSubject
      <4>2. \A q \in Objects : Up(isa[q]) \subseteq Up(isa'[q])
        BY <3>2, <4>1 DEF Typing, TypeOK
      <4> QED
        BY <4>2 DEF Typing, SendTyped
    <3> QED
      BY <1>5, <3>1, <3>2 DEF HookClass
  <2> QED
    BY <1>1, <1>4, <2>1, <2>2, SendSafeFrame
<1>6. CASE AddAlias
  <2>1. UNCHANGED <<isa, forwarder>>
    BY <1>6 DEF AddAlias
  <2>2. \A c \in Classes, s \in Selectors : alias[c][s] # Nil => alias'[c][s] # Nil
    <3>1. CASE alias' = alias
      BY <3>1
    <3>2. CASE /\ Lookup(alias, OpClass, OpSelector) = Nil
               /\ alias' = [alias EXCEPT ![OpClass][OpSelector] = Lookup(imp, OpClass, OpSelector)]
      <4>1. alias[OpClass][OpSelector] = Nil
        BY <1>3, <3>2, LookupOwn
      <4>2. \A c \in Classes, s \in Selectors : alias'[c][s] = alias[c][s] \/ (c = OpClass /\ s = OpSelector)
        BY <1>3, <3>2 DEF Typing, TypeOK
      <4> QED
        BY <4>1, <4>2
    <3> QED
      BY <1>6, <3>1, <3>2 DEF AddAlias
  <2> QED
    BY <1>1, <1>4, <2>1, <2>2, SendSafeFrame
<1>7. CASE ReplaceMethod
  <2>1. UNCHANGED <<isa, forwarder, alias>>
    BY <1>7 DEF ReplaceMethod
  <2> QED
    BY <1>1, <1>4, <2>1, SendSafeFrame
<1> QED
  BY <1>5, <1>6, <1>7

\* aspect_add adds to a container and registers an aspect that no container has.
LEMMA SendSafeAdd ==
  ASSUME Typing, NEW y \in Senders, SendSafe(y),
         NEW t \in Tokens, NEW x \in Subjects, NEW s \in Selectors,
         \/ \E option \in Options : AspectAdd(t, x, s, option)
         \/ AspectAddFails(t, x, s)
  PROVE  SendSafe(y)'
<1>1. /\ token[t] = Nil /\ UNCHANGED <<runtime, send, defined>>
      /\ \A u \in Tokens \ {t} : token'[u] = token[u]
      /\ \E aspects : PutInContainer(x, s, aspects)
  BY Zenon DEF AspectAdd, AspectAddFails, Typing, TypeOK
<1>2. contents \in Seq(SUBSET Tokens) /\ Len(contents) \in Nat /\ container[<<x, s>>] \in 0..Len(contents)
  BY DEF Typing, TypeOK
<1>3. \A i \in 1..Len(contents) : \A u \in contents[i] : token'[u] = token[u]
  <2>1. ASSUME NEW i \in 1..Len(contents), NEW u \in contents[i] PROVE u \in Tokens \ {t}
    <3>1. contents[i] \subseteq Tokens
      BY <1>2, <2>1
    <3>2. token[u] \in Registration
      BY <2>1, Zenon DEF Typing, Registered
    <3> QED
      BY <1>1, <2>1, <3>1, <3>2, NilAssumption, Zenon
  <2> QED
    BY <1>1, <2>1, Zenon
<1>4. PICK aspects : PutInContainer(x, s, aspects)
  BY <1>1
<1>5. Len(contents) <= Len(contents') /\ \A i \in 1..Len(contents) : contents[i] \subseteq contents'[i]
  <2>1. CASE container[<<x, s>>] = 0
    <3>1. contents' = Append(contents, aspects)
      BY <1>4, <2>1 DEF PutInContainer
    <3> QED
      BY <1>2, <3>1
  <2>2. CASE container[<<x, s>>] # 0
    <3>1. contents' = [contents EXCEPT ![container[<<x, s>>]] = @ \cup aspects]
      BY <1>4, <2>2 DEF PutInContainer
    <3>2. Len(contents') = Len(contents)
      BY <1>2, <3>1
    <3> QED
      BY <1>2, <2>2, <3>1, <3>2
  <2> QED
    BY <2>1, <2>2
<1> QED
  BY <1>1, <1>3, <1>5, SendSafeFrame, ZenonT(30)

\* The steps of a send itself.
LEMMA SendSafeSend ==
  ASSUME Typing, AliasInv, HooksInv, NEW x \in Senders, NEW o \in Objects, NEW s \in Selectors, Send(x, o, s)
  PROVE  SendSafe(x)'
<1>1. /\ UNCHANGED <<runtime, registry>> /\ isa[o] # Nil /\ Lookup(imp, isa[o], s) = Forward
      /\ send' = [send EXCEPT ![x] = [NoSend EXCEPT !.at = "forward", !.object = o, !.selector = s]]
  BY DEF Send
<1>2. /\ send'[x].at = "forward" /\ send'[x].object = o /\ send'[x].selector = s
      /\ send'[x].result = "none"
  BY <1>1 DEF NoSend, Typing, SendTyped
<1>3. isa[o] \in Classes /\ Forward # Nil
  BY <1>1, NilAssumption DEF Typing, TypeOK
<1>4. PICK d \in Up(isa[o]) : imp[d][s] = Forward
  BY <1>1, <1>3, LookupFinds, Zenon
<1>5. d \in Classes /\ Up(d) \subseteq Up(isa[o])
  BY <1>3, UpClasses, UpOrder
<1>6. forwarder[d] = "aspects"
  BY <1>4, <1>5, ZenonT(30) DEF HooksInv
<1>7. Reaches(alias, isa[o], s)
  BY <1>4, <1>5 DEF AliasInv, Reaches
<1> QED
  BY <1>1, <1>2, <1>6, <1>7 DEF SendSafe, Reached

LEMMA SendSafeSending ==
  ASSUME Typing, AliasKept, HooksInv, NEW x \in Senders, SendSafe(x), Sending(x), op'.kind # "remove"
  PROVE  SendSafe(x)'
<1> DEFINE o == send[x].object
           s == send[x].selector
<1>0. send \in [Senders -> SendRecord] /\ send[x] \in SendRecord
  BY DEF Typing, SendTyped
<1>1. send[x].at # "idle" => isa[o] \in Classes /\ s \in Selectors
  BY SendFields, Zenon
<1>a. ASSUME send[x].at # "idle", send'[x].at # "idle", send'[x].object = o, send'[x].selector = s,
             send'[x].result = send[x].result, UNCHANGED <<isa, alias, defined>>
      PROVE  Reached(x)'
  <2>1. Reached(x)
    BY DEF SendSafe
  <2> QED
    BY <1>a, <2>1, ReachedStays, ZenonT(30)
<1>b. ASSUME send' = [send EXCEPT ![x] = NoSend] PROVE SendSafe(x)'
  <2>1. send'[x].at = "idle" /\ send'[x].result = "none"
    BY <1>0, <1>b DEF NoSend
  <2> QED
    BY <2>1 DEF SendSafe, Reached
<1>2. CASE ForwardMessage(x)
  <2>1. send[x].at = "forward" /\ UNCHANGED <<runtime, registry, defined>>
    BY <1>2 DEF ForwardMessage
  <2>2. PICK d \in Up(isa[o]) : forwarder[d] = "aspects"
    BY <2>1, ZenonT(30) DEF SendSafe
  <2>3. ForwardInvocation(isa[o]) # "original"
    BY <1>1, <2>1, <2>2, AspectsForward, ZenonT(30)
  <2>4. PICK ids : Invoke(x, AspectsAt(ids, "before"), [send[x] EXCEPT !.at = "instead", !.containers = ids])
    BY <1>2, <2>3, Zenon DEF ForwardMessage
  <2>5. /\ send'[x].at = "instead" /\ send'[x].object = o /\ send'[x].selector = s
        /\ send'[x].result = send[x].result
    BY <1>0, <2>4 DEF Invoke, SendRecord
  <2>6. Reached(x)'
    BY <1>a, <2>1, <2>5
  <2> QED
    BY <2>1, <2>5, <2>6, ZenonT(30) DEF SendSafe, Reaches
<1>3. CASE InsteadOrOriginal(x)
  <2> DEFINE m == Lookup(alias, isa[o], s)
  <2>1. send[x].at = "instead" /\ UNCHANGED <<runtime, registry, defined>>
    BY <1>3 DEF InsteadOrOriginal
  <2>2. PICK d \in Up(isa[o]) : alias[d][s] # Nil /\ m = alias[d][s]
    BY <1>1, <2>1, LookupFinds DEF SendSafe, Reaches
  <2>3. d \in Classes
    BY <1>1, <2>1, UpClasses
  <2>4. m = Original(d, s) /\ m # Nil
    BY <1>1, <2>1, <2>2, <2>3 DEF AliasKept
  <2>5. CASE AspectsAt(send[x].containers, "instead") # {}
    <3>1. send' = [send EXCEPT ![x].at = "runInstead"]
      BY <1>3, <2>5 DEF InsteadOrOriginal
    <3>2. /\ send'[x].at = "runInstead" /\ send'[x].containers = send[x].containers
          /\ send'[x].result = send[x].result /\ send'[x].object = o /\ send'[x].selector = s
      BY <1>0, <3>1 DEF SendRecord
    <3>3. AspectsAt(send[x].containers, "instead")' = AspectsAt(send'[x].containers, "instead")
      BY <2>1, <3>2 DEF AspectsAt
    <3>4. Reached(x)'
      BY <1>a, <2>1, <3>2
    <3> QED
      BY <2>1, <2>5, <3>2, <3>3, <3>4 DEF SendSafe, AspectsAt
  <2>6. CASE AspectsAt(send[x].containers, "instead") = {}
    <3>1. send' = [send EXCEPT ![x].at = "after", ![x].result = m]
      BY <1>3, <2>4, <2>6 DEF InsteadOrOriginal
    <3> HIDE DEF m
    <3>2. /\ send'[x].at = "after" /\ send'[x].result = m
          /\ send'[x].object = o /\ send'[x].selector = s
      BY <1>0, <3>1 DEF SendRecord
    <3>3. \A q : Original(d, q)' = Original(d, q)
      <4>1. UNCHANGED defined
        BY <2>1
      <4> QED
        BY <4>1, OriginalStays, Zenon
    <3>4. Reached(x)'
      BY <2>1, <2>2, <2>4, <3>2, <3>3, ZenonT(30) DEF Reached
    <3> QED
      BY <3>2, <3>4 DEF SendSafe
  <2> QED
    BY <2>5, <2>6
<1>4. CASE RunInstead(x)
  <2> DEFINE aspects == AspectsAt(send[x].containers, "instead")
  <2>1. aspects # {}
    BY <1>4 DEF RunInstead, SendSafe
  <2>2. Invoke(x, aspects, [send[x] EXCEPT !.at = "after", !.result = "instead"])
    BY <1>4, <2>1, Zenon DEF RunInstead
  <2> HIDE DEF aspects
  <2>3. send'[x].at = "after" /\ send'[x].result = "instead"
    BY <1>0, <2>2 DEF Invoke, SendRecord
  <2> QED
    BY <2>3 DEF SendSafe, Reached
<1>5. CASE RunAfter(x)
  <2>1. /\ send'[x].at \in {"raise", "remove"} /\ send'[x].result = send[x].result
        /\ send'[x].object = o /\ send'[x].selector = s
    BY <1>0, <1>5 DEF RunAfter, Invoke, SendRecord
  <2>2. send[x].at = "after" /\ UNCHANGED <<isa, alias, defined>>
    BY <1>5 DEF RunAfter
  <2>3. Reached(x)'
    BY <1>a, <2>1, <2>2
  <2> QED
    BY <2>1, <2>3 DEF SendSafe
<1>6. CASE RemoveNoted(x)
  <2>1. ASSUME NEW t, RemoveAspect(t, x) PROVE FALSE
    BY <2>1, Zenon DEF RemoveAspect
  <2>2. ASSUME NEW t, send[x].at = "remove", send' = [send EXCEPT ![x].remove = @ \ {t}],
               UNCHANGED <<isa, alias, defined>>
        PROVE  SendSafe(x)'
    <3>1. /\ send'[x].at = "remove" /\ send'[x].result = send[x].result
          /\ send'[x].object = o /\ send'[x].selector = s
      BY <1>0, <2>2 DEF SendRecord
    <3>2. Reached(x)'
      BY <1>a, <2>2, <3>1
    <3> QED
      BY <3>1, <3>2 DEF SendSafe
  <2> QED
    BY <1>6, <1>b, <2>1, <2>2, Zenon DEF RemoveNoted
<1>7. CASE Raise(x)
  BY <1>7, <1>b DEF Raise
<1> QED
  BY <1>2, <1>3, <1>4, <1>5, <1>6, <1>7 DEF Sending

\* A sender changes the record of its own send only.
LEMMA OtherSends ==
  ASSUME Typing, NEW x \in Senders, Sending(x) \/ \E o \in Objects, s \in Selectors : Send(x, o, s),
         NEW y \in Senders \ {x}
  PROVE  send'[y] = send[y]
<1>0. send \in [Senders -> SendRecord]
  BY DEF Typing, SendTyped
<1>1. CASE ForwardMessage(x)
  BY <1>0, <1>1 DEF ForwardMessage, Invoke
<1>2. CASE InsteadOrOriginal(x)
  BY <1>0, <1>2 DEF InsteadOrOriginal
<1>3. CASE RunInstead(x) \/ RunAfter(x) \/ Raise(x)
  BY <1>0, <1>3 DEF RunInstead, RunAfter, Raise, Invoke
<1>4. CASE RemoveNoted(x)
  BY <1>0, <1>4 DEF RemoveNoted
<1>5. ASSUME NEW o, NEW s, Send(x, o, s) PROVE send'[y] = send[y]
  BY <1>0, <1>5, Zenon DEF Send
<1> QED
  BY <1>1, <1>2, <1>3, <1>4, <1>5 DEF Sending

LEMMA SendsInvNext ==
  ASSUME Typing, AliasInv, AliasKept, HooksInv, SendsInv, [Next]_vars, NothingRemoved'
  PROVE  SendsInv'
<1> SUFFICES ASSUME NEW y \in Senders PROVE SendSafe(y)'
  BY DEF SendsInv
<1>0. op'.kind # "remove" /\ \A u \in Tokens : token'[u] \notin {Nil, Refused} => u \in live'
  BY DEF NothingRemoved
<1>1. SendSafe(y)
  BY DEF SendsInv
<1>2. contents \in Seq(SUBSET Tokens) /\ Len(contents) \in Nat
  BY DEF Typing, TypeOK
<1>3. ASSUME NEW x \in Hookable, NEW s \in Selectors, NEW t \in Tokens,
             \/ \E option \in Options : AspectAdd(t, x, s, option)
             \/ AspectAddFails(t, x, s)
      PROVE  SendSafe(y)'
  <2>1. x \in Subjects
    BY DEF Hookable, Subjects
  <2> QED
    BY <1>1, <1>3, <2>1, SendSafeAdd
<1>4. ASSUME UNCHANGED <<runtime, token, contents, defined>>, send'[y] = send[y] PROVE SendSafe(y)'
  BY <1>1, <1>2, <1>4, SendSafeFrame
<1>5. ASSUME NEW o \in Objects, Dealloc(o) PROVE SendSafe(y)'
  <2>0. isa \in [Objects -> Classes \cup {Nil}]
    BY Zenon DEF Typing, TypeOK
  <2>1. /\ UNCHANGED <<alias, forwarder, token, contents, send, defined>>
        /\ send[y].at # "idle" => send[y].object # o
        /\ \A q \in Objects \ {o} : isa'[q] = isa[q]
    BY <1>5, <2>0 DEF Dealloc
  <2>2. send[y].at # "idle" => isa'[send[y].object] = isa[send[y].object]
    BY <2>1 DEF Typing, SendTyped
  <2> QED
    BY <1>1, <1>2, <2>1, <2>2, SendSafeFrame
<1>6. ASSUME NEW t, AspectRemove(t) PROVE FALSE
  BY <1>0, <1>6 DEF AspectRemove, RemoveAspect
<1>7. CASE RestoreMethod
  BY <1>0, <1>7 DEF RestoreMethod, Typing, OpTyped
<1>8. CASE CleanUp
  <2>1. op # NoOp /\ UNCHANGED token /\ live' = live \ {op.aspect}
    BY <1>8 DEF CleanUp, NoOp
  <2>2. op.aspect \in Tokens /\ token[op.aspect] \in Registration
    BY <2>1, OpTypes
  <2> QED
    BY <1>0, <2>1, <2>2, NilAssumption
<1>9. ASSUME NEW x \in Senders, Sending(x) \/ \E o \in Objects, s \in Selectors : Send(x, o, s)
      PROVE  SendSafe(y)'
  <2>1. UNCHANGED <<runtime, token, contents, defined>>
    BY <1>0, <1>9, SendingFrame
  <2>2. CASE x = y
    BY <1>0, <1>1, <1>9, <2>2, SendSafeSend, SendSafeSending
  <2>3. CASE x # y
    BY <1>4, <1>9, <2>1, <2>3, OtherSends
  <2> QED
    BY <2>2, <2>3
<1>10. CASE UNCHANGED vars
  BY <1>4, <1>10 DEF vars
<1> QED
  BY <1>1, <1>3, <1>5, <1>6, <1>7, <1>8, <1>9, <1>10, SendSafeLock, Zenon DEF Next, LockHolder

LEMMA AddingInvInit == Init => AddingInv
<1> SUFFICES ASSUME Init PROVE AddingInv
  OBVIOUS
<1>1. \A x \in Senders : send[x].at = "idle" /\ send[x].result = "none"
  BY DEF Init, NoSend
<1> QED
  BY <1>1, HooksInvInit DEF AddingInv, SendsInv, SendSafe, Reached

LEMMA AddingInvNext == ASSUME Typing, AliasInv, AliasKept, AddingInv, [Next]_vars PROVE AddingInv'
<1> SUFFICES ASSUME NothingRemoved' PROVE HooksInv' /\ SendsInv'
  BY DEF AddingInv
<1>1. HooksInv /\ SendsInv
  BY WhileNothingRemoved DEF AddingInv
<1> QED
  BY <1>1, HooksInvNext, SendsInvNext

\* A class that is hooked completely forwards the selector of any object that
\* inherits the method from it.
LEMMA HookedIntercepted ==
  ASSUME Typing, HooksInv, op = NoOp, NEW t \in live, NEW o \in Objects, isa[o] # Nil, Concerns(t, o)
  PROVE  Intercepted(o, token[t].selector)
<1> DEFINE x == token[t].subject
           s == token[t].selector
           cs == Definers(ClassOf[o], s)
<1>0. /\ isa[o] \in Classes /\ isa[o][1] = ClassOf[o] /\ ClassOf[o] \in Names
      /\ s \in Selectors /\ Forward # Nil
  <2>1. isa[o] \in Classes /\ isa[o][1] = ClassOf[o]
    BY Zenon DEF Typing, TypeOK, HooksInv
  <2>2. token[t] \in Registration
    BY Zenon DEF Typing, Registered
  <2>3. s \in Selectors
    BY <2>2 DEF Registration
  <2> QED
    BY <2>1, <2>3, AspectsAssumption, NilAssumption
<1>1. Lookup(imp, ClassOfSubject(x), s) = Forward
  <2>1. t # op.aspect
    <3>1. op.aspect = Nil /\ t \in Tokens
      BY Zenon DEF NoOp, Typing, TypeOK
    <3> QED
      BY <3>1, NilAssumption
  <2> QED
    BY <2>1, Zenon DEF HooksInv
<1>2. Lookup(imp, isa[o], s) = Forward
  <2>1. CASE x = o
    BY <1>1, <2>1 DEF ClassOfSubject
  <2>2. CASE x \in Up(isa[o]) /\ Nearest(cs) \in Up(x)
    <3>1. x \in Classes /\ ClassOfSubject(x) = x
      BY <1>0, <2>2, UpClasses, NilAssumption DEF ClassOfSubject
    <3>2. ASSUME NEW d \in Up(isa[o]), imp[d][s] \notin {Nil, Forward} PROVE d \in Up(x)
      <4>1. d \in Classes /\ d[1] \in Above[ClassOf[o]]
        BY <1>0, UpClasses, UpOrder
      <4>2. ~Suffixed(d) /\ <<d[1], s>> \in defined
        BY <1>0, <3>2, <4>1 DEF HooksInv
      <4>3. d \in cs
        BY <4>1, <4>2, ClassKinds DEF Definers
      <4>4. Base(ClassOf[o]) \in Classes /\ cs \in SUBSET Up(Base(ClassOf[o]))
        BY <1>0, BaseClass, Zenon DEF Definers, Up
      <4> HIDE DEF cs
      <4>5. d \in Up(Nearest(cs))
        BY <4>3, <4>4, NearestIn
      <4> QED
        BY <2>2, <3>1, <4>5, UpOrder
    <3> QED
      BY <1>0, <1>1, <2>2, <3>1, <3>2, ForwardBelow
  <2> QED
    BY <2>1, <2>2, Zenon DEF Concerns
<1>3. PICK d \in Up(isa[o]) : imp[d][s] = Forward
  BY <1>0, <1>2, LookupFinds
<1>4. forwarder[d] = "aspects"
  BY <1>0, <1>3, UpClasses, Zenon DEF HooksInv
<1> QED
  BY <1>0, <1>2, <1>4, AspectsForward, ZenonT(30) DEF Intercepted

\* While aspects are only added, every send ends in an aspect instead of the
\* method, or in the implementation that the program gives the receiver's class or
\* the superclass whose alias it found, however it overlaps with aspect_add.
THEOREM AddingAlwaysSafe == Spec => []AddingIsSafe
<1>1. Init => Typing /\ AliasInv /\ AddingInv
  BY TypingInit, AliasInvInit, AddingInvInit
<1>2. Typing /\ AliasInv /\ AliasKept /\ AddingInv /\ [Next]_vars => (Typing /\ AliasInv /\ AddingInv)'
  BY TypingNext, AliasInvNext, AddingInvNext
<1>3. AddingInv => AddingIsSafe
  <2> SUFFICES ASSUME AddingInv, NothingRemoved, NEW x \in Senders,
                      send[x].result \notin {"none", "instead"}
               PROVE  send[x].result \in AliasedOriginals(send[x].object, send[x].selector)
    BY DEF AddingIsSafe
  <2>1. PICK d \in Up(isa[send[x].object]) :
          alias[d][send[x].selector] # Nil /\ send[x].result = Original(d, send[x].selector)
    BY Zenon DEF AddingInv, SendsInv, SendSafe, Reached
  <2> QED
    BY <2>1, Zenon DEF AliasedOriginals
<1> QED
  BY <1>1, <1>2, <1>3, AliasAlwaysKept, PTL DEF Spec

\* While aspects are only added, every aspect that is added completely is
\* called for the messages it concerns, whatever is hooked after it.
THEOREM AddingAlwaysKeepsHooks == Spec => []AddingKeepsHooks
<1>1. Init => Typing /\ AliasInv /\ AddingInv
  BY TypingInit, AliasInvInit, AddingInvInit
<1>2. Typing /\ AliasInv /\ AliasKept /\ AddingInv /\ [Next]_vars => (Typing /\ AliasInv /\ AddingInv)'
  BY TypingNext, AliasInvNext, AddingInvNext
<1>3. Typing /\ AddingInv => AddingKeepsHooks
  BY HookedIntercepted DEF AddingInv, AddingKeepsHooks, HooksRemain
<1> QED
  BY <1>1, <1>2, <1>3, AliasAlwaysKept, PTL DEF Spec
=============================================================================
