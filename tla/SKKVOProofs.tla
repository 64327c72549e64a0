----------------------------- MODULE SKKVOProofs -----------------------------
(***************************************************************************)
(* Proofs about SKKVO for any objects, classes, observers and names.  The  *)
(* invariant behind them: an object with a registration has the class made *)
(* at run time, and that class implements the setter of the key.           *)
(***************************************************************************)
EXTENDS SKKVO, SequenceTheorems, WellFoundedInduction, TLAPS

\* A leaf that names no prover is tried with SMT, with Zenon, and at length with
\* SMT again.
USE SMT, Zenon, SMTT(30)

\* RemoveAt takes one element out and keeps the order of the others.
LEMMA RemoveAtFacts ==
  ASSUME NEW S, NEW s \in Seq(S), NEW i \in DOMAIN s
  PROVE  /\ RemoveAt(s, i) \in Seq(S)
         /\ Len(RemoveAt(s, i)) = Len(s) - 1
         /\ \A j \in 1..(Len(s) - 1) :
              RemoveAt(s, i)[j] = IF j < i THEN s[j] ELSE s[j + 1]
<1> DEFINE a == SubSeq(s, 1, i - 1)
           z == SubSeq(s, i + 1, Len(s))
<1>1. Len(s) \in Nat /\ i \in 1..Len(s) /\ \A j \in 1..Len(s) : s[j] \in S
  OBVIOUS
<1>2. /\ a \in Seq(S) /\ Len(a) = i - 1
      /\ \A j \in 1..(i - 1) : a[j] = s[j]
  <2>1. \A j \in 1..(i - 1) : s[j] \in S  BY <1>1
  <2> QED  BY <1>1, <2>1, SubSeqProperties, Z3
<1>3. /\ z \in Seq(S) /\ Len(z) = Len(s) - i
      /\ \A j \in 1..(Len(s) - i) : z[j] = s[i + j]
  <2>1. \A j \in (i + 1)..Len(s) : s[j] \in S  BY <1>1
  <2> QED  BY <1>1, <2>1, SubSeqProperties, Z3
<1> HIDE DEF a, z
<1> DEFINE c == a \o z
<1>4. /\ c \in Seq(S) /\ Len(c) = Len(a) + Len(z)
      /\ \A j \in 1..(Len(a) + Len(z)) :
           c[j] = IF j <= Len(a) THEN a[j] ELSE z[j - Len(a)]
  BY <1>2, <1>3, ConcatProperties, Zenon
<1>5. RemoveAt(s, i) = c  BY DEF RemoveAt, a, z
<1> HIDE DEF c
<1>6. ASSUME NEW j \in 1..(Len(s) - 1)
      PROVE  c[j] = IF j < i THEN s[j] ELSE s[j + 1]
  <2>0. j \in 1..(Len(a) + Len(z))  BY <1>1, <1>2, <1>3
  <2>1. CASE j < i
    <3>1. j <= Len(a) /\ j \in 1..(i - 1)  BY <1>1, <1>2, <2>1
    <3> QED  BY <1>2, <1>4, <2>0, <2>1, <3>1
  <2>2. CASE ~(j < i)
    <3>1. j - Len(a) \in 1..(Len(s) - i) /\ ~(j <= Len(a))  BY <1>1, <1>2, <2>2
    <3>2. z[j - Len(a)] = s[i + (j - Len(a))]  BY <1>3, <3>1
    <3>3. i + (j - Len(a)) = j + 1  BY <1>1, <1>2
    <3>4. c[j] = z[j - Len(a)]  BY <1>4, <2>0, <3>1
    <3> QED  BY <2>2, <3>2, <3>3, <3>4
  <2> QED  BY <2>1, <2>2
<1>7. Len(c) = Len(s) - 1  BY <1>1, <1>2, <1>3, <1>4
<1> QED  BY <1>4, <1>5, <1>6, <1>7

\* sk_removeObserver: changes nothing or takes out one registration that it found.
LEMMA WithoutFacts ==
  ASSUME NEW infos \in Seq(Info), NEW b, NEW key
  PROVE  \/ Matching(infos, b, key) = {} /\ Without(infos, b, key) = infos
         \/ \E i \in Matching(infos, b, key) : Without(infos, b, key) = RemoveAt(infos, i)
<1> DEFINE found == Matching(infos, b, key)
<1>1. found \subseteq Nat  BY DEF Matching
<1>2. CASE found = {}  BY <1>2 DEF Without
<1>3. CASE found # {}
  <2>1. \E x \in found : \A y \in found : ~(<<y, x>> \in OpToRel(<, Nat))
    BY <1>1, <1>3, NatLessThanWellFounded, WFMin, Zenon
  <2>2. \E x \in found : \A y \in found : x <= y
    <3>1. PICK x \in found : \A y \in found : ~(<<y, x>> \in OpToRel(<, Nat))  BY <2>1, Zenon
    <3>2. \A y \in found : ~(y < x)  BY <1>1, <3>1, Zenon DEF OpToRel
    <3> QED  BY <1>1, <3>2
  <2> DEFINE least == CHOOSE i \in found : \A j \in found : i <= j
  <2>3. least \in found  BY <2>2
  <2>4. Without(infos, b, key) = RemoveAt(infos, least)  BY <1>3 DEF Without
  <2> QED  BY <2>3, <2>4, Zenon
<1> QED  BY <1>2, <1>3

\* Weak references: the registrations stay, and none refers to the observer.
LEMMA ClearedFacts ==
  ASSUME NEW infos \in Seq(Info), NEW b \in Observers, NEW key
  PROVE  /\ Cleared(infos, b) \in Seq(Info)
         /\ Len(Cleared(infos, b)) = Len(infos)
         /\ DOMAIN Cleared(infos, b) = DOMAIN infos
         /\ \A i \in DOMAIN infos :
              /\ Cleared(infos, b)[i].reg = infos[i].reg
              /\ Cleared(infos, b)[i].key = infos[i].key
              /\ Cleared(infos, b)[i].observer =
                   IF infos[i].observer = b THEN Nil ELSE infos[i].observer
         /\ Without(Cleared(infos, b), b, key) = Cleared(infos, b)
<1> DEFINE c == Cleared(infos, b)
           e(i) == IF infos[i].observer = b THEN [infos[i] EXCEPT !.observer = Nil] ELSE infos[i]
<1>1. Len(infos) \in Nat /\ DOMAIN infos = 1..Len(infos)
  OBVIOUS
<1>2. ASSUME NEW i \in DOMAIN infos
      PROVE  /\ e(i) \in Info /\ e(i).reg = infos[i].reg /\ e(i).key = infos[i].key
             /\ e(i).observer = IF infos[i].observer = b THEN Nil ELSE infos[i].observer
  <2>1. infos[i] \in Info  BY <1>2
  <2> QED  BY <2>1 DEF Info
<1>3. c = [i \in 1..Len(infos) |-> e(i)]  BY <1>1 DEF Cleared
<1> HIDE DEF e
<1>4. c \in Seq(Info) /\ Len(c) = Len(infos) /\ DOMAIN c = DOMAIN infos
  BY <1>1, <1>2, <1>3
<1>5. \A i \in DOMAIN infos : c[i] = e(i)  BY <1>1, <1>3
<1>6. \A i \in DOMAIN infos : c[i].observer # b
  BY <1>2, <1>5, KVOAssumption DEF KVOAssumption
<1>7. Matching(c, b, key) = {}  BY <1>4, <1>6 DEF Matching
<1>8. Without(c, b, key) = c  BY <1>7 DEF Without
<1> QED  BY <1>2, <1>4, <1>5, <1>8

\* What the other steps need of sk_removeObserver: each registration that is left
\* was there, and each one of another observer is still there.
LEMMA WithoutKeeps ==
  ASSUME NEW infos \in Seq(Info), NEW b, NEW key
  PROVE  /\ Without(infos, b, key) \in Seq(Info)
         /\ \A j \in DOMAIN Without(infos, b, key) :
              \E i \in DOMAIN infos : Without(infos, b, key)[j] = infos[i]
         /\ \A i \in DOMAIN infos : infos[i].observer # b =>
              \E j \in DOMAIN Without(infos, b, key) : Without(infos, b, key)[j] = infos[i]
<1> DEFINE w == Without(infos, b, key)
<1>1. CASE w = infos  BY <1>1
<1>2. CASE \E i \in Matching(infos, b, key) : w = RemoveAt(infos, i)
  <2>1. PICK k \in Matching(infos, b, key) : w = RemoveAt(infos, k)  BY <1>2
  <2>2. k \in DOMAIN infos /\ infos[k].observer = b  BY <2>1 DEF Matching
  <2>3. /\ w \in Seq(Info) /\ Len(w) = Len(infos) - 1
        /\ \A j \in 1..(Len(infos) - 1) : w[j] = IF j < k THEN infos[j] ELSE infos[j + 1]
    BY <2>1, <2>2, RemoveAtFacts
  <2> HIDE DEF w
  <2>4. DOMAIN w = 1..(Len(infos) - 1) /\ DOMAIN infos = 1..Len(infos) /\ Len(infos) \in Nat
    BY <2>3
  <2>5. ASSUME NEW j \in DOMAIN w PROVE \E i \in DOMAIN infos : w[j] = infos[i]
    <3>1. j \in DOMAIN infos /\ j + 1 \in DOMAIN infos  BY <2>4
    <3> QED  BY <2>3, <2>4, <3>1
  <2>6. ASSUME NEW i \in DOMAIN infos, infos[i].observer # b
        PROVE  \E j \in DOMAIN w : w[j] = infos[i]
    <3>1. i # k  BY <2>2, <2>6
    <3>2. CASE i < k
      <4>1. i \in DOMAIN w /\ w[i] = infos[i]  BY <2>2, <2>3, <2>4, <3>2
      <4> QED  BY <4>1
    <3>3. CASE i > k
      <4>1. i - 1 \in DOMAIN w /\ w[i - 1] = infos[i]  BY <2>2, <2>3, <2>4, <3>3
      <4> QED  BY <4>1
    <3> QED  BY <2>2, <2>4, <3>1, <3>2, <3>3
  <2> QED  BY <2>3, <2>5, <2>6, Zenon DEF w
<1> QED  BY <1>1, <1>2, WithoutFacts

\* A registration of another observer than b is in the array w too.
OthersKept(infos, b, w) ==
  \A i \in DOMAIN infos : infos[i].observer # b => \E j \in DOMAIN w : w[j] = infos[i]

\* A registration of another observer survives sk_removeObserver:.
LEMMA WithoutKeepsOthers ==
  ASSUME NEW infos \in Seq(Info), NEW b, NEW key
  PROVE  OthersKept(infos, b, Without(infos, b, key))
BY WithoutKeeps DEF OthersKept
-----------------------------------------------------------------------------
\* An object has its original class or the one made from it, and the one made
\* from it, with the setter of the key, as soon as it has a registration.
Swizzled ==
  \A o \in Objects :
    /\ isa[o].base = ClassOf[o] /\ isa[o].prefixes \in {0, 1}
    /\ \A i \in DOMAIN observers[o] :
         isa[o].prefixes = 1 /\ <<isa[o], observers[o][i].key.name>> \in methods

KVOInv == TypeOK /\ Swizzled

\* It holds before the first call.
LEMMA KVOInit == Init => KVOInv
<1> SUFFICES ASSUME Init PROVE KVOInv  OBVIOUS
<1> USE KVOAssumption DEF KVOAssumption
<1>1. isa \in [Objects -> Class] /\ classes \subseteq Class  BY DEF Init, Class
<1>2. methods \subseteq Class \X Names
  <2>1. ASSUME NEW m \in methods PROVE m \in Class \X Names
    <3>1. PICK c \in Classes : m \in {<<[base |-> c, prefixes |-> 0], x>> : x \in Settable[c]}
      BY <2>1 DEF Init
    <3>2. PICK x \in Settable[c] : m = <<[base |-> c, prefixes |-> 0], x>>  BY <3>1
    <3>3. x \in Names /\ [base |-> c, prefixes |-> 0] \in Class  BY DEF Class
    <3> QED  BY <3>2, <3>3
  <2> QED  BY <2>1
<1>3. \A o \in Objects : observers[o] = <<>> /\ DOMAIN observers[o] = {}  BY DEF Init
<1>4. observers \in [Objects -> Seq(Info)]  BY DEF Init
<1>5. value \in [Objects -> [Names -> Values \cup {Nil}]]  BY DEF Init
<1>6. alive \subseteq Observers /\ sent \subseteq Notification /\ delivered \subseteq sent /\ calls \in Nat
  BY DEF Init
<1>7. TypeOK  BY <1>1, <1>2, <1>3, <1>4, <1>5, <1>6 DEF TypeOK
<1>8. \A o \in Objects : isa[o].base = ClassOf[o] /\ isa[o].prefixes \in {0, 1}  BY DEF Init
<1> QED  BY <1>3, <1>7, <1>8 DEF KVOInv, Swizzled

\* The class that sk_addObserver: gives an object has one prefix.
LEMMA ObservedClassFacts ==
  ASSUME KVOInv, NEW o \in Objects
  PROVE  /\ ObservedClass(o) \in Class
         /\ ObservedClass(o).base = ClassOf[o] /\ ObservedClass(o).prefixes = 1
         /\ isa[o].prefixes = 1 => ObservedClass(o) = isa[o]
<1>1. isa[o] \in Class /\ isa[o].base = ClassOf[o] /\ isa[o].prefixes \in {0, 1}
  BY DEF KVOInv, TypeOK, Swizzled
<1> QED  BY <1>1 DEF Class, ObservedClass, hasPrefix

\* sk_addObserver: keeps the invariant, in particular for the other keys of the
\* object and for the other objects of its class.
LEMMA AddStep ==
  ASSUME KVOInv, NEW o \in Objects, NEW b \in Observers, NEW key \in Keys,
         sk_addObserver(o, b, key)
  PROVE  KVOInv'
<1> DEFINE c == ObservedClass(o)
           info == [reg |-> calls, observer |-> b, key |-> key]
<1>0. /\ TypeOK /\ Swizzled /\ calls' = calls + 1 /\ b \in alive
      /\ UNCHANGED <<alive, value, sent, delivered>>
  BY DEF KVOInv, sk_addObserver
<1>1. CASE UNCHANGED <<isa, classes, methods, observers>>
  BY <1>0, <1>1 DEF TypeOK, Swizzled, KVOInv
<1>2. CASE /\ isa' = [isa EXCEPT ![o] = c]
           /\ classes' = classes \cup {c}
           /\ methods' = methods \cup {<<c, key.name>>}
           /\ observers' = [observers EXCEPT ![o] = Append(@, info)]
  <2>1. c \in Class /\ c.base = ClassOf[o] /\ c.prefixes = 1 /\ (isa[o].prefixes = 1 => c = isa[o])
    BY ObservedClassFacts
  <2>2. info \in Info /\ key.name \in Names  BY <1>0 DEF TypeOK, Info, Keys
  <2> HIDE DEF c, info
  <2>3. observers[o] \in Seq(Info)  BY <1>0 DEF TypeOK
  <2>4. /\ Append(observers[o], info) \in Seq(Info)
        /\ Len(Append(observers[o], info)) = Len(observers[o]) + 1
        /\ \A i \in 1..Len(observers[o]) : Append(observers[o], info)[i] = observers[o][i]
        /\ Append(observers[o], info)[Len(observers[o]) + 1] = info
    BY <2>2, <2>3, AppendProperties
  <2>5. /\ observers'[o] = Append(observers[o], info)
        /\ \A p \in Objects : p # o => observers'[p] = observers[p]
        /\ observers' \in [Objects -> Seq(Info)]
    BY <1>0, <1>2, <2>4 DEF TypeOK
  <2>6. info.observer = b /\ info.key = key  BY DEF info
  <2>7. \A i \in DOMAIN observers'[o] :
          (i \in DOMAIN observers[o] /\ observers'[o][i] = observers[o][i]) \/ observers'[o][i] = info
    <3> DEFINE ap == Append(observers[o], info)
    <3>1. DOMAIN ap = 1..(Len(observers[o]) + 1) /\ DOMAIN observers[o] = 1..Len(observers[o])
          /\ Len(observers[o]) \in Nat
      BY <2>3, <2>4
    <3>2. \A i \in 1..(Len(observers[o]) + 1) : i \in 1..Len(observers[o]) \/ i = Len(observers[o]) + 1
      BY <3>1
    <3> QED  BY <2>4, <2>5, <3>1, <3>2, Zenon
  <2>8. \A p \in Objects : \A i \in DOMAIN observers'[p] : observers'[p][i].observer \in alive' \cup {Nil}
    <3>1. \A p \in Objects : \A i \in DOMAIN observers[p] : observers[p][i].observer \in alive \cup {Nil}
      BY <1>0 DEF TypeOK
    <3> QED  BY <1>0, <2>5, <2>6, <2>7, <3>1
  <2>9. isa' \in [Objects -> Class] /\ classes' \subseteq Class /\ methods' \subseteq Class \X Names
    BY <1>0, <1>2, <2>1, <2>2 DEF TypeOK
  <2>10. TypeOK'  BY <1>0, <2>5, <2>8, <2>9 DEF TypeOK
  <2>11. isa'[o] = c /\ \A p \in Objects : p # o => isa'[p] = isa[p]  BY <1>0, <1>2 DEF TypeOK
  <2>12. methods \subseteq methods' /\ <<c, key.name>> \in methods'  BY <1>2
  <2>13. ASSUME NEW p \in Objects
         PROVE  /\ isa'[p].base = ClassOf[p] /\ isa'[p].prefixes \in {0, 1}
                /\ \A i \in DOMAIN observers'[p] :
                     isa'[p].prefixes = 1 /\ <<isa'[p], observers'[p][i].key.name>> \in methods'
    <3>1. CASE p # o  BY <1>0, <2>5, <2>11, <2>12, <3>1, Zenon DEF Swizzled
    <3>2. CASE p = o
      <4>1. ASSUME NEW i \in DOMAIN observers'[o]
            PROVE  <<c, observers'[o][i].key.name>> \in methods'
        <5>1. CASE observers'[o][i] = info  BY <2>6, <2>12, <5>1
        <5>2. CASE i \in DOMAIN observers[o] /\ observers'[o][i] = observers[o][i]
          <6>1. isa[o].prefixes = 1 /\ <<isa[o], observers[o][i].key.name>> \in methods
            BY <1>0, <5>2 DEF Swizzled
          <6> QED  BY <2>1, <2>12, <5>2, <6>1
        <5> QED  BY <2>7, <5>1, <5>2
      <4> QED  BY <2>1, <2>11, <3>2, <4>1
    <3> QED  BY <3>1, <3>2
  <2>14. Swizzled'  BY <2>13 DEF Swizzled
  <2> QED  BY <2>10, <2>14 DEF KVOInv
<1> QED  BY <1>1, <1>2 DEF sk_addObserver, setterForGetter

\* sk_removeObserver: keeps the invariant.
LEMMA RemoveStep ==
  ASSUME KVOInv, NEW o \in Objects, NEW b \in Observers, NEW key \in Keys,
         sk_removeObserver(o, b, key)
  PROVE  KVOInv'
<1> DEFINE w == Without(observers[o], b, key)
<1>0. /\ TypeOK /\ Swizzled /\ calls' = calls + 1
      /\ observers' = [observers EXCEPT ![o] = w]
      /\ UNCHANGED <<isa, classes, methods, alive, value, sent, delivered>>
  BY DEF KVOInv, sk_removeObserver
<1>1. observers[o] \in Seq(Info)  BY <1>0 DEF TypeOK
<1>2. w \in Seq(Info) /\ \A j \in DOMAIN w : \E i \in DOMAIN observers[o] : w[j] = observers[o][i]
  BY <1>1, WithoutKeeps
<1> HIDE DEF w
<1>3. /\ observers' \in [Objects -> Seq(Info)] /\ observers'[o] = w
      /\ \A p \in Objects : p # o => observers'[p] = observers[p]
  BY <1>0, <1>2 DEF TypeOK
<1>4. \A p \in Objects : \A j \in DOMAIN observers'[p] :
        \E i \in DOMAIN observers[p] : observers'[p][j] = observers[p][i]
  BY <1>2, <1>3
<1>5. \A p \in Objects : \A j \in DOMAIN observers'[p] : observers'[p][j].observer \in alive' \cup {Nil}
  <2>1. \A p \in Objects : \A i \in DOMAIN observers[p] : observers[p][i].observer \in alive \cup {Nil}
    BY <1>0 DEF TypeOK
  <2> QED  BY <1>0, <1>4, <2>1
<1>6. TypeOK'  BY <1>0, <1>3, <1>5 DEF TypeOK
<1>7. Swizzled'  BY <1>0, <1>4 DEF Swizzled
<1> QED  BY <1>6, <1>7 DEF KVOInv

\* A setter keeps the invariant.
LEMMA SetterStep ==
  ASSUME KVOInv, NEW o \in Objects, NEW name \in Names, NEW v \in Values, Setter(o, name, v)
  PROVE  KVOInv'
<1>0. /\ TypeOK /\ Swizzled /\ calls' = calls + 1
      /\ value' = [value EXCEPT ![o][name] = v]
      /\ UNCHANGED <<isa, classes, methods, observers, alive, delivered>>
  BY DEF KVOInv, Setter
<1>1. value' \in [Objects -> [Names -> Values \cup {Nil}]]  BY <1>0 DEF TypeOK
<1>2. sent \subseteq sent' /\ sent' \subseteq Notification
  <2> DEFINE new == {[reg |-> observers[o][i].reg, obj |-> o, name |-> name,
                      old |-> value[o][name], new |-> v, n |-> calls] :
                 i \in {j \in DOMAIN observers[o] : observers[o][j].key = getterForSetter(name)}}
  <2>1. ASSUME NEW i \in DOMAIN observers[o]
        PROVE  [reg |-> observers[o][i].reg, obj |-> o, name |-> name,
                old |-> value[o][name], new |-> v, n |-> calls] \in Notification
    <3>1. observers[o] \in Seq(Info)  BY <1>0 DEF TypeOK
    <3>2. observers[o][i] \in Info  BY <3>1
    <3>3. value[o][name] \in Values \cup {Nil} /\ calls \in Nat  BY <1>0 DEF TypeOK
    <3> QED  BY <3>2, <3>3 DEF Info, Notification
  <2>2. new \subseteq Notification  BY <2>1
  <2>3. sent' = sent \/ sent' = sent \cup new  BY Zenon DEF Setter, OldValue
  <2> QED  BY <1>0, <2>2, <2>3 DEF TypeOK
<1>3. TypeOK'  BY <1>0, <1>1, <1>2 DEF TypeOK
<1>4. Swizzled'  BY <1>0 DEF Swizzled
<1> QED  BY <1>3, <1>4 DEF KVOInv

\* What dealloc does to the registrations, its sk_removeObserver: included: it
\* clears the references to the observer and removes nothing.
LEMMA DeallocFacts ==
  ASSUME KVOInv, NEW o \in Objects, NEW b \in Observers, NEW key \in Keys, Dealloc(b, o, key)
  PROVE  /\ observers' = [p \in Objects |-> Cleared(observers[p], b)]
         /\ \A p \in Objects : observers[p] \in Seq(Info)
<1>1. \A p \in Objects : observers[p] \in Seq(Info)  BY DEF KVOInv, TypeOK
<1>2. \A p \in Objects : Without(Cleared(observers[p], b), b, key) = Cleared(observers[p], b)
  BY <1>1, ClearedFacts
<1>3. observers' = [p \in Objects |->
        IF p = o THEN Without(Cleared(observers[p], b), b, key) ELSE Cleared(observers[p], b)]
  BY DEF Dealloc
<1> QED  BY <1>1, <1>2, <1>3

\* dealloc of an observer keeps the invariant.
LEMMA DeallocStep ==
  ASSUME KVOInv, NEW o \in Objects, NEW b \in Observers, NEW key \in Keys, Dealloc(b, o, key)
  PROVE  KVOInv'
<1>0. /\ TypeOK /\ Swizzled /\ alive' = alive \ {b}
      /\ UNCHANGED <<isa, classes, methods, value, sent, delivered, calls>>
  BY DEF KVOInv, Dealloc
<1>1. /\ observers' = [p \in Objects |-> Cleared(observers[p], b)]
      /\ \A p \in Objects : observers[p] \in Seq(Info)
  BY DeallocFacts
<1>2. ASSUME NEW p \in Objects
      PROVE  /\ observers'[p] \in Seq(Info) /\ DOMAIN observers'[p] = DOMAIN observers[p]
             /\ \A i \in DOMAIN observers[p] :
                  /\ observers'[p][i].key = observers[p][i].key
                  /\ observers'[p][i].observer =
                       IF observers[p][i].observer = b THEN Nil ELSE observers[p][i].observer
  <2>1. observers[p] \in Seq(Info) /\ observers'[p] = Cleared(observers[p], b)  BY <1>1
  <2> DEFINE c == Cleared(observers[p], b)
  <2>2. /\ c \in Seq(Info) /\ DOMAIN c = DOMAIN observers[p]
        /\ \A i \in DOMAIN observers[p] :
             /\ c[i].key = observers[p][i].key
             /\ c[i].observer =
                  IF observers[p][i].observer = b THEN Nil ELSE observers[p][i].observer
    BY <2>1, ClearedFacts, ZenonT(30)
  <2> HIDE DEF c
  <2>3. observers'[p] = c  BY <2>1 DEF c
  <2> QED  BY <2>2, <2>3
<1>3. observers' \in [Objects -> Seq(Info)]  BY <1>1, <1>2
<1>4. \A p \in Objects : \A i \in DOMAIN observers'[p] : observers'[p][i].observer \in alive' \cup {Nil}
  <2>1. \A p \in Objects : \A i \in DOMAIN observers[p] : observers[p][i].observer \in alive \cup {Nil}
    BY <1>0 DEF TypeOK
  <2> QED  BY <1>0, <1>2, <2>1
<1>5. TypeOK'  BY <1>0, <1>3, <1>4 DEF TypeOK
<1>6. ASSUME NEW p \in Objects, NEW i \in DOMAIN observers'[p]
      PROVE  isa'[p].prefixes = 1 /\ <<isa'[p], observers'[p][i].key.name>> \in methods'
  <2>1. i \in DOMAIN observers[p] /\ observers'[p][i].key = observers[p][i].key  BY <1>2
  <2>2. isa[p].prefixes = 1 /\ <<isa[p], observers[p][i].key.name>> \in methods
    BY <1>0, <2>1 DEF Swizzled
  <2> QED  BY <1>0, <2>1, <2>2
<1>7. Swizzled'  BY <1>0, <1>6 DEF Swizzled
<1> QED  BY <1>5, <1>7 DEF KVOInv

\* Every step keeps the invariant.
LEMMA KVOStep == KVOInv /\ [Next]_vars => KVOInv'
<1> SUFFICES ASSUME KVOInv, [Next]_vars PROVE KVOInv'  OBVIOUS
<1>1. CASE \E o \in Objects, b \in Observers, k \in Keys :
             \/ sk_addObserver(o, b, k) \/ sk_removeObserver(o, b, k) \/ Dealloc(b, o, k)
  BY <1>1, AddStep, RemoveStep, DeallocStep
<1>2. CASE \E o \in Objects, m \in Names, v \in Values : Setter(o, m, v)
  BY <1>2, SetterStep
<1>3. CASE \E n \in sent : Deliver(n)
  <2>1. PICK n \in sent : Deliver(n)  BY <1>3
  <2>2. /\ delivered' = delivered \cup {n}
        /\ UNCHANGED <<isa, classes, methods, observers, alive, value, sent, calls>>
    BY <2>1 DEF Deliver
  <2>3. TypeOK'  BY <2>2 DEF KVOInv, TypeOK
  <2>4. Swizzled'  BY <2>2 DEF KVOInv, Swizzled
  <2> QED  BY <2>3, <2>4 DEF KVOInv
<1>4. CASE UNCHANGED vars
  <2>1. TypeOK'  BY <1>4 DEF KVOInv, TypeOK, vars
  <2>2. Swizzled'  BY <1>4 DEF KVOInv, Swizzled, vars
  <2> QED  BY <2>1, <2>2 DEF KVOInv
<1> QED  BY <1>1, <1>2, <1>3, <1>4 DEF Next

\* The variables keep their types, and no reference to an observer dangles.
THEOREM KVOTyped == Spec => []TypeOK
<1>1. KVOInv => TypeOK  BY DEF KVOInv
<1> QED  BY <1>1, KVOInit, KVOStep, PTL DEF Spec

\* kvo_class hides the class made at run time.
THEOREM ClassStaysHidden == Spec => []ClassHidden
<1>1. KVOInv => ClassHidden
  <2> SUFFICES ASSUME KVOInv, NEW o \in Objects
               PROVE  kvo_class(o) = [base |-> ClassOf[o], prefixes |-> 0]
    BY DEF ClassHidden
  <2>1. isa[o] \in Class /\ isa[o].base = ClassOf[o] /\ isa[o].prefixes \in {0, 1}
    BY DEF KVOInv, TypeOK, Swizzled
  <2> QED  BY <2>1 DEF kvo_class, superclass, hasPrefix, Class
<1> QED  BY <1>1, KVOInit, KVOStep, PTL DEF Spec

\* dealloc's own sk_removeObserver: removes nothing.
THEOREM DeallocRemovesNothing == Spec => DeallocLeavesAll
<1>1. KVOInv /\ [Next]_vars =>
        [\A b \in Observers : b \in alive \ alive' =>
           \A o \in Objects : Len(observers'[o]) = Len(observers[o])]_vars
  <2> SUFFICES ASSUME KVOInv, Next, NEW b \in Observers, b \in alive, b \notin alive',
                      NEW p \in Objects
               PROVE  Len(observers'[p]) = Len(observers[p])
    OBVIOUS
  <2>1. PICK o \in Objects, c \in Observers, k \in Keys : Dealloc(c, o, k)
    BY ZenonT(30) DEF Next, sk_addObserver, sk_removeObserver, Setter, Deliver
  <2>2. observers'[p] = Cleared(observers[p], c) /\ observers[p] \in Seq(Info)
    BY <2>1, DeallocFacts
  <2>3. Len(Cleared(observers[p], c)) = Len(observers[p])  BY <2>2, ClearedFacts, Zenon
  <2> QED  BY <2>2, <2>3
<1> QED  BY <1>1, KVOInit, KVOStep, PTL DEF Spec, DeallocLeavesAll

\* A registration without observer stays in the array, whatever is called.
LEMMA OrphanStep ==
  ASSUME KVOInv, [Next]_vars, NEW p \in Objects, NEW i \in DOMAIN observers[p],
         observers[p][i].observer = Nil
  PROVE  \E j \in DOMAIN observers'[p] :
           observers'[p][j].observer = Nil /\ observers'[p][j].reg = observers[p][i].reg
<1> USE KVOAssumption DEF KVOAssumption
<1>1. observers \in [Objects -> Seq(Info)] /\ observers[p] \in Seq(Info)  BY DEF KVOInv, TypeOK
<1>2. CASE observers' = observers  BY <1>2
<1>3. ASSUME NEW o \in Objects, NEW b \in Observers, NEW k \in Keys, sk_addObserver(o, b, k)
      PROVE  \E j \in DOMAIN observers'[p] :
               observers'[p][j].observer = Nil /\ observers'[p][j].reg = observers[p][i].reg
  <2> DEFINE info == [reg |-> calls, observer |-> b, key |-> k]
  <2>1. observers' = observers \/ observers' = [observers EXCEPT ![o] = Append(@, info)]
    BY <1>3, Zenon DEF sk_addObserver
  <2>2. info \in Info  BY DEF Info, KVOInv, TypeOK
  <2> HIDE DEF info
  <2>3. i \in DOMAIN Append(observers[p], info) /\ Append(observers[p], info)[i] = observers[p][i]
    <3> DEFINE ap == Append(observers[p], info)
    <3>1. /\ ap \in Seq(Info) /\ Len(ap) = Len(observers[p]) + 1
          /\ \A j \in 1..Len(observers[p]) : ap[j] = observers[p][j]
      BY <1>1, <2>2, AppendProperties
    <3> HIDE DEF ap
    <3>2. i \in 1..Len(observers[p]) /\ DOMAIN ap = 1..(Len(observers[p]) + 1) /\ Len(observers[p]) \in Nat
      BY <1>1, <3>1
    <3>3. i \in DOMAIN ap /\ ap[i] = observers[p][i]  BY <3>1, <3>2
    <3> QED  BY <3>3 DEF ap
  <2>4. observers'[p] = observers[p] \/ observers'[p] = Append(observers[p], info)
    BY <1>1, <2>1
  <2> QED  BY <2>3, <2>4
<1>4. ASSUME NEW o \in Objects, NEW b \in Observers, NEW k \in Keys, sk_removeObserver(o, b, k)
      PROVE  \E j \in DOMAIN observers'[p] :
               observers'[p][j].observer = Nil /\ observers'[p][j].reg = observers[p][i].reg
  <2>1. observers'[p] = observers[p] \/ observers'[p] = Without(observers[p], b, k)
    BY <1>1, <1>4 DEF sk_removeObserver
  <2>2. OthersKept(observers[p], b, Without(observers[p], b, k))
    BY <1>1, WithoutKeepsOthers
  <2>3. observers[p][i].observer # b
    OBVIOUS
  <2>4. \E j \in DOMAIN Without(observers[p], b, k) : Without(observers[p], b, k)[j] = observers[p][i]
    BY <2>2, <2>3 DEF OthersKept
  <2> QED  BY <2>1, <2>4
<1>5. ASSUME NEW o \in Objects, NEW b \in Observers, NEW k \in Keys, Dealloc(b, o, k)
      PROVE  \E j \in DOMAIN observers'[p] :
               observers'[p][j].observer = Nil /\ observers'[p][j].reg = observers[p][i].reg
  <2> DEFINE c == Cleared(observers[p], b)
  <2>1. observers'[p] = c  BY <1>5, DeallocFacts
  <2>2. /\ i \in DOMAIN c /\ c[i].reg = observers[p][i].reg
        /\ c[i].observer = IF observers[p][i].observer = b THEN Nil ELSE observers[p][i].observer
    BY <1>1, ClearedFacts, ZenonT(30)
  <2> HIDE DEF c
  <2> QED  BY <2>1, <2>2
<1>6. \/ observers' = observers
      \/ \E o \in Objects, b \in Observers, k \in Keys :
           \/ sk_addObserver(o, b, k) \/ sk_removeObserver(o, b, k) \/ Dealloc(b, o, k)
  BY Zenon DEF Next, Setter, Deliver, vars
<1> QED  BY <1>2, <1>3, <1>4, <1>5, <1>6

\* Registrations of deallocated observers are never removed.
THEOREM OrphansAreForever == Spec => OrphansStay
<1>1. KVOInv /\ [Next]_vars => [\A o \in Objects : OrphanRegs(o) \subseteq OrphanRegs(o)']_vars
  <2> SUFFICES ASSUME KVOInv, [Next]_vars, NEW p \in Objects, NEW r \in OrphanRegs(p)
               PROVE  r \in OrphanRegs(p)'
    OBVIOUS
  <2>1. PICK i \in DOMAIN observers[p] : observers[p][i].observer = Nil /\ r = observers[p][i].reg
    BY DEF OrphanRegs, Orphans
  <2>2. PICK j \in DOMAIN observers'[p] :
          observers'[p][j].observer = Nil /\ observers'[p][j].reg = observers[p][i].reg
    BY <2>1, OrphanStep
  <2> QED  BY <2>1, <2>2 DEF OrphanRegs, Orphans
<1> QED  BY <1>1, KVOInit, KVOStep, PTL DEF Spec, OrphansStay

\* A setter notifies exactly the registrations the contract says: where kvo_setter
\* is not reached there is no registration for the key.
LEMMA SetterChanges ==
  ASSUME KVOInv, NEW o \in Objects, NEW name \in Names, NEW v \in Values, Setter(o, name, v)
  PROVE  Contract!Change(o, name, v)
<1> DEFINE told == {j \in DOMAIN observers[o] : observers[o][j].key = getterForSetter(name)}
           new == {[reg |-> observers[o][i].reg, obj |-> o, name |-> name,
                    old |-> value[o][name], new |-> v, n |-> calls] : i \in told}
<1>1. new = Contract!Notifications(o, name, v)
  BY DEF Contract!Notifications, Contract!Reported, getterForSetter
<1>2. ASSUME hasPrefix(isa[o]) /\ <<isa[o], name>> \in methods
      PROVE  sent' = sent \cup new
  BY <1>2 DEF Setter, OldValue
<1>3. ASSUME ~(hasPrefix(isa[o]) /\ <<isa[o], name>> \in methods)
      PROVE  sent' = sent \cup new
  <2>1. ASSUME NEW j \in told PROVE FALSE
    <3>1. observers[o][j].key.name = name  BY DEF getterForSetter
    <3>2. isa[o].prefixes = 1 /\ <<isa[o], observers[o][j].key.name>> \in methods
      BY DEF KVOInv, Swizzled
    <3> QED  BY <1>3, <3>1, <3>2 DEF hasPrefix
  <2>2. new = {}  BY <2>1
  <2>3. sent' = sent  BY <1>3, Zenon DEF Setter
  <2> QED  BY <2>2, <2>3
<1> QED  BY <1>1, <1>2, <1>3 DEF Setter, Contract!Change

\* Isa-swizzling is invisible: the implementation keeps the contract of observing.
THEOREM ObservingImplemented == Spec => ImplementsObserving
<1>1. Init => Contract!KVInit  BY DEF Init, Contract!KVInit
<1>2. KVOInv /\ [Next]_vars => [Contract!KVNext]_(Contract!kvVars)
  <2> SUFFICES ASSUME KVOInv, [Next]_vars PROVE [Contract!KVNext]_(Contract!kvVars)  OBVIOUS
  <2>0. observers \in [Objects -> Seq(Info)]  BY DEF KVOInv, TypeOK
  <2>1. ASSUME NEW o \in Objects, NEW b \in Observers, NEW k \in Keys, sk_addObserver(o, b, k)
        PROVE  Contract!KVNext
    <3>1. Contract!NoEffect \/ Contract!Register(o, b, k)
      BY <2>1, Zenon DEF sk_addObserver, Contract!NoEffect, Contract!Register
    <3>2. k \in Contract!Keys  BY DEF Keys, Contract!Keys
    <3> QED  BY <3>1, <3>2, Zenon DEF Contract!KVNext
  <2>2. ASSUME NEW o \in Objects, NEW b \in Observers, NEW k \in Keys, sk_removeObserver(o, b, k)
        PROVE  Contract!KVNext
    <3> DEFINE w == Without(observers[o], b, k)
    <3>1. /\ observers' = [observers EXCEPT ![o] = w] /\ calls' = calls + 1
          /\ UNCHANGED <<value, sent>>
      BY <2>2 DEF sk_removeObserver
    <3>2. observers[o] \in Seq(Info)  BY <2>0
    <3>3. \/ w = observers[o]
          \/ \E i \in DOMAIN observers[o] : w = RemoveAt(observers[o], i)
      BY <3>2, WithoutFacts DEF Matching
    <3> HIDE DEF w
    <3>4. CASE w = observers[o]
      <4>1. observers' = observers  BY <2>0, <3>1, <3>4
      <4> QED  BY <3>1, <4>1 DEF Contract!KVNext, Contract!NoEffect
    <3>5. CASE \E i \in DOMAIN observers[o] : w = RemoveAt(observers[o], i)
      <4>1. PICK i \in DOMAIN observers[o] : w = RemoveAt(observers[o], i)  BY <3>5
      <4>2. Contract!Unregister(o, i)  BY <3>1, <4>1 DEF Contract!Unregister, RemoveAt
      <4> QED  BY <4>2, Zenon DEF Contract!KVNext
    <3> QED  BY <3>3, <3>4, <3>5
  <2>3. ASSUME NEW o \in Objects, NEW b \in Observers, NEW k \in Keys, Dealloc(b, o, k)
        PROVE  Contract!KVNext
    <3>1. observers' = [p \in Objects |-> Cleared(observers[p], b)]  BY <2>3, DeallocFacts
    <3>2. UNCHANGED <<value, sent, calls>>  BY <2>3 DEF Dealloc
    <3>3. Contract!Forget(b)  BY <3>1, <3>2, Zenon DEF Contract!Forget, Cleared
    <3> QED  BY <3>3, Zenon DEF Contract!KVNext
  <2>4. ASSUME NEW o \in Objects, NEW m \in Names, NEW v \in Values, Setter(o, m, v)
        PROVE  Contract!KVNext
    <3>1. Contract!Change(o, m, v)  BY <2>4, SetterChanges
    <3> QED  BY <3>1, Zenon DEF Contract!KVNext
  <2>5. CASE \E n \in sent : Deliver(n)  BY <2>5 DEF Deliver, Contract!kvVars
  <2>6. CASE UNCHANGED vars  BY <2>6 DEF vars, Contract!kvVars
  <2> QED  BY <2>1, <2>2, <2>3, <2>4, <2>5, <2>6 DEF Next
<1> QED  BY <1>1, <1>2, KVOInit, KVOStep, PTL DEF Spec, ImplementsObserving, Contract!KVSpec
-----------------------------------------------------------------------------
(* The chain of old and new values                                         *)

\* The registration r of the object o is still there.
Live(o, r) == \E i \in DOMAIN observers[o] : observers[o][i].reg = r

Later(u, s) == u.obj = s.obj /\ u.name = s.name /\ s.n < u.n

\* Registrations and notifications carry the number of their call; a registration
\* that was told of a property is one for its key, so that it is told of the next
\* change too, and as long as it is there, the last value it was told is the value.
ChainInv ==
  /\ \A o \in Objects : \A i, j \in DOMAIN observers[o] :
       /\ observers[o][i].reg < calls
       /\ observers[o][i].reg = observers[o][j].reg => observers[o][i].key = observers[o][j].key
  /\ \A s \in sent :
       /\ s.n < calls /\ s.reg < calls
       /\ \A i \in DOMAIN observers[s.obj] :
            observers[s.obj][i].reg = s.reg => observers[s.obj][i].key = getterForSetter(s.name)
       /\ Live(s.obj, s.reg) /\ (\A u \in sent : ~Later(u, s)) => s.new = value[s.obj][s.name]
  /\ OldValuesChain

ValuesInv == KVOInv /\ ChainInv

\* The registration j of p, after a step, was there before it.
Kept(p, j) ==
  \E i \in DOMAIN observers[p] :
    observers'[p][j].reg = observers[p][i].reg /\ observers'[p][j].key = observers[p][i].key

\* It is the one that this call made.
Fresh(p, j, key) ==
  observers'[p][j].reg = calls /\ observers'[p][j].key = key /\ calls' = calls + 1

\* sk_addObserver: makes one registration.
LEMMA AddRegisters ==
  ASSUME KVOInv, NEW o \in Objects, NEW b \in Observers, NEW k \in Keys, sk_addObserver(o, b, k),
         NEW p \in Objects, NEW j \in DOMAIN observers'[p]
  PROVE  Kept(p, j) \/ Fresh(p, j, k)
<1> DEFINE info == [reg |-> calls, observer |-> b, key |-> k]
           ap == Append(observers[p], info)
<1>0. observers \in [Objects -> Seq(Info)] /\ observers[p] \in Seq(Info)
  BY DEF KVOInv, TypeOK
<1>1. observers' = observers \/ observers' = [observers EXCEPT ![o] = Append(@, info)]
  BY Zenon DEF sk_addObserver
<1>2. info \in Info
  BY DEF Info, KVOInv, TypeOK
<1>3. info.reg = calls /\ info.key = k /\ calls' = calls + 1
  BY DEF sk_addObserver
<1> HIDE DEF info
<1>4. observers'[p] = observers[p] \/ observers'[p] = ap
  BY <1>0, <1>1
<1>5. /\ ap \in Seq(Info) /\ Len(ap) = Len(observers[p]) + 1
      /\ \A i \in 1..Len(observers[p]) : ap[i] = observers[p][i]
      /\ ap[Len(observers[p]) + 1] = info
  BY <1>0, <1>2, AppendProperties
<1> HIDE DEF ap
<1>6. CASE observers'[p] = ap
  <2>1. /\ DOMAIN observers[p] = 1..Len(observers[p])
        /\ j \in 1..Len(observers[p]) \/ j = Len(observers[p]) + 1
    BY <1>0, <1>5, <1>6
  <2> QED
    BY <1>3, <1>5, <1>6, <2>1 DEF Kept, Fresh
<1>7. CASE observers'[p] = observers[p]
  BY <1>7 DEF Kept
<1> QED
  BY <1>4, <1>6, <1>7

\* A registration after a step was there before it or is the one of this call.
LEMMA RegistrationStep ==
  ASSUME KVOInv, [Next]_vars
  PROVE  \E key : \A p \in Objects : \A j \in DOMAIN observers'[p] : Kept(p, j) \/ Fresh(p, j, key)
<1>1. observers \in [Objects -> Seq(Info)] /\ \A p \in Objects : observers[p] \in Seq(Info)
  BY DEF KVOInv, TypeOK
<1>2. CASE observers' = observers
  BY <1>2 DEF Kept
<1>3. ASSUME NEW o \in Objects, NEW b \in Observers, NEW k \in Keys, sk_addObserver(o, b, k)
      PROVE  \A p \in Objects : \A j \in DOMAIN observers'[p] : Kept(p, j) \/ Fresh(p, j, k)
  BY <1>3, AddRegisters
<1>4. ASSUME NEW o \in Objects, NEW b \in Observers, NEW k \in Keys, sk_removeObserver(o, b, k),
             NEW p \in Objects, NEW j \in DOMAIN observers'[p]
      PROVE  Kept(p, j)
  <2> DEFINE w == Without(observers[p], b, k)
  <2>1. observers'[p] = observers[p] \/ observers'[p] = w
    BY <1>1, <1>4 DEF sk_removeObserver
  <2>2. \A m \in DOMAIN w : \E i \in DOMAIN observers[p] : w[m] = observers[p][i]
    BY <1>1, WithoutKeeps
  <2> HIDE DEF w
  <2> QED
    BY <2>1, <2>2 DEF Kept
<1>5. ASSUME NEW o \in Objects, NEW b \in Observers, NEW k \in Keys, Dealloc(b, o, k),
             NEW p \in Objects, NEW j \in DOMAIN observers'[p]
      PROVE  Kept(p, j)
  <2> DEFINE c == Cleared(observers[p], b)
  <2>1. observers'[p] = c
    BY <1>5, DeallocFacts
  <2>2. /\ DOMAIN c = DOMAIN observers[p]
        /\ \A i \in DOMAIN observers[p] : c[i].reg = observers[p][i].reg /\ c[i].key = observers[p][i].key
    BY <1>1, ClearedFacts, Zenon
  <2> HIDE DEF c
  <2> QED
    BY <2>1, <2>2 DEF Kept
<1>6. \/ observers' = observers
      \/ \E o \in Objects, b \in Observers, k \in Keys :
           \/ sk_addObserver(o, b, k) \/ sk_removeObserver(o, b, k) \/ Dealloc(b, o, k)
  BY Zenon DEF Next, Setter, Deliver, vars
<1> QED
  BY <1>2, <1>3, <1>4, <1>5, <1>6

\* The numbers of the registrations stay below the number of calls, and none that
\* was removed comes back.
Numbered ==
  \A o \in Objects : \A i, j \in DOMAIN observers[o] :
    /\ observers[o][i].reg < calls
    /\ observers[o][i].reg = observers[o][j].reg => observers[o][i].key = observers[o][j].key

LEMMA RegistrationsNumbered ==
  ASSUME ValuesInv, [Next]_vars
  PROVE  /\ calls \in Nat /\ (calls' = calls \/ calls' = calls + 1)
         /\ Numbered'
         /\ \A s \in sent : \A j \in DOMAIN observers'[s.obj] : observers'[s.obj][j].reg = s.reg =>
              Live(s.obj, s.reg) /\ observers'[s.obj][j].key = getterForSetter(s.name)
<1>1. calls \in Nat /\ (calls' = calls \/ calls' = calls + 1)
  BY ZenonT(30) DEF ValuesInv, KVOInv, TypeOK, Next, sk_addObserver, sk_removeObserver, Dealloc, Setter, Deliver, vars
<1>2. Numbered
  BY DEF ValuesInv, ChainInv, Numbered
<1>3. PICK key : \A p \in Objects : \A j \in DOMAIN observers'[p] : Kept(p, j) \/ Fresh(p, j, key)
  BY RegistrationStep DEF ValuesInv
<1>4. \A o \in Objects : \A i \in DOMAIN observers[o] : observers[o][i].reg \in Nat
  <2> TAKE o \in Objects
  <2> TAKE i \in DOMAIN observers[o]
  <2>1. observers[o] \in Seq(Info)
    BY DEF ValuesInv, KVOInv, TypeOK
  <2>2. observers[o][i] \in Info
    BY <2>1
  <2> QED
    BY <2>2 DEF Info
<1>5. ASSUME NEW o \in Objects, NEW j \in DOMAIN observers'[o]
      PROVE  /\ observers'[o][j].reg < calls'
             /\ Kept(o, j) => observers'[o][j].reg < calls /\ observers'[o][j].reg # calls
  <2>1. CASE Kept(o, j)
    BY <1>1, <1>2, <1>4, <2>1 DEF Kept, Numbered
  <2>2. CASE Fresh(o, j, key)
    <3>1. calls < calls + 1 /\ ~(calls < calls)
      BY <1>1
    <3> QED
      BY <2>1, <2>2, <3>1 DEF Fresh
  <2> QED
    BY <1>3, <2>1, <2>2
<1>6. ASSUME NEW o \in Objects, NEW i \in DOMAIN observers'[o], NEW j \in DOMAIN observers'[o],
             observers'[o][i].reg = observers'[o][j].reg
      PROVE  observers'[o][i].key = observers'[o][j].key
  <2>1. CASE Kept(o, i) /\ Kept(o, j)
    BY <1>2, <1>6, <2>1, Zenon DEF Kept, Numbered
  <2>2. CASE Fresh(o, i, key) /\ Fresh(o, j, key)
    BY <2>2 DEF Fresh
  <2>3. CASE Kept(o, i) /\ Fresh(o, j, key)
    BY <1>5, <1>6, <2>3 DEF Fresh
  <2>4. CASE Fresh(o, i, key) /\ Kept(o, j)
    BY <1>5, <1>6, <2>4, Zenon DEF Fresh
  <2> QED
    BY <1>3, <2>1, <2>2, <2>3, <2>4
<1>7. ASSUME NEW s \in sent, NEW j \in DOMAIN observers'[s.obj], observers'[s.obj][j].reg = s.reg
      PROVE  Live(s.obj, s.reg) /\ observers'[s.obj][j].key = getterForSetter(s.name)
  <2>1. s \in Notification /\ s.reg < calls
    BY DEF ValuesInv, KVOInv, TypeOK, ChainInv
  <2>2. s.obj \in Objects /\ s.reg # calls
    BY <1>1, <2>1 DEF Notification
  <2>3. Kept(s.obj, j)
    BY <1>3, <1>7, <2>2 DEF Fresh
  <2> QED
    BY <1>7, <2>3, Zenon DEF ValuesInv, ChainInv, Live, Kept
<1>8. Numbered'
  BY <1>5, <1>6 DEF Numbered
<1> QED
  BY <1>1, <1>7, <1>8

\* A step that notifies nobody and changes no value keeps the chain.
LEMMA QuietStep ==
  ASSUME ValuesInv, [Next]_vars, UNCHANGED <<sent, value>>
  PROVE  ChainInv'
<1>1. /\ calls \in Nat /\ (calls' = calls \/ calls' = calls + 1)
      /\ Numbered'
      /\ \A s \in sent : \A j \in DOMAIN observers'[s.obj] : observers'[s.obj][j].reg = s.reg =>
           Live(s.obj, s.reg) /\ observers'[s.obj][j].key = getterForSetter(s.name)
  BY RegistrationsNumbered
<1>2. ASSUME NEW s \in sent PROVE s.n < calls' /\ s.reg < calls'
  <2>1. s \in Notification /\ s.n < calls /\ s.reg < calls
    BY DEF ValuesInv, KVOInv, TypeOK, ChainInv
  <2> QED
    BY <1>1, <2>1 DEF Notification
<1>3. \A s \in sent : Live(s.obj, s.reg)' => Live(s.obj, s.reg)
  BY <1>1 DEF Live
<1>4. \A s \in sent : Live(s.obj, s.reg)' /\ (\A u \in sent : ~Later(u, s)) => s.new = value[s.obj][s.name]
  BY <1>3 DEF ValuesInv, ChainInv
<1>5. OldValuesChain'
  <2>1. OldValuesChain
    BY DEF ValuesInv, ChainInv
  <2>2. ASSUME NEW s \in sent, \E i \in DOMAIN observers'[s.obj] : observers'[s.obj][i].reg = s.reg
        PROVE  \E i \in DOMAIN observers[s.obj] : observers[s.obj][i].reg = s.reg
    BY <1>3, <2>2 DEF Live
  <2> QED
    BY <2>1, <2>2, ZenonT(30) DEF OldValuesChain
<1> QED
  BY <1>1, <1>2, <1>4, <1>5 DEF ChainInv, Later, Numbered

\* A setter keeps the chain: it tells every registration of the key, the one
\* that was told of the value before included.
LEMMA SetterChains ==
  ASSUME ValuesInv, NEW o \in Objects, NEW name \in Names, NEW v \in Values, Setter(o, name, v)
  PROVE  ChainInv'
<1> DEFINE told == {j \in DOMAIN observers[o] : observers[o][j].key = getterForSetter(name)}
           note(j) == [reg |-> observers[o][j].reg, obj |-> o, name |-> name,
                       old |-> value[o][name], new |-> v, n |-> calls]
           new == {note(j) : j \in told}
<1>0. KVOInv /\ ChainInv /\ TypeOK /\ [Next]_vars
  BY DEF ValuesInv, KVOInv, Next
<1>1. /\ calls \in Nat /\ calls' = calls + 1
      /\ Numbered'
      /\ observers' = observers
  BY <1>0, RegistrationsNumbered DEF Setter
<1>2. sent' = sent \cup new
  <2>1. Contract!Change(o, name, v)
    BY <1>0, SetterChanges
  <2>2. new = Contract!Notifications(o, name, v)
    BY DEF Contract!Notifications, Contract!Reported, getterForSetter
  <2> QED
    BY <2>1, <2>2 DEF Contract!Change
<1>3. /\ value'[o][name] = v
      /\ \A p \in Objects, m \in Names : p # o \/ m # name => value'[p][m] = value[p][m]
  BY <1>0 DEF Setter, TypeOK
<1>4. \A s \in new : /\ s.obj = o /\ s.name = name /\ s.old = value[o][name] /\ s.new = v /\ s.n = calls
                     /\ \E j \in told : s.reg = observers[o][j].reg
  OBVIOUS
<1>5. \A s \in sent : s.obj \in Objects /\ s.name \in Names /\ s.n \in Nat /\ s.reg \in Nat
                      /\ s.n < calls /\ s.reg < calls
  BY <1>0 DEF TypeOK, Notification, ChainInv
<1>6. told # {} => \E u \in new : TRUE
  BY ZenonT(30)
<1>7. \A s \in sent : Live(s.obj, s.reg) /\ s.obj = o /\ s.name = name => told # {}
  BY <1>0 DEF ChainInv, Live
<1>8. \A s \in new : \A i \in DOMAIN observers[o] :
        observers[o][i].reg = s.reg => observers[o][i].key = getterForSetter(name)
  BY <1>0, <1>4 DEF ChainInv
<1>9. \A s \in new : s.reg < calls
  BY <1>0, <1>4 DEF ChainInv
<1> HIDE DEF told, new
<1>10. ASSUME NEW s \in sent' PROVE s.n < calls' /\ s.reg < calls'
  <2>1. CASE s \in sent
    BY <1>1, <1>5, <2>1
  <2>2. CASE s \in new
    <3>1. s.n = calls /\ s.reg < calls
      BY <1>4, <1>9, <2>2
    <3>2. s.reg \in Nat
      BY <2>2, SetterStep, <1>0, <1>2 DEF KVOInv, TypeOK, Notification
    <3> QED
      BY <1>1, <3>1, <3>2
  <2> QED
    BY <1>2, <2>1, <2>2
<1>11. \A s \in sent' : \A i \in DOMAIN observers'[s.obj] :
         observers'[s.obj][i].reg = s.reg => observers'[s.obj][i].key = getterForSetter(s.name)
  <2>1. ASSUME NEW s \in sent
        PROVE  \A i \in DOMAIN observers'[s.obj] :
                 observers'[s.obj][i].reg = s.reg => observers'[s.obj][i].key = getterForSetter(s.name)
    <3>1. \A i \in DOMAIN observers[s.obj] :
            observers[s.obj][i].reg = s.reg => observers[s.obj][i].key = getterForSetter(s.name)
      BY <1>0, <2>1, Zenon DEF ChainInv
    <3> QED
      BY <1>1, <3>1, Zenon
  <2>2. ASSUME NEW s \in new
        PROVE  \A i \in DOMAIN observers'[s.obj] :
                 observers'[s.obj][i].reg = s.reg => observers'[s.obj][i].key = getterForSetter(s.name)
    <3>1. s.obj = o /\ s.name = name
      BY <1>4, <2>2
    <3> QED
      BY <1>1, <1>8, <2>2, <3>1, Zenon
  <2> QED
    BY <1>2, <2>1, <2>2, Zenon
<1>12. ASSUME NEW s \in sent', Live(s.obj, s.reg)', \A u \in sent' : ~Later(u, s)
       PROVE  s.new = value'[s.obj][s.name]
  <2>1. CASE s \in new
    BY <1>3, <1>4, <2>1
  <2>2. CASE s \in sent /\ s.obj = o /\ s.name = name
    <3>1. Live(s.obj, s.reg)
      BY <1>1, <1>12 DEF Live
    <3>2. PICK u \in new : TRUE
      BY <1>6, <1>7, <2>2, <3>1
    <3>3. Later(u, s)
      BY <1>4, <1>5, <2>2, <3>2 DEF Later
    <3> QED
      BY <1>2, <1>12, <3>3
  <2>3. CASE s \in sent /\ ~(s.obj = o /\ s.name = name)
    <3>1. Live(s.obj, s.reg) /\ \A u \in sent : ~Later(u, s)
      BY <1>1, <1>2, <1>12 DEF Live
    <3>2. s.new = value[s.obj][s.name]
      BY <1>0, <2>3, <3>1 DEF ChainInv
    <3> QED
      BY <1>3, <1>5, <2>3, <3>2
  <2> QED
    BY <1>2, <2>1, <2>2, <2>3
<1>13. ASSUME NEW s \in sent', NEW t \in sent', s.obj = t.obj, s.name = t.name, s.n < t.n,
              ~\E u \in sent' : u.obj = s.obj /\ u.name = s.name /\ s.n < u.n /\ u.n < t.n,
              \E i \in DOMAIN observers'[s.obj] : observers'[s.obj][i].reg = s.reg
       PROVE  t.old = s.new
  <2>1. s \in sent
    <3>1. CASE s \in new /\ t \in new
      BY <1>1, <1>4, <1>13, <3>1
    <3>2. CASE s \in new /\ t \in sent
      BY <1>1, <1>4, <1>5, <1>13, <3>2
    <3> QED
      BY <1>2, <3>1, <3>2
  <2>2. \E i \in DOMAIN observers[s.obj] : observers[s.obj][i].reg = s.reg
    BY <1>1, <1>13
  <2>3. CASE t \in sent
    <3>1. ~\E u \in sent : u.obj = s.obj /\ u.name = s.name /\ s.n < u.n /\ u.n < t.n
      BY <1>2, <1>13
    <3>2. OldValuesChain
      BY <1>0 DEF ChainInv
    <3> QED
      BY <1>13, <2>1, <2>2, <2>3, <3>1, <3>2 DEF OldValuesChain
  <2>4. CASE t \in new
    <3>1. \A u \in sent : ~Later(u, s)
      BY <1>2, <1>4, <1>5, <1>13, <2>4 DEF Later
    <3>2. s.new = value[s.obj][s.name]
      BY <1>0, <2>1, <2>2, <3>1 DEF ChainInv, Live
    <3> QED
      BY <1>4, <1>13, <2>4, <3>2
  <2> QED
    BY <1>2, <2>3, <2>4
<1>14. OldValuesChain'
  BY <1>13 DEF OldValuesChain
<1> QED
  BY <1>1, <1>10, <1>11, <1>12, <1>14 DEF ChainInv, Numbered, Later

LEMMA ValuesInit == Init => ValuesInv
<1>1. Init => ChainInv
  <2> SUFFICES ASSUME Init PROVE ChainInv
    OBVIOUS
  <2>1. sent = {} /\ \A o \in Objects : observers[o] = <<>> /\ DOMAIN observers[o] = {}
    BY DEF Init
  <2> QED
    BY <2>1 DEF ChainInv, OldValuesChain
<1> QED
  BY <1>1, KVOInit DEF ValuesInv

LEMMA ValuesStep == ValuesInv /\ [Next]_vars => ValuesInv'
<1> SUFFICES ASSUME ValuesInv, [Next]_vars PROVE ValuesInv'
  OBVIOUS
<1>1. KVOInv'
  BY KVOStep DEF ValuesInv
<1>2. CASE \E o \in Objects, m \in Names, v \in Values : Setter(o, m, v)
  BY <1>1, <1>2, SetterChains DEF ValuesInv
<1>3. CASE UNCHANGED <<sent, value>>
  BY <1>1, <1>3, QuietStep DEF ValuesInv
<1>4. UNCHANGED <<sent, value>> \/ \E o \in Objects, m \in Names, v \in Values : Setter(o, m, v)
  BY ZenonT(30) DEF Next, sk_addObserver, sk_removeObserver, Dealloc, Deliver, vars
<1> QED
  BY <1>2, <1>3, <1>4

\* Consecutive changes of a property report a chain of values to a registration
\* that stays, whatever is registered, removed and deallocated in between.
THEOREM ValuesAlwaysChain == Spec => []OldValuesChain
<1>1. ValuesInv => OldValuesChain
  BY DEF ValuesInv, ChainInv
<1> QED
  BY <1>1, ValuesInit, ValuesStep, PTL DEF Spec
==============================================================================
