------------------------------- MODULE Aspects -------------------------------
(***************************************************************************)
(* Aspects/Aspects.m: blocks called before, instead of or after a method.  *)
(* A hooked selector is implemented by _objc_msgForward, its original      *)
(* implementation is kept under an alias, and forwardInvocation: runs the  *)
(* aspects.  A hooked class is changed in place, a hooked object is moved  *)
(* to a subclass with the suffix _Aspects_.                                *)
(*                                                                         *)
(* aspect_add and aspect_remove run under a spin lock, one at a time, but  *)
(* message sends take no lock: what they see between two statements of a   *)
(* locked call is a state of its own here.  A class is a pair of its name  *)
(* and whether it is the _Aspects_ subclass of the class of that name.     *)
(***************************************************************************)
EXTENDS Integers, Sequences

CONSTANTS
  Names,       \* the classes of the program
  Above,       \* Above[n]: n and its superclasses
  Stated,      \* Stated[n]: what -class answers, not n for a class made by KVO
  Objects,     \* the objects that messages are sent to
  ClassOf,     \* the class of each object
  Selectors,   \* the selectors that are hooked
  Definitions, \* the possible sets of pairs: a class implements a selector
  Options,     \* pairs: the position of an aspect and AutomaticRemoval
  Tokens,      \* identities of AspectIdentifiers, one per call of aspect_add
  Senders,     \* threads that send messages
  Nil,
  Refused      \* the result of an aspect_add that failed

ASSUME AspectsAssumption ==
  /\ Above \in [Names -> SUBSET Names]
  /\ \A n \in Names : n \in Above[n]
  /\ \A n \in Names : \A m \in Above[n] : Above[m] \subseteq Above[n] /\ (n \in Above[m] => m = n)
  /\ \A n \in Names : \A ms \in SUBSET Above[n] :
       ms # {} => \E m \in ms : ms \subseteq Above[m]
  /\ Stated \in [Names -> Names]
  /\ ClassOf \in [Objects -> Names]
  /\ Definitions \subseteq SUBSET (Names \X Selectors)
  /\ Options \subseteq {"before", "instead", "after"} \X BOOLEAN

VARIABLES
  defined,   \* the implementations of the program, does not change
  isa,       \* the class an object is an instance of, Nil once deallocated
  imp,       \* the implementations a class has of its own
  alias,     \* the ones it has under the alias of a selector
  forwarder, \* its own forwardInvocation: "none", "aspects" or "original"
  swizzledClasses, \* the classes changed in place
  token,     \* what is registered under an identifier, Nil before the call
  live,      \* the identifiers whose object is not nil
  container, \* number of the container of a subject and a selector, 0 is nil
  contents,  \* the aspects in each container that was created
  executed,  \* the AutomaticRemoval aspects called by sends that returned
  tracker,   \* swizzledClassesDict: the AspectTracker of a class
  trackers,  \* number of AspectTrackers created for a class
  op,        \* the call that holds the spin lock
  send       \* the message each sender sends

runtime == <<isa, imp, alias, forwarder, swizzledClasses>>
registry == <<token, live, container, contents>>
tracking == <<tracker, trackers>>
vars == <<defined, runtime, registry, tracking, op, send, executed>>

Base(n) == <<n, FALSE>>
BaseClasses == {Base(n) : n \in Names}
Classes == Names \X BOOLEAN
Suffixed(c) == c[2]
Subclass(c) == <<c[1], TRUE>>
Subjects == Objects \cup BaseClasses

\* AspectIdentifier
Registration == [subject : Subjects, selector : Selectors,
                 position : {"before", "instead", "after"}, automatic : BOOLEAN]

\* The class c and its superclasses; of some of them, the one nearest to c.
Up(c) == {c} \cup {Base(n) : n \in Above[c[1]]}
Nearest(cs) == CHOOSE d \in cs : cs \subseteq Up(d)

Forward == "_objc_msgForward"

ASSUME NilAssumption ==
  /\ Nil \notin Names \cup Classes \cup Objects \cup Tokens \cup Registration
  /\ Refused \notin Registration \cup {Nil}
  /\ {Forward, "unrecognized", "skipped"} \cap (Names \cup {Nil}) = {}
  /\ Objects \cap Classes = {}

\* class_getInstanceMethod on a table of implementations
Lookup(table, c, s) ==
  LET cs == {d \in Up(c) : table[d][s] # Nil} IN
  IF cs = {} THEN Nil ELSE table[Nearest(cs)][s]

ForwardInvocation(c) ==
  LET cs == {d \in Up(c) : forwarder[d] # "none"} IN
  IF cs = {} THEN "original" ELSE forwarder[Nearest(cs)]

\* The class whose methods a hook on the subject changes.
ClassOfSubject(x) == IF x \in Objects THEN isa[x] ELSE x

NoTracker == [id |-> 0, selectorNames |-> {}, subclassTrackers |-> [s \in Selectors |-> {}]]
NoOp == [kind |-> "none", at |-> "none", aspect |-> Nil, by |-> Nil]
NoSend == [at |-> "idle", object |-> Nil, selector |-> Nil, containers |-> {},
           remove |-> {}, called |-> {}, result |-> "none"]

Init ==
  /\ defined \in Definitions
  /\ isa = [o \in Objects |-> Base(ClassOf[o])]
  /\ imp = [c \in Classes |-> [s \in Selectors |->
              IF ~Suffixed(c) /\ <<c[1], s>> \in defined THEN c[1] ELSE Nil]]
  /\ alias = [c \in Classes |-> [s \in Selectors |-> Nil]]
  /\ forwarder = [c \in Classes |-> "none"]
  /\ swizzledClasses = {}
  /\ token = [t \in Tokens |-> Nil]
  /\ live = {}
  /\ container = [x \in Subjects \X Selectors |-> 0]
  /\ contents = <<>>
  /\ tracker = [c \in BaseClasses |-> NoTracker]
  /\ trackers = [c \in BaseClasses |-> 0]
  /\ op = NoOp
  /\ send = [x \in Senders |-> NoSend]
  /\ executed = {}
-----------------------------------------------------------------------------
(* AspectTracker.  A tracker that left swizzledClassesDict may still be in *)
(* a set of subclass trackers, hence the number that tells it from the     *)
(* next tracker of the same class.                                         *)

\* The class below d on the way from c up to d.
Below(d, c) == CHOOSE e \in Up(c) \ Up(d) : \A f \in Up(c) \ Up(d) : e \in Up(f)

\* Mutant: hooks in subclasses do not count.
AllowedOverSubclasses(x, s) ==
  /\ Lookup(imp, ClassOfSubject(x), s) # Nil
  /\ x \in BaseClasses => \/ s \in tracker[x].selectorNames
                          \/ \A d \in Up(x) : s \notin tracker[d].selectorNames

\* aspect_isSelectorAllowedAndTrack: the checks, ...
Allowed(x, s) ==
  /\ Lookup(imp, ClassOfSubject(x), s) # Nil
  /\ x \in BaseClasses =>
       /\ tracker[x].subclassTrackers[s] = {}
       /\ \/ s \in tracker[x].selectorNames
          \/ \A d \in Up(x) : s \notin tracker[d].selectorNames

\* ... and the entries made for a class that is not tracked yet.
Track(x, s) ==
  IF x \in Objects \/ s \in tracker[x].selectorNames
  THEN UNCHANGED tracking
  ELSE LET Made(d) == IF tracker[d].id # 0 THEN tracker[d]
                      ELSE [NoTracker EXCEPT !.id = trackers[d] + 1] IN
       /\ tracker' = [d \in BaseClasses |->
            CASE d \notin Up(x) -> tracker[d]
              [] d = x -> [Made(d) EXCEPT !.selectorNames = @ \cup {s}]
              [] OTHER -> [Made(d) EXCEPT !.subclassTrackers[s] =
                             @ \cup {<<Below(d, x), Made(Below(d, x)).id>>}]]
       /\ trackers' = [d \in BaseClasses |->
            IF d \in Up(x) /\ tracker[d].id = 0 THEN trackers[d] + 1 ELSE trackers[d]]

\* aspect_deregisterTrackedSelector
Deregister(x, s) ==
  IF x \in Objects
  THEN UNCHANGED tracking
  ELSE LET Sub(d) == IF d = x THEN NoTracker ELSE tracker[Below(d, x)]
           Cut(d) == IF Sub(d).id = 0
                     THEN [tracker[d] EXCEPT !.selectorNames = @ \ {s}]
                     ELSE [tracker[d] EXCEPT !.subclassTrackers[s] =
                             @ \ {<<Below(d, x), Sub(d).id>>}] IN
       /\ tracker' = [d \in BaseClasses |->
            CASE d \notin Up(x) -> tracker[d]
              [] d \in Up(x) /\ Cut(d).selectorNames = {} -> NoTracker
              [] OTHER -> Cut(d)]
       /\ UNCHANGED trackers
-----------------------------------------------------------------------------
(* aspect_add                                                              *)

\* aspect_getContainerForObject, and the aspect that is put into it, if any
PutInContainer(x, s, aspects) ==
  IF container[<<x, s>>] = 0
  THEN /\ container' = [container EXCEPT ![<<x, s>>] = Len(contents) + 1]
       /\ contents' = Append(contents, aspects)
  ELSE /\ contents' = [contents EXCEPT ![container[<<x, s>>]] = @ \cup aspects]
       /\ UNCHANGED container

Alive(x) == x \in Objects => isa[x] # Nil

\* The lock is taken, the selector is allowed and tracked, and the aspect is
\* registered.  (A selector that is not allowed changes nothing.)
AspectAdd(t, x, s, option) ==
  /\ op = NoOp
  /\ token[t] = Nil
  /\ Alive(x) /\ Allowed(x, s)
  /\ Track(x, s)
  /\ PutInContainer(x, s, {t})
  /\ token' = [token EXCEPT ![t] = [subject |-> x, selector |-> s,
                                   position |-> option[1], automatic |-> option[2]]]
  /\ live' = live \cup {t}
  /\ op' = [kind |-> "add", at |-> "hookClass", aspect |-> t, by |-> Nil]
  /\ UNCHANGED <<defined, runtime, send, executed>>

\* The block has no or an incompatible signature: identifierWithSelector
\* returns nil when the selector is already tracked.
AspectAddFails(t, x, s) ==
  /\ op = NoOp
  /\ token[t] = Nil
  /\ Alive(x) /\ Allowed(x, s)
  /\ Track(x, s)
  /\ PutInContainer(x, s, {})
  /\ token' = [token EXCEPT ![t] = Refused]
  /\ UNCHANGED <<defined, runtime, live, op, send, executed>>

OpSubject == token[op.aspect].subject
OpSelector == token[op.aspect].selector
OpClass == ClassOfSubject(OpSubject)
OpContainer == container[<<OpSubject, OpSelector>>]

SwizzleClassInPlace(c) ==
  /\ forwarder' = IF c \in swizzledClasses THEN forwarder
                  ELSE [forwarder EXCEPT ![c] = "aspects"]
  /\ swizzledClasses' = swizzledClasses \cup {c}

\* A class made by KVO is changed in place.
MadeByKVO(c) == Stated[c[1]] # c[1]

\* Mutant: the object is not made an instance of the subclass.
HookClassKeepsIsa ==
  /\ op.kind = "add" /\ op.at = "hookClass"
  /\ SwizzleClassInPlace(OpClass)
  /\ op' = IF OpSubject \in Objects THEN NoOp ELSE [op EXCEPT !.at = "alias"]
  /\ UNCHANGED <<defined, isa, imp, alias, registry, tracking, send, executed>>

HookClass ==
  /\ op.kind = "add" /\ op.at = "hookClass"
  /\ \/ /\ Suffixed(OpClass)
        /\ UNCHANGED runtime
     \/ /\ ~Suffixed(OpClass)
        /\ OpSubject \in BaseClasses \/ MadeByKVO(OpClass)
        /\ SwizzleClassInPlace(OpClass)
        /\ UNCHANGED <<isa, imp, alias>>
     \/ /\ ~Suffixed(OpClass)
        /\ OpSubject \in Objects /\ ~MadeByKVO(OpClass)
        /\ forwarder' = [forwarder EXCEPT ![Subclass(OpClass)] = "aspects"]
        /\ isa' = [isa EXCEPT ![OpSubject] = Subclass(OpClass)]
        /\ UNCHANGED <<imp, alias, swizzledClasses>>
  /\ op' = [op EXCEPT !.at = "alias"]
  /\ UNCHANGED <<defined, registry, tracking, send, executed>>

\* Mutant: the implementation is copied even if it is _objc_msgForward.
AddAliasAlways ==
  /\ op.kind = "add" /\ op.at = "alias"
  /\ op' = [op EXCEPT !.at = "replace"]
  /\ alias' = [alias EXCEPT ![OpClass][OpSelector] = Lookup(imp, OpClass, OpSelector)]
  /\ UNCHANGED <<defined, isa, imp, forwarder, swizzledClasses, registry, tracking, send, executed>>

\* aspect_prepareClassAndHookSelector keeps the implementation under the alias,
\* unless instances respond to it, ...
AddAlias ==
  /\ op.kind = "add" /\ op.at = "alias"
  /\ LET m == Lookup(imp, OpClass, OpSelector) IN
     /\ op' = IF m = Forward THEN NoOp ELSE [op EXCEPT !.at = "replace"]
     /\ alias' = IF m = Forward \/ Lookup(alias, OpClass, OpSelector) # Nil THEN alias
                 ELSE [alias EXCEPT ![OpClass][OpSelector] = m]
  /\ UNCHANGED <<defined, isa, imp, forwarder, swizzledClasses, registry, tracking, send, executed>>

\* ... and only then replaces it.
ReplaceMethod ==
  /\ op.kind = "add" /\ op.at = "replace"
  /\ imp' = [imp EXCEPT ![OpClass][OpSelector] = Forward]
  /\ op' = NoOp
  /\ UNCHANGED <<defined, isa, alias, forwarder, swizzledClasses, registry, tracking, send, executed>>
-----------------------------------------------------------------------------
(* aspect_remove, called by the program or for an AutomaticRemoval aspect. *)
(* A token whose object is nil changes nothing.                            *)

RemoveAspect(t, by) ==
  LET x == token[t].subject
      s == token[t].selector IN
  /\ op = NoOp
  /\ t \in live
  /\ contents' = [contents EXCEPT ![container[<<x, s>>]] = @ \ {t}]
  /\ op' = [kind |-> "remove", at |-> "restore", aspect |-> t, by |-> by]
  /\ UNCHANGED <<defined, runtime, token, live, container, tracking, executed>>

AspectRemove(t) == RemoveAspect(t, Nil) /\ UNCHANGED send

\* aspect_cleanupHookedClassAndSelector restores the implementation and
\* deregisters the selector, ...
RestoreMethod ==
  /\ op.kind = "remove" /\ op.at = "restore"
  /\ imp' = IF Lookup(imp, OpClass, OpSelector) # Forward THEN imp
            ELSE [imp EXCEPT ![OpClass][OpSelector] = Lookup(alias, OpClass, OpSelector)]
  /\ Deregister(OpSubject, OpSelector)
  /\ op' = [op EXCEPT !.at = "cleanUp"]
  /\ UNCHANGED <<defined, isa, alias, forwarder, swizzledClasses, registry, send, executed>>

UndoSwizzleClassInPlace(c) ==
  /\ forwarder' = IF c \in swizzledClasses THEN [forwarder EXCEPT ![c] = "original"]
                  ELSE forwarder
  /\ swizzledClasses' = swizzledClasses \ {c}

\* Mutant: the forwardInvocation: of a class stays.
UndoOnlyObjects ==
  \/ /\ Suffixed(OpClass)
     /\ isa' = [isa EXCEPT ![OpSubject] = Base(OpClass[1])]
     /\ UNCHANGED <<forwarder, swizzledClasses>>
  \/ /\ ~Suffixed(OpClass)
     /\ UNCHANGED <<isa, forwarder, swizzledClasses>>

\* ... and, when the container is empty, undoes the change of the class.
UndoHookClass ==
  \/ /\ Suffixed(OpClass)
     /\ isa' = [isa EXCEPT ![OpSubject] = Base(OpClass[1])]
     /\ UNCHANGED <<forwarder, swizzledClasses>>
  \/ /\ ~Suffixed(OpClass)
     /\ OpSubject \in BaseClasses \/ MadeByKVO(OpClass)
     /\ UndoSwizzleClassInPlace(OpClass)
     /\ UNCHANGED isa
  \/ /\ ~Suffixed(OpClass)
     /\ OpSubject \in Objects /\ ~MadeByKVO(OpClass)
     /\ UNCHANGED <<isa, forwarder, swizzledClasses>>

CleanUp ==
  /\ op.kind = "remove" /\ op.at = "cleanUp"
  /\ \/ /\ contents[OpContainer] = {}
        /\ container' = [container EXCEPT ![<<OpSubject, OpSelector>>] = 0]
        /\ UndoHookClass
     \/ /\ contents[OpContainer] # {}
        /\ UNCHANGED <<isa, forwarder, swizzledClasses, container>>
  /\ live' = live \ {op.aspect}
  /\ op' = NoOp
  /\ UNCHANGED <<defined, imp, alias, token, contents, tracking, send, executed>>
-----------------------------------------------------------------------------
(* Sending a message.                                                      *)

\* objc_msgSend finds _objc_msgForward.  (Any other implementation is run at
\* once and changes nothing here.)
Send(x, o, s) ==
  /\ send[x].at = "idle"
  /\ isa[o] # Nil
  /\ Lookup(imp, isa[o], s) = Forward
  /\ send' = [send EXCEPT ![x] = [NoSend EXCEPT !.at = "forward", !.object = o, !.selector = s]]
  /\ UNCHANGED <<defined, runtime, registry, tracking, op, executed>>

\* aspect_getContainerForClass: of the nearest class that has aspects.  With none
\* the search ends at NSObject, above all classes here, which has no container.
ContainerForClass(c, s) ==
  LET cs == {d \in Up(c) \cap BaseClasses : container[<<d, s>>] # 0 /\ contents[container[<<d, s>>]] # {}} IN
  IF cs = {} THEN 0 ELSE container[<<Nearest(cs), s>>]

\* The aspects for a position in some containers.
AspectsAt(ids, position) ==
  {t \in UNION {contents[i] : i \in ids \ {0}} : token[t].position = position}

\* Mutant: every run through aspects begins the list of those to remove anew.
InvokeNotesAnew(x, aspects, next) ==
  LET automatic == {t \in aspects : token[t].automatic} IN
  send' = [send EXCEPT ![x] = [next EXCEPT !.remove = automatic,
                                           !.called = @ \cup automatic]]

\* aspect_invoke: the aspects are called; those removed automatically are noted.
Invoke(x, aspects, next) ==
  LET automatic == {t \in aspects : token[t].automatic} IN
  send' = [send EXCEPT ![x] = [next EXCEPT !.remove = @ \cup automatic,
                                           !.called = @ \cup automatic]]

\* The forwardInvocation: that is found now: NSObject's does not recognize the
\* selector, __ASPECTS_ARE_BEING_CALLED__ reads the containers and calls the
\* aspects before the method.
ForwardMessage(x) ==
  LET o == send[x].object
      s == send[x].selector
      ids == {container[<<o, s>>], ContainerForClass(isa[o], s)} IN
  /\ send[x].at = "forward"
  /\ \/ /\ ForwardInvocation(isa[o]) = "original"
        /\ send' = [send EXCEPT ![x].at = "raise", ![x].result = "unrecognized"]
     \/ /\ ForwardInvocation(isa[o]) = "aspects"
        /\ Invoke(x, AspectsAt(ids, "before"),
                  [send[x] EXCEPT !.at = "instead", !.containers = ids])
  /\ UNCHANGED <<defined, runtime, registry, tracking, op, executed>>

\* Mutant: any aspect makes the original method be left out.
AnyAspectIsInstead(x) ==
  LET m == Lookup(alias, isa[send[x].object], send[x].selector) IN
  /\ send[x].at = "instead"
  /\ send' = IF UNION {contents[i] : i \in send[x].containers \ {0}} # {}
             THEN [send EXCEPT ![x].at = "runInstead"]
             ELSE [send EXCEPT ![x].at = "after",
                               ![x].result = IF m = Nil THEN "unrecognized" ELSE m]
  /\ UNCHANGED <<defined, runtime, registry, tracking, op, executed>>

\* With no aspect instead of the method, the alias is called, if there is one.
\* If not, respondsToAlias is NO.
InsteadOrOriginal(x) ==
  LET m == Lookup(alias, isa[send[x].object], send[x].selector) IN
  /\ send[x].at = "instead"
  /\ send' = IF AspectsAt(send[x].containers, "instead") # {}
             THEN [send EXCEPT ![x].at = "runInstead"]
             ELSE [send EXCEPT ![x].at = "after",
                               ![x].result = IF m = Nil THEN "unrecognized" ELSE m]
  /\ UNCHANGED <<defined, runtime, registry, tracking, op, executed>>

\* The arrays are read again after their counts.
RunInstead(x) ==
  LET aspects == AspectsAt(send[x].containers, "instead") IN
  /\ send[x].at = "runInstead"
  /\ Invoke(x, aspects, [send[x] EXCEPT
       !.at = "after", !.result = IF aspects = {} THEN "skipped" ELSE "instead"])
  /\ UNCHANGED <<defined, runtime, registry, tracking, op, executed>>

\* The aspects after the method are called, then a send that found no alias goes
\* to the original forwardInvocation: or to doesNotRecognizeSelector:.
RunAfter(x) ==
  /\ send[x].at = "after"
  /\ Invoke(x, AspectsAt(send[x].containers, "after"),
            [send[x] EXCEPT !.containers = {},
               !.at = IF send[x].result = "unrecognized" THEN "raise" ELSE "remove"])
  /\ UNCHANGED <<defined, runtime, registry, tracking, op, executed>>

\* The exception leaves the function: nothing is removed.
Raise(x) ==
  /\ send[x].at = "raise"
  /\ send' = [send EXCEPT ![x] = NoSend]
  /\ UNCHANGED <<defined, runtime, registry, tracking, op, executed>>

\* The aspects noted are removed, then the send is over.
RemoveNoted(x) ==
  /\ send[x].at = "remove"
  /\ \/ \E t \in send[x].remove :
          /\ send' = [send EXCEPT ![x].remove = @ \ {t}]
          /\ RemoveAspect(t, x)
     \/ \E t \in send[x].remove \ live :
          /\ op = NoOp
          /\ send' = [send EXCEPT ![x].remove = @ \ {t}]
          /\ UNCHANGED <<defined, runtime, registry, tracking, op, executed>>
     \/ /\ send[x].remove = {} /\ op.by # x
        /\ send' = [send EXCEPT ![x] = NoSend]
        /\ executed' = executed \cup send[x].called
        /\ UNCHANGED <<defined, runtime, registry, tracking, op>>

\* An object nobody uses is deallocated: its containers go with it, and the
\* weak references of its aspects become nil.
Dealloc(o) ==
  /\ isa[o] # Nil
  /\ \A x \in Senders : send[x].at # "idle" => send[x].object # o
  /\ op # NoOp => OpSubject # o
  /\ isa' = [isa EXCEPT ![o] = Nil]
  /\ live' = {t \in live : token[t].subject # o}
  /\ container' = [y \in Subjects \X Selectors |-> IF y[1] = o THEN 0 ELSE container[y]]
  /\ UNCHANGED <<defined, imp, alias, forwarder, swizzledClasses, token, contents,
                 tracking, op, send, executed>>
-----------------------------------------------------------------------------
LockHolder == HookClass \/ AddAlias \/ ReplaceMethod \/ RestoreMethod \/ CleanUp

Sending(x) ==
  \/ ForwardMessage(x)
  \/ InsteadOrOriginal(x)
  \/ RunInstead(x)
  \/ RunAfter(x)
  \/ Raise(x)
  \/ RemoveNoted(x)

\* The program does not hook the class objects that KVO made.
Hookable == Objects \cup {c \in BaseClasses : ~MadeByKVO(c)}

Next ==
  \/ \E x \in Hookable, s \in Selectors, t \in Tokens :
       \/ \E option \in Options : AspectAdd(t, x, s, option)
       \/ AspectAddFails(t, x, s)
  \/ \E t \in Tokens : AspectRemove(t)
  \/ LockHolder
  \/ \E x \in Senders : Sending(x) \/ \E o \in Objects, s \in Selectors : Send(x, o, s)
  \/ \E o \in Objects : Dealloc(o)

Spec == Init /\ [][Next]_vars
-----------------------------------------------------------------------------
Implementations == Names \cup {Nil, Forward}

\* The values of the variables.
TypeOK ==
  /\ defined \in Definitions
  /\ isa \in [Objects -> Classes \cup {Nil}]
  /\ imp \in [Classes -> [Selectors -> Implementations]]
  /\ alias \in [Classes -> [Selectors -> Implementations]]
  /\ forwarder \in [Classes -> {"none", "aspects", "original"}]
  /\ swizzledClasses \subseteq BaseClasses
  /\ token \in [Tokens -> {Nil, Refused} \cup Registration]
  /\ live \subseteq Tokens /\ executed \subseteq Tokens
  /\ container \in [Subjects \X Selectors -> 0..Len(contents)]
  /\ contents \in Seq(SUBSET Tokens)
  /\ op.aspect \in Tokens \cup {Nil} /\ op.by \in Senders \cup {Nil}
  /\ \A x \in Senders : send[x].remove \subseteq Tokens /\ send[x].called \subseteq Tokens

\* The class that implements s for instances of n in the program.
Definers(n, s) == {Base(m) : m \in {k \in Above[n] : <<k, s>> \in defined}}

\* The implementation that instances of c have of s in the program.
Original(c, s) == Nearest(Definers(c[1], s))[1]

\* A class that forwards a selector finds an alias for it, its own or one of a
\* superclass, and whatever a class keeps under the alias is the implementation
\* the program gives that very class, not _objc_msgForward and not what an earlier
\* removal put into the class: the assertion of aspect_cleanupHookedClassAndSelector
\* ("Original implementation not found") never fails and no send ends in a loop of
\* forwards.  (An alias that a class inherits is the superclass's implementation,
\* see OriginalCalled.)
AliasKept ==
  \A c \in Classes, s \in Selectors :
    /\ imp[c][s] = Forward => Lookup(alias, c, s) # Nil
    /\ alias[c][s] # Nil => alias[c][s] = Original(c, s)

NothingRemoved ==
  /\ op.kind # "remove"
  /\ \A t \in Tokens : token[t] \notin {Nil, Refused} => t \in live

\* What the aliases of the receiver's class and of its superclasses stand for.
AliasedOriginals(o, s) ==
  {Original(c, s) : c \in {d \in Up(isa[o]) : alias[d][s] # Nil}}

\* aspect_add changes the class before it registers the alias and the alias
\* before it forwards the selector.  So while aspects are only added, a send
\* that overlaps with aspect_add in any way is not lost: it gets to an aspect
\* instead of the method, or to the method as the receiver's class or the hooked
\* superclass with the alias has it in the program.
AddingIsSafe ==
  NothingRemoved =>
    \A x \in Senders :
      \/ send[x].result \in {"none", "instead"}
      \/ send[x].result \in AliasedOriginals(send[x].object, send[x].selector)

\* "Make a method alias for the existing method implementation" (comment in
\* aspect_prepareClassAndHookSelector), "Called before the original implementation"
\* (AspectPositionBefore): the method that runs between the aspects is the one
\* the receiver's class has in the program.  It is not if a superclass is hooked
\* before an object of a class that overrides the method: instances respond to the
\* inherited alias, no other one is made, and the override is not called.
OriginalCalled ==
  \A x \in Senders :
    send[x].result \in Names =>
      send[x].result = Original(isa[send[x].object], send[x].selector)

\* Does the aspect t concern messages to o: it was added to o, or to the
\* nearest class with aspects, and no class in between overrides the method.
Concerns(t, o) ==
  LET x == token[t].subject
      s == token[t].selector IN
  \/ x = o
  \/ /\ x \in Up(isa[o])
     /\ container[<<x, s>>] = ContainerForClass(isa[o], s)
     /\ Nearest(Definers(ClassOf[o], s)) \in Up(x)

\* Do messages s to o get to __ASPECTS_ARE_BEING_CALLED__?
Intercepted(o, s) ==
  /\ Lookup(imp, isa[o], s) = Forward
  /\ ForwardInvocation(isa[o]) = "aspects"

\* "Check if there are any hooks remaining. Clean up if there are not"
\* (aspect_cleanupHookedClassAndSelector): hooks that remain stay in effect, so
\* every aspect that is registered is called.  It holds only until one of several
\* aspects is removed, for that restores the implementation for all of them.
HooksRemain ==
  op = NoOp =>
    \A t \in live, o \in Objects :
      isa[o] # Nil /\ Concerns(t, o) => Intercepted(o, token[t].selector)

\* While aspects are only added, to classes and to objects of theirs in any
\* order, no aspect silences another one: all are called.
AddingKeepsHooks == NothingRemoved => HooksRemain

\* "A method can only be hooked once per class hierarchy" (error text of
\* aspect_isSelectorAllowedAndTrack): while aspects are only added, no two
\* classes, one a subclass of the other, have aspects for the same selector.
OncePerHierarchy ==
  NothingRemoved =>
    \A t, u \in live :
      (/\ token[t].selector = token[u].selector
       /\ token[t].subject \in BaseClasses
       /\ token[u].subject \in Up(token[t].subject))
        => token[t].subject = token[u].subject

\* "Will undo the runtime changes made" (aspect_cleanupHookedClassAndSelector):
\* once all aspects are removed, in any order, every object is an instance of
\* its class again, and every class has its implementations and the
\* forwardInvocation: of NSObject back.  (Not so where a superclass is hooked
\* before a class that overrides the method: the alias is then inherited.)
Restored ==
  (op = NoOp /\ \A t \in Tokens : token[t] \notin {Nil, Refused} => t \notin live /\ Alive(token[t].subject)) =>
    /\ \A o \in Objects : isa[o] \in {Base(ClassOf[o]), Nil}
    /\ \A n \in Names : ForwardInvocation(Base(n)) = "original"
    /\ \A n \in Names, s \in Selectors :
         LET m == Lookup(imp, Base(n), s)
             cs == Definers(n, s) IN
         m # Forward /\ (\A c \in cs : cs = {c} => m = c[1])

\* "Will remove the hook after the first execution" (AutomaticRemoval): as soon as
\* one of the sends that called such an aspect returns, it is removed, even if
\* several sends called it at once.  A send that returns is the condition: one that
\* lost its alias ends in doesNotRecognizeSelector: before the removal, and what
\* it called stays hooked until another send of the message returns.
AutomaticallyRemoved == executed \cap live = {}
=============================================================================
