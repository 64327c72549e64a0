---------------------------- MODULE SKGCDAdditions ----------------------------
(***************************************************************************)
(* Reading and writing a file with several threads                         *)
(* (Thread&Lock/GCD/SKGCDAdditions.m): readMethod and writeMethod do it    *)
(* under a pthread_rwlock, readMethod01 and writeMethod01 in blocks and    *)
(* barrier blocks of a concurrent queue.  The methods are code for the     *)
(* interpreter of module Dispatch.                                         *)
(***************************************************************************)
EXTENDS Dispatch

\* The statements that access the file.
Read == Log("read")
Write == Log("write")

readMethod == <<Do("rdlock"), Read, Do("unlock")>>

\* Mutant: the writer takes the lock for reading.
writeMethodSharesLock == <<Do("rdlock"), Write, Do("unlock")>>

writeMethod == <<Do("wrlock"), Write, Do("unlock")>>

\* The queue of the object is "concurrent"; b is the block that is submitted,
\* <<Read>> or <<Write>>.
readMethod01(b) == Async("concurrent", b)
writeMethod01(b) == Barrier("concurrent", b)

Accesses(d, b) == \E i \in 1..Len(Code[d][b]) : Code[d][b][i] \in {Read, Write}

\* The file is accessed with the lock: by calls of readMethod and writeMethod.
ByLock(d) == \A b \in Blocks : Accesses(d, b) => Code[d][b] \in {readMethod, writeMethod}

\* The file is accessed on the queue: by the blocks of calls of readMethod01 and
\* writeMethod01.
ByQueue(d) ==
  /\ ~Accesses(d, "method")
  /\ \A b \in Blocks : Accesses(d, b) => Code[d][b] \in {<<Read>>, <<Write>>}
  /\ \A a \in Blocks : \A i \in 1..Len(Code[d][a]) :
       LET s == Code[d][a][i] IN
         s.op \in Starts /\ Accesses(d, s.b) =>
           \/ s = readMethod01(s.b) /\ Code[d][s.b] = <<Read>>
           \/ s = writeMethod01(s.b) /\ Code[d][s.b] = <<Write>>

\* Any number of calls, in any order and by any blocks, but a demo does not mix
\* the two ways.
ASSUME FileAssumption == \A d \in Demos : ByLock(d) \/ ByQueue(d)
-----------------------------------------------------------------------------
\* The block is at its access to the file.
Accessing(b, access) == At(b, {"log"}) /\ Stmt(b) = access

RW == INSTANCE ReadersWriters WITH
        Actors <- Blocks,
        reading <- {b \in Blocks : Accessing(b, Read)},
        writing <- {b \in Blocks : Accessing(b, Write)}

\* The three rules of the comment at the top of SKGCDAdditions.m: accesses to
\* the file by readMethod and writeMethod, or by readMethod01 and writeMethod01,
\* implement ReadersWriters - one writer at a time, several readers at a time,
\* never both.
FileRules == RW!RWSpec
=============================================================================
