---------------------------- MODULE DispatchProofs ----------------------------
(***************************************************************************)
(* Proofs about Dispatch and SKGCDAdditions, for every table of demos:     *)
(* what is stuck stays stuck, every step takes a block on to its end, and  *)
(* the accesses to the file of SKGCDAdditions, with the lock or on the     *)
(* queue, implement ReadersWriters.                                        *)
(***************************************************************************)
EXTENDS SKGCDAdditions, Integers, TLAPS

\* A leaf that names no prover is tried with SMT, with Zenon, and at length with
\* SMT again.
USE SMT, Zenon, SMTT(30)

\* What is left of a queue when its first element is taken off.
LEMMA TailElements ==
  ASSUME NEW S, NEW s \in Seq(S), s # <<>>
  PROVE  /\ Head(s) \in S /\ Tail(s) \in Seq(S) /\ Len(Tail(s)) = Len(s) - 1
         /\ \A i \in 1..Len(Tail(s)) : Tail(s)[i] = s[i + 1]
OBVIOUS

\* The statement a block is at is a statement of its demo.
LEMMA StmtType ==
  ASSUME DispatchTypeOK, NEW b \in Blocks, NEW ops, At(b, ops)
  PROVE /\ Stmt(b) \in Statement /\ Stmt(b).op \in ops
        /\ Stmt(b).op \in Submits => Stmt(b) \in Submission
        /\ Stmt(b).op \in {"call", "thread"} => Stmt(b).b \in Blocks
<1>1. demo \in Demos /\ Code[demo] \in [Blocks -> Seq(Statement)]
  BY CodeAssumption DEF DispatchTypeOK
<1>2. Code[demo][b] \in Seq(Statement)
  BY <1>1
<1>3. nextStmt[b] \in 1..Len(Code[demo][b])
  BY <1>2 DEF DispatchTypeOK, At
<1> QED
  BY <1>1, <1>2, <1>3, CodeAssumption DEF At, Stmt

\* Every step keeps the types.
LEMMA DispatchTypeStep == DispatchTypeOK /\ [DispatchNext]_dispatchVars => DispatchTypeOK'
<1> SUFFICES ASSUME DispatchTypeOK, [DispatchNext]_dispatchVars PROVE DispatchTypeOK'
  OBVIOUS
<1> USE DEF DispatchTypeOK
<1>1. ASSUME NEW b \in Blocks, DoLog(b) PROVE DispatchTypeOK'
  <2>1. Stmt(b).b \in STRING
    BY <1>1, StmtType DEF DoLog, Statement
  <2>2. log' \in Seq(STRING)
    BY <1>1, <2>1 DEF DoLog
  <2> QED BY <1>1, <2>2 DEF DoLog, Advance
<1>2. ASSUME NEW b \in Blocks, DispatchAsync(b) PROVE DispatchTypeOK'
  <2>1. Stmt(b).q \in Queues /\ Stmt(b).b \in Blocks
    <3>1. At(b, {"async", "barrier", "groupAsync"})
      BY <1>2 DEF DispatchAsync
    <3>2. Stmt(b).op \in Submits /\ Stmt(b) \in Submission
      BY <3>1, StmtType DEF Submits
    <3> QED BY <3>2 DEF Submission
  <2> QED BY <1>2, <2>1 DEF DispatchAsync, Submit, Advance
<1>3. ASSUME NEW b \in Blocks, DispatchSync(b) PROVE DispatchTypeOK'
  <2>1. Stmt(b).q \in Queues /\ Stmt(b).b \in Blocks
    <3>1. At(b, {"sync"})
      BY <1>3 DEF DispatchSync
    <3>2. Stmt(b).op \in Submits /\ Stmt(b) \in Submission
      BY <3>1, StmtType DEF Submits
    <3> QED BY <3>2 DEF Submission
  <2> QED BY <1>3, <2>1 DEF DispatchSync, Submit
<1>4. ASSUME NEW b \in Blocks, CallBlock(b) PROVE DispatchTypeOK'
  <2>1. Stmt(b).b \in Blocks
    <3>1. At(b, {"call", "thread"})
      BY <1>4 DEF CallBlock
    <3> QED BY <3>1, StmtType, Zenon
  <2>2. status' \in [Blocks -> {"new", "queued", "running", "done"}]
    BY <1>4, <2>1 DEF CallBlock
  <2>3. nextStmt' \in [Blocks -> Nat \ {0}]
    <3>1. nextStmt' = nextStmt \/ nextStmt' = [nextStmt EXCEPT ![b] = @ + 1]
      BY <1>4, Zenon DEF CallBlock, Advance
    <3> QED BY <3>1
  <2>4. waitsFor' \in [Blocks -> Blocks \cup {NoBlock}]
    BY <1>4, <2>1, Zenon DEF CallBlock
  <2> QED BY <1>4, <2>2, <2>3, <2>4 DEF CallBlock
<1>5. ASSUME NEW b \in Blocks, Return(b) PROVE DispatchTypeOK'
  BY <1>5 DEF Return, Advance
<1>6. ASSUME NEW b \in Blocks, DispatchGroupNotify(b) PROVE DispatchTypeOK'
  <2>1. Stmt(b) \in Submission /\ Stmt(b).q \in Queues /\ Stmt(b).b \in Blocks
    <3>1. At(b, {"notify"})
      BY <1>6 DEF DispatchGroupNotify
    <3>2. Stmt(b).op \in Submits /\ Stmt(b) \in Submission
      BY <3>1, StmtType DEF Submits
    <3> QED BY <3>2 DEF Submission
  <2>2. notify' \in Seq(Submission)
    <3> DEFINE S == Submission
    <3> notify \in Seq(S) /\ Stmt(b) \in S
      BY <2>1
    <3> HIDE DEF S
    <3>1. Append(notify, Stmt(b)) \in Seq(S)
      OBVIOUS
    <3> QED BY <1>6, <3>1, Zenon DEF DispatchGroupNotify, S
  <2>3. fifo' \in [Queues -> Seq(Blocks)]
    <3>1. fifo' = fifo \/ fifo' = [fifo EXCEPT ![Stmt(b).q] = Append(@, Stmt(b).b)]
      BY <1>6, Zenon DEF DispatchGroupNotify, Submit
    <3>2. fifo[Stmt(b).q] \in Seq(Blocks)
      BY <2>1
    <3>3. Append(fifo[Stmt(b).q], Stmt(b).b) \in Seq(Blocks)
      BY <2>1, <3>2
    <3> QED BY <2>1, <3>1, <3>3, Zenon
  <2>4. status' \in [Blocks -> {"new", "queued", "running", "done"}]
    BY <1>6, <2>1, Zenon DEF DispatchGroupNotify, Submit
  <2>5. nextStmt' = [nextStmt EXCEPT ![b] = @ + 1] /\ nextStmt' \in [Blocks -> Nat \ {0}]
    BY <1>6 DEF DispatchGroupNotify, Advance
  <2>6. UNCHANGED <<demo, waitsFor, active, barriers, group, semphore, readers, writers, log>>
    BY <1>6 DEF DispatchGroupNotify
  <2> QED BY <2>2, <2>3, <2>4, <2>5, <2>6
<1>7. ASSUME NEW b \in Blocks, DispatchSemaphore(b) PROVE DispatchTypeOK'
  BY <1>7 DEF DispatchSemaphore, Advance
<1>8. ASSUME NEW b \in Blocks, PthreadRWLock(b) PROVE DispatchTypeOK'
  BY <1>8 DEF PthreadRWLock, Advance
<1>9. ASSUME NEW b \in Blocks, Finish(b) PROVE DispatchTypeOK'
  <2>1. CASE group' = {} /\ notify # <<>>
    <3>1. notify[1] \in Submission /\ Tail(notify) \in Seq(Submission)
      <4> HIDE DEF Submission
      <4> QED BY <2>1
    <3>2. notify[1].q \in Queues /\ notify[1].b \in Blocks
      BY <3>1 DEF Submission
    <3>3. /\ fifo' = [fifo EXCEPT ![notify[1].q] = Append(@, notify[1].b)]
          /\ status' = [status EXCEPT ![b] = "done", ![notify[1].b] = "queued"]
          /\ notify' = Tail(notify)
      BY <1>9, <2>1 DEF Finish
    <3>4. fifo' \in [Queues -> Seq(Blocks)]
      BY <3>2, <3>3
    <3>5. status' \in [Blocks -> {"new", "queued", "running", "done"}]
      BY <3>2, <3>3, Zenon
    <3> QED BY <1>9, <3>1, <3>3, <3>4, <3>5, Zenon DEF Finish
  <2>2. CASE group' # {} \/ notify = <<>>
    BY <1>9, <2>2, Zenon DEF Finish
  <2> QED BY <2>1, <2>2
<1>10. ASSUME NEW q \in Queues, StartBlock(q) PROVE DispatchTypeOK'
  <2>1. fifo[q] \in Seq(Blocks) /\ fifo[q] # <<>>
    BY <1>10 DEF StartBlock, MayStart
  <2>2. Head(fifo[q]) \in Blocks /\ Tail(fifo[q]) \in Seq(Blocks)
    BY <2>1
  <2> QED BY <1>10, <2>2 DEF StartBlock
<1>11. CASE UNCHANGED dispatchVars
  BY <1>11 DEF dispatchVars
<1> QED
  BY <1>1, <1>2, <1>3, <1>4, <1>5, <1>6, <1>7, <1>8, <1>9, <1>10, <1>11 DEF DispatchNext

\* The initial state has the types.
LEMMA DispatchTypeInit == DispatchInit => DispatchTypeOK
BY CodeAssumption DEF DispatchInit, DispatchTypeOK

\* The interpreter keeps to its types for every table of demos.
THEOREM DispatchTyped == DispatchSpec => []DispatchTypeOK
<1>1. DispatchInit => DispatchTypeOK
  BY DispatchTypeInit
<1>2. DispatchTypeOK /\ [DispatchNext]_dispatchVars => DispatchTypeOK'
  BY DispatchTypeStep
<1> QED
  BY <1>1, <1>2, PTL DEF DispatchSpec
-----------------------------------------------------------------------------
(* Dispatch: what is stuck stays stuck, and every step moves a block on.   *)

\* The statement i of a makes c run.
Names(a, i, c) ==
  i \in 1..Len(Code[demo][a]) /\ Code[demo][a][i].op \in Starts /\ Code[demo][a][i].b = c

\* Somebody did what makes c run.
Used(c) == status[c] # "new" \/ \E k \in 1..Len(notify) : notify[k].b = c

\* Only a running block waits, and only the statement that names it uses a block.
UsedInv ==
  /\ \A b \in Blocks : waitsFor[b] # NoBlock => status[b] = "running"
  /\ \A a, c \in Blocks : \A i \in 1..Len(Code[demo][a]) : Names(a, i, c) /\ Used(c) =>
       nextStmt[a] > i \/ (nextStmt[a] = i /\ waitsFor[a] = c)

\* A block is queued once, and once for the group.
QueuedInv ==
  /\ \A q \in Queues : \A i \in 1..Len(fifo[q]) : status[fifo[q][i]] = "queued"
  /\ \A p, q \in Queues : \A i \in 1..Len(fifo[p]), j \in 1..Len(fifo[q]) :
       fifo[p][i] = fifo[q][j] => p = q /\ i = j
  /\ \A k \in 1..Len(notify) : status[notify[k].b] = "new"
  /\ \A j, k \in 1..Len(notify) : notify[j].b = notify[k].b => j = k

OnceInv == DispatchTypeOK /\ UsedInv /\ QueuedInv

\* A block at a statement that makes c run finds c new.
LEMMA FindsNew ==
  ASSUME DispatchTypeOK, UsedInv, NEW b \in Blocks, NEW ops \in SUBSET Starts, At(b, ops)
  PROVE  /\ Stmt(b).b \in Blocks /\ ~Used(Stmt(b).b) /\ Names(b, nextStmt[b], Stmt(b).b)
         /\ Stmt(b).b # b /\ status[b] = "running" /\ waitsFor[b] = NoBlock
         /\ nextStmt[b] \in 1..Len(Code[demo][b])
<1>1. Stmt(b) \in Statement /\ Stmt(b).op \in ops
  BY StmtType
<1>2. Stmt(b).op \in Starts
  BY <1>1
<1>3. Stmt(b).b \in Blocks
  BY <1>2, StmtType DEF Starts, Submission
<1>4. nextStmt[b] \in 1..Len(Code[demo][b])
  <2>1. Code[demo][b] \in Seq(Statement)
    BY CodeAssumption DEF DispatchTypeOK
  <2> QED
    BY <2>1 DEF DispatchTypeOK, At
<1>5. Names(b, nextStmt[b], Stmt(b).b)
  BY <1>2, <1>4 DEF Names, Stmt
<1>6. status[b] = "running" /\ waitsFor[b] = NoBlock
  BY DEF At
<1>7. nextStmt[b] \in Nat
  BY DEF DispatchTypeOK
<1>8. waitsFor[b] # Stmt(b).b
  BY <1>3, <1>6, CodeAssumption
<1>9. ~Used(Stmt(b).b)
  BY <1>3, <1>4, <1>5, <1>7, <1>8 DEF UsedInv
<1>10. Stmt(b).b # b
  BY <1>6, <1>9 DEF Used
<1> QED
  BY <1>3, <1>4, <1>5, <1>6, <1>9, <1>10

\* What is registered for the group names a queue and a block.
LEMMA NotifyType ==
  ASSUME DispatchTypeOK
  PROVE  notify \in Seq(Submission) /\ \A k \in 1..Len(notify) : notify[k] \in Submission /\ notify[k].b \in Blocks
<1>1. notify \in Seq(Submission)
  BY DEF DispatchTypeOK
<1>2. \A k \in 1..Len(notify) : notify[k] \in Submission
  BY <1>1
<1> QED
  BY <1>1, <1>2 DEF Submission

\* A name has one statement.
LEMMA OneName ==
  ASSUME DispatchTypeOK, NEW a \in Blocks, NEW b \in Blocks, NEW i, NEW j, NEW c, Names(a, i, c), Names(b, j, c)
  PROVE  a = b /\ i = j
<1>1. demo \in Demos
  BY DEF DispatchTypeOK
<1> QED
  BY <1>1, OnceAssumption DEF Names

\* A step that advances b, and after which nothing is used but what was used
\* before and the block its statement names.
LEMMA UsedAdvance ==
  ASSUME DispatchTypeOK, UsedInv, NEW b \in Blocks, waitsFor[b] = NoBlock, demo' = demo, waitsFor' = waitsFor,
         nextStmt' = [nextStmt EXCEPT ![b] = @ + 1],
         \A c \in Blocks : status[c] = "running" => status'[c] = "running",
         \A c \in Blocks : Used(c)' => Used(c) \/ Names(b, nextStmt[b], c)
  PROVE  UsedInv'
<1>1. \A c \in Blocks : waitsFor'[c] # NoBlock => status'[c] = "running"
  BY DEF UsedInv
<1>2. ASSUME NEW a \in Blocks, NEW c \in Blocks, NEW i \in 1..Len(Code[demo][a]), Names(a, i, c), Used(c)'
      PROVE  nextStmt'[a] > i \/ (nextStmt'[a] = i /\ waitsFor'[a] = c)
  <2>0. nextStmt[a] \in Nat /\ nextStmt[b] \in Nat /\ nextStmt'[b] = nextStmt[b] + 1 /\ i \in Int
        /\ (a # b => nextStmt'[a] = nextStmt[a])
    BY DEF DispatchTypeOK
  <2>1. CASE Used(c)
    <3>1. nextStmt[a] > i \/ (nextStmt[a] = i /\ waitsFor[a] = c)
      BY <1>2, <2>1 DEF UsedInv
    <3> QED
      BY <2>0, <3>1
  <2>2. CASE Names(b, nextStmt[b], c)
    <3>1. a = b /\ i = nextStmt[b]
      BY <1>2, <2>2, OneName
    <3> QED
      BY <2>0, <3>1
  <2> QED
    BY <1>2, <2>1, <2>2
<1> QED
  BY <1>1, <1>2 DEF UsedInv, Names

\* A step of b that waits for the block its statement names.
LEMMA UsedWaits ==
  ASSUME DispatchTypeOK, UsedInv, NEW b \in Blocks, status[b] = "running", waitsFor[b] = NoBlock, demo' = demo,
         nextStmt' = nextStmt, NEW c0 \in Blocks, Names(b, nextStmt[b], c0),
         waitsFor' = [waitsFor EXCEPT ![b] = c0],
         \A c \in Blocks : status[c] = "running" => status'[c] = "running",
         \A c \in Blocks : Used(c)' => Used(c) \/ c = c0
  PROVE  UsedInv'
<1>0. waitsFor'[b] = c0 /\ \A a \in Blocks : a # b => waitsFor'[a] = waitsFor[a]
  BY DEF DispatchTypeOK
<1>1. \A c \in Blocks : waitsFor'[c] # NoBlock => status'[c] = "running"
  BY <1>0 DEF UsedInv
<1>2. ASSUME NEW a \in Blocks, NEW c \in Blocks, NEW i \in 1..Len(Code[demo][a]), Names(a, i, c), Used(c)'
      PROVE  nextStmt'[a] > i \/ (nextStmt'[a] = i /\ waitsFor'[a] = c)
  <2>1. CASE Used(c)
    <3>1. nextStmt[a] > i \/ (nextStmt[a] = i /\ waitsFor[a] = c)
      BY <1>2, <2>1 DEF UsedInv
    <3>2. a = b => waitsFor[a] # c
      BY CodeAssumption
    <3> QED
      BY <1>0, <3>1, <3>2
  <2>2. CASE c = c0
    <3>1. a = b /\ i = nextStmt[b]
      BY <1>2, <2>2, OneName
    <3> QED
      BY <1>0, <2>2, <3>1
  <2> QED
    BY <1>2, <2>1, <2>2
<1> QED
  BY <1>1, <1>2 DEF UsedInv, Names

\* A step that uses nothing new and moves no statement.
LEMMA UsedKept ==
  ASSUME DispatchTypeOK, UsedInv, demo' = demo, nextStmt' = nextStmt, waitsFor' = waitsFor,
         \A c \in Blocks : waitsFor[c] # NoBlock => status'[c] = "running",
         \A c \in Blocks : Used(c)' => Used(c)
  PROVE  UsedInv'
BY DEF UsedInv, Names

\* Submitting a block that nobody used.
LEMMA SubmitUses ==
  ASSUME DispatchTypeOK, NEW q \in Queues, NEW c \in Blocks, Submit(q, c), notify' = notify
  PROVE  /\ status'[c] = "queued" /\ \A a \in Blocks : a # c => status'[a] = status[a]
         /\ \A a \in Blocks : status[a] = "running" => status'[a] = "running"
         /\ \A a \in Blocks : Used(a)' => Used(a) \/ a = c
<1>1. status[c] = "new" /\ status' = [status EXCEPT ![c] = "queued"]
  BY DEF Submit
<1>2. status'[c] = "queued" /\ \A a \in Blocks : a # c => status'[a] = status[a]
  BY <1>1 DEF DispatchTypeOK
<1> QED
  BY <1>1, <1>2, Zenon DEF Used

\* ... and it is queued once.
LEMMA SubmitQueues ==
  ASSUME DispatchTypeOK, QueuedInv, NEW q \in Queues, NEW c \in Blocks, status[c] = "new",
         \A k \in 1..Len(notify') : notify'[k].b # c /\ \E j \in 1..Len(notify) : notify'[k] = notify[j],
         \A j, k \in 1..Len(notify') : notify'[j].b = notify'[k].b => j = k,
         fifo' = [fifo EXCEPT ![q] = Append(@, c)],
         status'[c] = "queued",
         \A a \in Blocks : a # c => status'[a] = status[a] \/ status[a] = "running"
  PROVE  QueuedInv'
<1>0. \A p \in Queues : fifo[p] \in Seq(Blocks)
  BY DEF DispatchTypeOK
<1>1. \A p \in Queues : \A i \in 1..Len(fifo[p]) : fifo[p][i] \in Blocks /\ fifo[p][i] # c
  BY <1>0 DEF QueuedInv
<1>2. \A p \in Queues : p # q => fifo'[p] = fifo[p]
  BY DEF DispatchTypeOK
<1>3. fifo'[q] = Append(fifo[q], c)
  BY DEF DispatchTypeOK
<1>4. /\ Len(fifo'[q]) = Len(fifo[q]) + 1 /\ fifo'[q][Len(fifo[q]) + 1] = c
      /\ \A i \in 1..Len(fifo[q]) : fifo'[q][i] = fifo[q][i]
      /\ Len(fifo[q]) \in Nat
  BY <1>0, <1>3
<1>5. ASSUME NEW p \in Queues, NEW i \in 1..Len(fifo'[p])
      PROVE  \/ i \in 1..Len(fifo[p]) /\ fifo'[p][i] = fifo[p][i]
             \/ p = q /\ i = Len(fifo[q]) + 1 /\ fifo'[p][i] = c
  <2>1. CASE p = q
    BY <1>4, <2>1
  <2>2. CASE p # q
    BY <1>2, <2>2
  <2> QED
    BY <2>1, <2>2
<1>6. \A p \in Queues : \A i \in 1..Len(fifo'[p]) : status'[fifo'[p][i]] = "queued"
  <2> SUFFICES ASSUME NEW p \in Queues, NEW i \in 1..Len(fifo'[p]) PROVE status'[fifo'[p][i]] = "queued"
    OBVIOUS
  <2>1. CASE i \in 1..Len(fifo[p]) /\ fifo'[p][i] = fifo[p][i]
    <3>1. status[fifo[p][i]] = "queued" /\ fifo[p][i] \in Blocks /\ fifo[p][i] # c
      BY <1>1, <2>1 DEF QueuedInv
    <3> QED
      BY <2>1, <3>1
  <2> QED
    BY <1>5, <2>1
<1>7. \A p, r \in Queues : \A i \in 1..Len(fifo'[p]), j \in 1..Len(fifo'[r]) :
        fifo'[p][i] = fifo'[r][j] => p = r /\ i = j
  <2> SUFFICES ASSUME NEW p \in Queues, NEW r \in Queues, NEW i \in 1..Len(fifo'[p]), NEW j \in 1..Len(fifo'[r]),
                      fifo'[p][i] = fifo'[r][j]
               PROVE  p = r /\ i = j
    BY Zenon
  <2>1. \/ i \in 1..Len(fifo[p]) /\ fifo'[p][i] = fifo[p][i] /\ fifo[p][i] # c
        \/ p = q /\ i = Len(fifo[q]) + 1 /\ fifo'[p][i] = c
    BY <1>1, <1>5
  <2>2. \/ j \in 1..Len(fifo[r]) /\ fifo'[r][j] = fifo[r][j] /\ fifo[r][j] # c
        \/ r = q /\ j = Len(fifo[q]) + 1 /\ fifo'[r][j] = c
    BY <1>1, <1>5
  <2> QED
    BY <2>1, <2>2 DEF QueuedInv
<1>8. \A k \in 1..Len(notify') : status'[notify'[k].b] = "new"
  <2> SUFFICES ASSUME NEW k \in 1..Len(notify') PROVE status'[notify'[k].b] = "new"
    OBVIOUS
  <2>1. PICK j \in 1..Len(notify) : notify'[k] = notify[j]
    OBVIOUS
  <2>2. status[notify[j].b] = "new"
    BY DEF QueuedInv
  <2>3. notify[j] \in Submission
    BY DEF DispatchTypeOK
  <2>4. notify[j].b \in Blocks /\ notify[j].b # c
    BY <2>1, <2>3 DEF Submission
  <2> QED
    BY <2>1, <2>2, <2>4, Zenon
<1> QED
  BY <1>6, <1>7, <1>8, Zenon DEF QueuedInv

\* A block that is called in place or on a thread of its own is not queued.
LEMMA CallQueues ==
  ASSUME DispatchTypeOK, QueuedInv, NEW c \in Blocks, ~Used(c), fifo' = fifo, notify' = notify,
         status' = [status EXCEPT ![c] = "running"]
  PROVE  QueuedInv'
<1>0. \A p \in Queues : \A i \in 1..Len(fifo[p]) : fifo[p][i] \in Blocks
  BY DEF DispatchTypeOK
<1>1. status'[c] = "running" /\ \A a \in Blocks : a # c => status'[a] = status[a]
  BY DEF DispatchTypeOK
<1>2. \A k \in 1..Len(notify) : notify[k].b \in Blocks /\ notify[k].b # c
  <2>1. \A k \in 1..Len(notify) : notify[k] \in Submission
    BY DEF DispatchTypeOK
  <2> QED
    BY <2>1 DEF Used, Submission
<1>3. status[c] = "new"
  BY DEF Used
<1> QED
  BY <1>0, <1>1, <1>2, <1>3 DEF QueuedInv

\* Registering c for the group.
LEMMA NotifyQueues ==
  ASSUME DispatchTypeOK, QueuedInv, NEW s \in Submission, ~Used(s.b), fifo' = fifo, status' = status,
         notify' = Append(notify, s)
  PROVE  QueuedInv'
<1>0. notify \in Seq(Submission) /\ Len(notify) \in Nat
  BY DEF DispatchTypeOK
<1>1. /\ Len(notify') = Len(notify) + 1 /\ notify'[Len(notify) + 1] = s
      /\ \A k \in 1..Len(notify) : notify'[k] = notify[k]
  BY <1>0
<1>2. status[s.b] = "new" /\ \A k \in 1..Len(notify) : notify[k].b # s.b
  BY DEF Used
<1>3. ASSUME NEW k \in 1..Len(notify') PROVE k \in 1..Len(notify) \/ k = Len(notify) + 1
  BY <1>0, <1>1
<1>4. \A k \in 1..Len(notify') : status[notify'[k].b] = "new"
  <2> SUFFICES ASSUME NEW k \in 1..Len(notify') PROVE status[notify'[k].b] = "new"
    OBVIOUS
  <2>1. CASE k \in 1..Len(notify)
    BY <1>1, <2>1 DEF QueuedInv
  <2>2. CASE k = Len(notify) + 1
    BY <1>1, <1>2, <2>2
  <2> QED
    BY <1>3, <2>1, <2>2
<1>5. ASSUME NEW j \in 1..Len(notify'), NEW k \in 1..Len(notify'), notify'[j].b = notify'[k].b PROVE j = k
  <2>1. CASE j \in 1..Len(notify) /\ k \in 1..Len(notify)
    BY <1>1, <1>5, <2>1 DEF QueuedInv
  <2>2. CASE j = Len(notify) + 1
    BY <1>1, <1>2, <1>3, <1>5, <2>2
  <2>3. CASE k = Len(notify) + 1
    BY <1>1, <1>2, <1>3, <1>5, <2>3
  <2> QED
    BY <1>3, <2>1, <2>2, <2>3, Zenon
<1> QED
  BY <1>4, <1>5 DEF QueuedInv

\* A block that starts leaves its queue for good.
LEMMA StartQueues ==
  ASSUME DispatchTypeOK, QueuedInv, NEW q \in Queues, fifo[q] # <<>>,
         fifo' = [fifo EXCEPT ![q] = Tail(@)], notify' = notify,
         status' = [status EXCEPT ![Head(fifo[q])] = "running"]
  PROVE  QueuedInv' /\ Head(fifo[q]) \in Blocks /\ status[Head(fifo[q])] = "queued"
<1> DEFINE c == Head(fifo[q])
<1>0. \A p \in Queues : fifo[p] \in Seq(Blocks)
  BY DEF DispatchTypeOK
<1>1. c \in Blocks /\ c = fifo[q][1] /\ 1 \in 1..Len(fifo[q]) /\ Len(fifo[q]) \in Nat
  BY <1>0
<1>2. status[c] = "queued"
  BY <1>1 DEF QueuedInv
<1>3. status'[c] = "running" /\ \A a \in Blocks : a # c => status'[a] = status[a]
  BY <1>1 DEF DispatchTypeOK
<1>4. \A p \in Queues : p # q => fifo'[p] = fifo[p]
  BY DEF DispatchTypeOK
<1>5. fifo'[q] = Tail(fifo[q])
  BY DEF DispatchTypeOK
<1>6. ASSUME NEW i \in 1..Len(fifo'[q]) PROVE i + 1 \in 1..Len(fifo[q]) /\ fifo'[q][i] = fifo[q][i + 1]
  <2>1. fifo[q] \in Seq(Blocks) /\ fifo[q] # <<>>
    BY <1>0
  <2>2. /\ Len(Tail(fifo[q])) = Len(fifo[q]) - 1
        /\ \A k \in 1..Len(Tail(fifo[q])) : Tail(fifo[q])[k] = fifo[q][k + 1]
    BY <2>1, TailElements, Zenon
  <2>3. i \in 1..Len(Tail(fifo[q])) /\ fifo'[q][i] = fifo[q][i + 1]
    BY <1>5, <2>2, Zenon
  <2>4. i \in 1..(Len(fifo[q]) - 1)
    BY <2>2, <2>3, Zenon
  <2>5. i + 1 \in 1..Len(fifo[q])
    BY <1>1, <2>4
  <2> QED
    BY <2>3, <2>5
<1>7. ASSUME NEW p \in Queues, NEW i \in 1..Len(fifo'[p])
      PROVE  \E j \in 1..Len(fifo[p]) : /\ fifo'[p][i] = fifo[p][j] /\ fifo[p][j] \in Blocks /\ fifo[p][j] # c
                                       /\ j = (IF p = q THEN i + 1 ELSE i)
  <2>1. CASE p = q
    <3>1. i + 1 \in 1..Len(fifo[q]) /\ fifo'[q][i] = fifo[q][i + 1] /\ i + 1 # 1 /\ fifo[q][i + 1] \in Blocks
      BY <1>0, <1>1, <1>6, <2>1
    <3>2. fifo[q][i + 1] # c
      BY <1>1, <3>1 DEF QueuedInv
    <3> QED
      BY <2>1, <3>1, <3>2
  <2>2. CASE p # q
    <3>1. i \in 1..Len(fifo[p]) /\ fifo'[p][i] = fifo[p][i] /\ fifo[p][i] \in Blocks
      BY <1>0, <1>4, <2>2
    <3>2. fifo[p][i] # c
      BY <1>1, <2>2, <3>1 DEF QueuedInv
    <3> QED
      BY <2>2, <3>1, <3>2
  <2> QED
    BY <2>1, <2>2
<1>8. \A p \in Queues : \A i \in 1..Len(fifo'[p]) : status'[fifo'[p][i]] = "queued"
  <2> SUFFICES ASSUME NEW p \in Queues, NEW i \in 1..Len(fifo'[p]) PROVE status'[fifo'[p][i]] = "queued"
    BY Zenon
  <2>1. PICK j \in 1..Len(fifo[p]) : fifo'[p][i] = fifo[p][j] /\ fifo[p][j] \in Blocks /\ fifo[p][j] # c
    BY <1>7, Zenon
  <2>2. status[fifo[p][j]] = "queued"
    BY DEF QueuedInv
  <2> QED
    BY <1>3, <2>1, <2>2
<1>9. ASSUME NEW p \in Queues, NEW r \in Queues, NEW i \in 1..Len(fifo'[p]), NEW j \in 1..Len(fifo'[r]),
             fifo'[p][i] = fifo'[r][j]
      PROVE  p = r /\ i = j
  <2>1. PICK k \in 1..Len(fifo[p]) : fifo'[p][i] = fifo[p][k] /\ k = (IF p = q THEN i + 1 ELSE i)
    BY <1>7, Zenon
  <2>2. PICK l \in 1..Len(fifo[r]) : fifo'[r][j] = fifo[r][l] /\ l = (IF r = q THEN j + 1 ELSE j)
    BY <1>7, Zenon
  <2>3. p = r /\ k = l
    BY <1>9, <2>1, <2>2 DEF QueuedInv
  <2>4. i \in Int /\ j \in Int
    OBVIOUS
  <2> QED
    BY <2>1, <2>2, <2>3, <2>4
<1>10. \A k \in 1..Len(notify') : status'[notify'[k].b] = "new"
  <2> SUFFICES ASSUME NEW k \in 1..Len(notify) PROVE status'[notify[k].b] = "new"
    OBVIOUS
  <2>1. status[notify[k].b] = "new"
    BY DEF QueuedInv
  <2>2. notify[k] \in Submission
    BY DEF DispatchTypeOK
  <2>3. notify[k].b \in Blocks /\ notify[k].b # c
    BY <1>2, <2>1, <2>2 DEF Submission
  <2> QED
    BY <1>3, <2>1, <2>3
<1>11. \A j, k \in 1..Len(notify') : notify'[j].b = notify'[k].b => j = k
  BY DEF QueuedInv
<1> QED
  BY <1>1, <1>2, <1>8, <1>9, <1>10, <1>11 DEF QueuedInv

\* The same when the group is left alone.
LEMMA SubmitFresh ==
  ASSUME DispatchTypeOK, QueuedInv, NEW q \in Queues, NEW c \in Blocks, Submit(q, c), ~Used(c), notify' = notify,
         status'[c] = "queued", \A a \in Blocks : a # c => status'[a] = status[a]
  PROVE  QueuedInv'
<1>1. status[c] = "new" /\ fifo' = [fifo EXCEPT ![q] = Append(@, c)]
  BY DEF Submit
<1>2. \A k \in 1..Len(notify') : notify'[k].b # c /\ \E j \in 1..Len(notify) : notify'[k] = notify[j]
  BY DEF Used
<1>3. \A j, k \in 1..Len(notify') : notify'[j].b = notify'[k].b => j = k
  BY DEF QueuedInv
<1> QED
  BY <1>1, <1>2, <1>3, SubmitQueues, Zenon

\* The end of a block, and of the group with it.
LEMMA FinishOnce ==
  ASSUME DispatchTypeOK, UsedInv, QueuedInv, NEW b \in Blocks, Finish(b)
  PROVE  UsedInv' /\ QueuedInv'
<1>0. status[b] = "running" /\ waitsFor[b] = NoBlock /\ UNCHANGED <<demo, nextStmt, waitsFor>>
  BY DEF Finish
<1>n. notify \in Seq(Submission) /\ \A k \in 1..Len(notify) : notify[k] \in Submission /\ notify[k].b \in Blocks
  BY NotifyType
<1>1. CASE UNCHANGED <<fifo, notify>> /\ status' = [status EXCEPT ![b] = "done"]
  <2>1. status'[b] = "done" /\ \A a \in Blocks : a # b => status'[a] = status[a]
    BY <1>1 DEF DispatchTypeOK
  <2>2. \A p \in Queues : \A i \in 1..Len(fifo[p]) : fifo[p][i] \in Blocks
    BY DEF DispatchTypeOK
  <2>3. QueuedInv'
    BY <1>0, <1>1, <1>n, <2>1, <2>2 DEF QueuedInv
  <2>4. \A c \in Blocks : Used(c)' => Used(c)
    BY <1>0, <1>1, <2>1 DEF Used
  <2>5. \A c \in Blocks : waitsFor[c] # NoBlock => status'[c] = "running"
    BY <1>0, <2>1 DEF UsedInv
  <2> QED
    BY <1>0, <2>3, <2>4, <2>5, UsedKept
<1>2. CASE /\ notify # <<>>
           /\ fifo' = [fifo EXCEPT ![notify[1].q] = Append(@, notify[1].b)]
           /\ status' = [status EXCEPT ![b] = "done", ![notify[1].b] = "queued"]
           /\ notify' = Tail(notify)
  <2> DEFINE c == notify[1].b
             q == notify[1].q
  <2>1. 1 \in 1..Len(notify) /\ Len(notify) \in Nat
    BY <1>2, <1>n
  <2>2. c \in Blocks /\ q \in Queues /\ status[c] = "new" /\ c # b
    BY <1>0, <1>n, <2>1 DEF QueuedInv, Submission
  <2>3. /\ Len(notify') = Len(notify) - 1
        /\ \A k \in 1..Len(notify') : notify'[k] = notify[k + 1]
    BY <1>2, <1>n, TailElements, Zenon
  <2>4. \A k \in 1..Len(notify') : k + 1 \in 1..Len(notify) /\ k + 1 # 1
    BY <2>1, <2>3
  <2>5. \A k \in 1..Len(notify') : notify'[k].b # c /\ \E j \in 1..Len(notify) : notify'[k] = notify[j]
    BY <2>1, <2>3, <2>4 DEF QueuedInv
  <2>6. \A j, k \in 1..Len(notify') : notify'[j].b = notify'[k].b => j = k
    <3> SUFFICES ASSUME NEW j \in 1..Len(notify'), NEW k \in 1..Len(notify'), notify'[j].b = notify'[k].b
                 PROVE  j = k
      OBVIOUS
    <3>1. j + 1 = k + 1
      BY <2>3, <2>4 DEF QueuedInv
    <3> QED
      BY <3>1
  <2>7. status'[c] = "queued" /\ status'[b] = "done" /\ \A a \in Blocks : a # c /\ a # b => status'[a] = status[a]
    BY <1>2, <2>2 DEF DispatchTypeOK
  <2>8. fifo' = [fifo EXCEPT ![q] = Append(@, c)]
    BY <1>2
  <2> HIDE DEF c, q
  <2>9. QueuedInv'
    BY <1>0, <2>2, <2>5, <2>6, <2>7, <2>8, SubmitQueues, ZenonT(30)
  <2>10. \A a \in Blocks : Used(a)' => Used(a)
    <3>1. Used(c)
      BY <2>1 DEF Used, c
    <3>2. Used(b)
      BY <1>0 DEF Used
    <3> QED
      BY <2>5, <2>7, <3>1, <3>2, Zenon DEF Used
  <2>11. \A a \in Blocks : waitsFor[a] # NoBlock => status'[a] = "running"
    BY <1>0, <2>2, <2>7 DEF UsedInv
  <2> QED
    BY <1>0, <2>9, <2>10, <2>11, UsedKept
<1> QED
  BY <1>1, <1>2, Zenon DEF Finish

\* Every step keeps a block to one use.
LEMMA OnceStep == OnceInv /\ [DispatchNext]_dispatchVars => OnceInv'
<1> SUFFICES ASSUME OnceInv, [DispatchNext]_dispatchVars PROVE UsedInv' /\ QueuedInv'
  BY DispatchTypeStep DEF OnceInv
<1>0. DispatchTypeOK /\ UsedInv /\ QueuedInv
  BY DEF OnceInv
<1>u. ASSUME UNCHANGED <<status, notify, fifo>>
      PROVE  /\ QueuedInv' /\ \A c \in Blocks : Used(c)' => Used(c)
             /\ \A c \in Blocks : status[c] = "running" => status'[c] = "running"
  BY <1>0, <1>u DEF QueuedInv, Used
<1>1. ASSUME NEW b \in Blocks, DoLog(b) \/ DispatchSemaphore(b) \/ PthreadRWLock(b) PROVE UsedInv' /\ QueuedInv'
  <2>1. /\ UNCHANGED <<status, notify, fifo, demo, waitsFor>> /\ waitsFor[b] = NoBlock
        /\ nextStmt' = [nextStmt EXCEPT ![b] = @ + 1]
    BY <1>1, Zenon DEF DoLog, DispatchSemaphore, PthreadRWLock, At, Advance
  <2> QED
    BY <1>0, <1>u, <2>1, UsedAdvance, Zenon
<1>2. ASSUME NEW b \in Blocks, DispatchAsync(b) PROVE UsedInv' /\ QueuedInv'
  <2> DEFINE c == Stmt(b).b
             q == Stmt(b).q
  <2>1. /\ c \in Blocks /\ ~Used(c) /\ Names(b, nextStmt[b], c) /\ waitsFor[b] = NoBlock
    BY <1>0, <1>2, FindsNew DEF DispatchAsync, Starts, Submits
  <2>2. q \in Queues
    BY <1>0, <1>2, StmtType DEF DispatchAsync, Submits, Submission
  <2>3. Submit(q, c) /\ UNCHANGED <<notify, demo, waitsFor>> /\ nextStmt' = [nextStmt EXCEPT ![b] = @ + 1]
    BY <1>2, Zenon DEF DispatchAsync, Advance
  <2> HIDE DEF c, q
  <2>4. /\ \A a \in Blocks : status[a] = "running" => status'[a] = "running"
        /\ \A a \in Blocks : Used(a)' => Used(a) \/ a = c
        /\ status'[c] = "queued" /\ \A a \in Blocks : a # c => status'[a] = status[a]
    BY <1>0, <2>1, <2>2, <2>3, SubmitUses
  <2>5. UsedInv'
    BY <1>0, <2>1, <2>3, <2>4, UsedAdvance, Zenon
  <2>6. QueuedInv'
    BY <1>0, <2>1, <2>2, <2>3, <2>4, SubmitFresh
  <2> QED
    BY <2>5, <2>6
<1>3. ASSUME NEW b \in Blocks, DispatchSync(b) PROVE UsedInv' /\ QueuedInv'
  <2> DEFINE c == Stmt(b).b
             q == Stmt(b).q
  <2>1. /\ c \in Blocks /\ ~Used(c) /\ Names(b, nextStmt[b], c) /\ waitsFor[b] = NoBlock /\ status[b] = "running"
    BY <1>0, <1>3, FindsNew DEF DispatchSync, Starts, Submits
  <2>2. q \in Queues
    BY <1>0, <1>3, StmtType DEF DispatchSync, Submits, Submission
  <2>3. Submit(q, c) /\ UNCHANGED <<notify, demo, nextStmt>> /\ waitsFor' = [waitsFor EXCEPT ![b] = c]
    BY <1>3, Zenon DEF DispatchSync
  <2> HIDE DEF c, q
  <2>4. /\ \A a \in Blocks : status[a] = "running" => status'[a] = "running"
        /\ \A a \in Blocks : Used(a)' => Used(a) \/ a = c
        /\ status'[c] = "queued" /\ \A a \in Blocks : a # c => status'[a] = status[a]
    BY <1>0, <2>1, <2>2, <2>3, SubmitUses
  <2>5. UsedInv'
    BY <1>0, <2>1, <2>3, <2>4, UsedWaits, Zenon
  <2>6. QueuedInv'
    BY <1>0, <2>1, <2>2, <2>3, <2>4, SubmitFresh
  <2> QED
    BY <2>5, <2>6
<1>4. ASSUME NEW b \in Blocks, CallBlock(b) PROVE UsedInv' /\ QueuedInv'
  <2> DEFINE c == Stmt(b).b
  <2>1. /\ c \in Blocks /\ ~Used(c) /\ Names(b, nextStmt[b], c) /\ waitsFor[b] = NoBlock /\ status[b] = "running"
    BY <1>0, <1>4, FindsNew DEF CallBlock, Starts
  <2>2. UNCHANGED <<notify, demo, fifo>> /\ status' = [status EXCEPT ![c] = "running"]
    BY <1>4, Zenon DEF CallBlock
  <2>3. \/ UNCHANGED nextStmt /\ waitsFor' = [waitsFor EXCEPT ![b] = c]
        \/ UNCHANGED waitsFor /\ nextStmt' = [nextStmt EXCEPT ![b] = @ + 1]
    BY <1>4, Zenon DEF CallBlock, Advance
  <2> HIDE DEF c
  <2>4. status'[c] = "running" /\ \A a \in Blocks : a # c => status'[a] = status[a]
    BY <1>0, <2>1, <2>2 DEF DispatchTypeOK
  <2>5. /\ \A a \in Blocks : status[a] = "running" => status'[a] = "running"
        /\ \A a \in Blocks : Used(a)' => Used(a) \/ a = c
    BY <2>2, <2>4, Zenon DEF Used
  <2>6. UsedInv'
    BY <1>0, <2>1, <2>2, <2>3, <2>5, UsedWaits, UsedAdvance, Zenon
  <2>7. QueuedInv'
    BY <1>0, <2>1, <2>2, CallQueues, Zenon
  <2> QED
    BY <2>6, <2>7
<1>5. ASSUME NEW b \in Blocks, Return(b) PROVE UsedInv' /\ QueuedInv'
  <2>1. /\ UNCHANGED <<status, notify, fifo, demo>> /\ waitsFor' = [waitsFor EXCEPT ![b] = NoBlock]
        /\ nextStmt' = [nextStmt EXCEPT ![b] = @ + 1]
    BY <1>5, Zenon DEF Return, Advance
  <2>2. \A a \in Blocks : a # b => waitsFor'[a] = waitsFor[a] /\ nextStmt'[a] = nextStmt[a]
    BY <1>0, <2>1 DEF DispatchTypeOK
  <2>3. waitsFor'[b] = NoBlock /\ nextStmt'[b] = nextStmt[b] + 1 /\ nextStmt[b] \in Nat
    BY <1>0, <2>1 DEF DispatchTypeOK
  <2>4. \A c \in Blocks : waitsFor'[c] # NoBlock => status'[c] = "running"
    BY <1>0, <2>1, <2>2, <2>3 DEF UsedInv
  <2>5. ASSUME NEW a \in Blocks, NEW c \in Blocks, NEW i \in 1..Len(Code[demo][a]), Names(a, i, c), Used(c)'
        PROVE  nextStmt'[a] > i \/ (nextStmt'[a] = i /\ waitsFor'[a] = c)
    <3>1. nextStmt[a] > i \/ (nextStmt[a] = i /\ waitsFor[a] = c)
      BY <1>0, <1>u, <2>1, <2>5 DEF UsedInv
    <3> QED
      BY <2>2, <2>3, <3>1
  <2>6. UsedInv'
    BY <2>1, <2>4, <2>5 DEF UsedInv, Names
  <2> QED
    BY <1>u, <2>1, <2>6
<1>6. ASSUME NEW b \in Blocks, DispatchGroupNotify(b) PROVE UsedInv' /\ QueuedInv'
  <2> DEFINE c == Stmt(b).b
             q == Stmt(b).q
  <2>1. /\ c \in Blocks /\ ~Used(c) /\ Names(b, nextStmt[b], c) /\ waitsFor[b] = NoBlock
    BY <1>0, <1>6, FindsNew DEF DispatchGroupNotify, Starts, Submits
  <2>2. q \in Queues /\ Stmt(b) \in Submission
    BY <1>0, <1>6, StmtType DEF DispatchGroupNotify, Submits, Submission
  <2>3. UNCHANGED <<demo, waitsFor>> /\ nextStmt' = [nextStmt EXCEPT ![b] = @ + 1]
    BY <1>6, Zenon DEF DispatchGroupNotify, Advance
  <2>4. CASE Submit(q, c) /\ UNCHANGED notify
    <3> HIDE DEF c, q
    <3>1. /\ \A a \in Blocks : status[a] = "running" => status'[a] = "running"
          /\ \A a \in Blocks : Used(a)' => Used(a) \/ a = c
          /\ status'[c] = "queued" /\ \A a \in Blocks : a # c => status'[a] = status[a]
      BY <1>0, <2>1, <2>2, <2>4, SubmitUses
    <3>2. UsedInv'
      BY <1>0, <2>1, <2>3, <3>1, UsedAdvance, Zenon
    <3>3. QueuedInv'
      BY <1>0, <2>1, <2>2, <2>4, <3>1, SubmitFresh
    <3> QED
      BY <3>2, <3>3
  <2>5. CASE notify' = Append(notify, Stmt(b)) /\ UNCHANGED <<fifo, status>>
    <3>1. QueuedInv'
      BY <1>0, <2>1, <2>2, <2>5, NotifyQueues
    <3>2. ASSUME NEW a \in Blocks, Used(a)' PROVE Used(a) \/ a = c
      <4>1. notify \in Seq(Submission)
        BY <1>0 DEF DispatchTypeOK
      <4>2. \A k \in 1..Len(notify') :
               (k \in 1..Len(notify) /\ notify'[k] = notify[k]) \/ notify'[k] = Stmt(b)
        BY <2>2, <2>5, <4>1
      <4> QED
        BY <2>5, <3>2, <4>2, Zenon DEF Used
    <3>3. UsedInv'
      BY <1>0, <2>1, <2>3, <2>5, <3>2, UsedAdvance, Zenon
    <3> QED
      BY <3>1, <3>3
  <2> QED
    BY <1>6, <2>4, <2>5, Zenon DEF DispatchGroupNotify
<1>7. ASSUME NEW b \in Blocks, Finish(b) PROVE UsedInv' /\ QueuedInv'
  BY <1>0, <1>7, FinishOnce, Zenon
<1>8. ASSUME NEW q \in Queues, StartBlock(q) PROVE UsedInv' /\ QueuedInv'
  <2>1. /\ fifo[q] # <<>> /\ fifo' = [fifo EXCEPT ![q] = Tail(@)] /\ notify' = notify
        /\ status' = [status EXCEPT ![Head(fifo[q])] = "running"] /\ UNCHANGED <<demo, nextStmt, waitsFor>>
    BY <1>8, Zenon DEF StartBlock, MayStart
  <2>2. QueuedInv' /\ Head(fifo[q]) \in Blocks /\ status[Head(fifo[q])] = "queued"
    BY <1>0, <2>1, StartQueues, ZenonT(30)
  <2>3. status'[Head(fifo[q])] = "running" /\ \A a \in Blocks : a # Head(fifo[q]) => status'[a] = status[a]
    BY <1>0, <2>1, <2>2 DEF DispatchTypeOK
  <2>4. UsedInv'
    <3>1. \A c \in Blocks : Used(c)' => Used(c)
      BY <2>1, <2>2, <2>3 DEF Used
    <3>2. \A c \in Blocks : waitsFor[c] # NoBlock => status'[c] = "running"
      BY <1>0, <2>3 DEF UsedInv
    <3> QED
      BY <1>0, <2>1, <3>1, <3>2, UsedKept
  <2> QED
    BY <2>2, <2>4
<1>9. CASE UNCHANGED dispatchVars
  <2>1. UNCHANGED <<status, notify, fifo, demo, nextStmt, waitsFor>>
    BY <1>9 DEF dispatchVars
  <2> QED
    BY <1>0, <1>u, <2>1, UsedKept DEF UsedInv
<1> QED
  BY <1>1, <1>2, <1>3, <1>4, <1>5, <1>6, <1>7, <1>8, <1>9, Zenon DEF DispatchNext

\* OnceInv holds at the start.
LEMMA OnceInit == DispatchInit => OnceInv
<1> SUFFICES ASSUME DispatchInit PROVE UsedInv /\ QueuedInv
  BY DispatchTypeInit DEF OnceInv
<1>1. QueuedInv
  BY DEF DispatchInit, QueuedInv
<1>2. \A b \in Blocks : waitsFor[b] = NoBlock
  BY DEF DispatchInit
<1>3. \A c \in Blocks : Used(c) => c = "method"
  BY DEF DispatchInit, Used
<1>4. \A a \in Blocks : \A i, c : Names(a, i, c) => c # "method"
  BY OnceAssumption DEF DispatchInit, Names
<1> QED
  BY <1>1, <1>2, <1>3, <1>4 DEF UsedInv

\* Blocks that are stuck are running and wait, and nobody frees them.
LEMMA StuckStep ==
  ASSUME OnceInv, [DispatchNext]_dispatchVars, NEW S \in SUBSET Blocks, Stuck(S)
  PROVE  Stuck(S)'
<1>0. DispatchTypeOK /\ UsedInv /\ QueuedInv
  BY DEF OnceInv
<1>1. \A b \in S : b \in Blocks /\ waitsFor[b] # NoBlock /\ status[b] = "running"
  BY <1>0 DEF Stuck, UsedInv
<1>2. \A b \in S : status[waitsFor[b]] # "done"
  <2> SUFFICES ASSUME NEW b \in S PROVE status[waitsFor[b]] # "done"
    OBVIOUS
  <2>1. CASE waitsFor[b] \in S
    BY <1>1, <2>1
  <2>2. ASSUME NEW q \in Serial, NEW i \in 1..Len(fifo[q]), fifo[q][i] = waitsFor[b] PROVE status[waitsFor[b]] = "queued"
    BY <1>0, <2>2 DEF QueuedInv, Queues
  <2> QED
    BY <2>1, <2>2 DEF Stuck
<1> DEFINE Held(f, a) == \A b \in S : waitsFor[b] \in S
             \/ \E q \in Serial : /\ \E i \in 1..Len(f[q]) : f[q][i] = waitsFor[b]
                                  /\ \E h \in Hierarchy(q) : a[h] \cap S # {}
<1>h. Held(fifo, active)
  BY DEF Stuck
<1>a. ASSUME \A b \in S : waitsFor'[b] = waitsFor[b], Held(fifo', active') PROVE Stuck(S)'
  BY <1>1, <1>a DEF Stuck
<1>b. ASSUME NEW q \in Queues, NEW c \in Blocks, fifo' = [fifo EXCEPT ![q] = Append(@, c)]
      PROVE  \A p \in Serial : \A i \in 1..Len(fifo[p]) : i \in 1..Len(fifo'[p]) /\ fifo'[p][i] = fifo[p][i]
  <2> SUFFICES ASSUME NEW p \in Serial, NEW i \in 1..Len(fifo[p])
               PROVE  i \in 1..Len(fifo'[p]) /\ fifo'[p][i] = fifo[p][i]
    OBVIOUS
  <2>1. fifo[p] \in Seq(Blocks) /\ p \in Queues
    BY <1>0 DEF DispatchTypeOK, Queues
  <2>2. CASE p = q
    <3>1. fifo'[p] = Append(fifo[p], c)
      BY <1>0, <1>b, <2>2 DEF DispatchTypeOK
    <3> QED
      BY <2>1, <3>1
  <2>3. CASE p # q
    BY <1>0, <1>b, <2>1, <2>3 DEF DispatchTypeOK
  <2> QED
    BY <2>2, <2>3
<1>c. ASSUME \A p \in Serial : \A i \in 1..Len(fifo[p]) : i \in 1..Len(fifo'[p]) /\ fifo'[p][i] = fifo[p][i],
             \A h \in Queues : active[h] \cap S \subseteq active'[h]
      PROVE  Held(fifo', active')
  <2> SUFFICES ASSUME NEW b \in S, waitsFor[b] \notin S
               PROVE  \E q \in Serial : /\ \E i \in 1..Len(fifo'[q]) : fifo'[q][i] = waitsFor[b]
                                       /\ \E h \in Hierarchy(q) : active'[h] \cap S # {}
    OBVIOUS
  <2>1. PICK q \in Serial : /\ \E i \in 1..Len(fifo[q]) : fifo[q][i] = waitsFor[b]
                           /\ \E h \in Hierarchy(q) : active[h] \cap S # {}
    BY <1>h
  <2>2. \E i \in 1..Len(fifo'[q]) : fifo'[q][i] = waitsFor[b]
    BY <1>c, <2>1
  <2>3. PICK h \in Hierarchy(q) : active[h] \cap S # {}
    BY <2>1
  <2>4. h \in Queues
    BY DEF Hierarchy, Queues, Serial
  <2>5. active'[h] \cap S # {}
    BY <1>c, <2>3, <2>4
  <2> QED
    BY <2>2, <2>5
<1> HIDE DEF Held
<1>3. ASSUME NEW b \in Blocks, DoLog(b) \/ DispatchSemaphore(b) \/ PthreadRWLock(b) PROVE Stuck(S)'
  <2>1. UNCHANGED <<fifo, active, waitsFor>>
    BY <1>3, Zenon DEF DoLog, DispatchSemaphore, PthreadRWLock
  <2> QED
    BY <1>a, <1>h, <2>1
<1>4. ASSUME NEW b \in Blocks, DispatchAsync(b) PROVE Stuck(S)'
  <2>1. Stmt(b).q \in Queues /\ Stmt(b).b \in Blocks
    BY <1>0, <1>4, StmtType DEF DispatchAsync, Submits, Submission
  <2>2. UNCHANGED <<active, waitsFor>> /\ fifo' = [fifo EXCEPT ![Stmt(b).q] = Append(@, Stmt(b).b)]
    BY <1>4, Zenon DEF DispatchAsync, Submit
  <2> QED
    BY <1>a, <1>b, <1>c, <2>1, <2>2
<1>5. ASSUME NEW b \in Blocks, DispatchSync(b) PROVE Stuck(S)'
  <2>1. Stmt(b).q \in Queues /\ Stmt(b).b \in Blocks
    BY <1>0, <1>5, StmtType DEF DispatchSync, Submits, Submission
  <2>2. UNCHANGED active /\ fifo' = [fifo EXCEPT ![Stmt(b).q] = Append(@, Stmt(b).b)]
    BY <1>5, Zenon DEF DispatchSync, Submit
  <2>3. b \notin S /\ waitsFor' = [waitsFor EXCEPT ![b] = Stmt(b).b]
    BY <1>1, <1>5 DEF DispatchSync, At
  <2>4. \A c \in S : waitsFor'[c] = waitsFor[c]
    BY <1>0, <2>3 DEF DispatchTypeOK
  <2> QED
    BY <1>a, <1>b, <1>c, <2>1, <2>2, <2>4
<1>6. ASSUME NEW b \in Blocks, CallBlock(b) PROVE Stuck(S)'
  <2>1. UNCHANGED <<active, fifo>>
    BY <1>6, Zenon DEF CallBlock
  <2>2. b \notin S /\ (waitsFor' = waitsFor \/ waitsFor' = [waitsFor EXCEPT ![b] = Stmt(b).b])
    BY <1>1, <1>6, Zenon DEF CallBlock, At
  <2>3. \A c \in S : waitsFor'[c] = waitsFor[c]
    BY <1>0, <2>2 DEF DispatchTypeOK
  <2> QED
    BY <1>a, <1>h, <2>1, <2>3
<1>7. ASSUME NEW b \in Blocks, Return(b) PROVE Stuck(S)'
  <2>1. UNCHANGED <<active, fifo>>
    BY <1>7, Zenon DEF Return
  <2>2. b \notin S /\ waitsFor' = [waitsFor EXCEPT ![b] = NoBlock]
    BY <1>2, <1>7 DEF Return
  <2>3. \A c \in S : waitsFor'[c] = waitsFor[c]
    BY <1>0, <2>2 DEF DispatchTypeOK
  <2> QED
    BY <1>a, <1>h, <2>1, <2>3
<1>8. ASSUME NEW b \in Blocks, DispatchGroupNotify(b) PROVE Stuck(S)'
  <2>1. Stmt(b).q \in Queues /\ Stmt(b).b \in Blocks
    BY <1>0, <1>8, StmtType DEF DispatchGroupNotify, Submits, Submission
  <2>2. /\ UNCHANGED <<active, waitsFor>>
        /\ fifo' = fifo \/ fifo' = [fifo EXCEPT ![Stmt(b).q] = Append(@, Stmt(b).b)]
    BY <1>8, Zenon DEF DispatchGroupNotify, Submit
  <2> QED
    BY <1>a, <1>b, <1>c, <1>h, <2>1, <2>2
<1>9. ASSUME NEW b \in Blocks, Finish(b) PROVE Stuck(S)'
  <2>1. b \notin S /\ waitsFor' = waitsFor /\ active' = [q \in Queues |-> active[q] \ {b}]
    BY <1>1, <1>9, Zenon DEF Finish
  <2>2. \/ fifo' = fifo
        \/ notify # <<>> /\ fifo' = [fifo EXCEPT ![notify[1].q] = Append(@, notify[1].b)]
    BY <1>9, Zenon DEF Finish
  <2>3. notify # <<>> => notify[1] \in Submission
    BY <1>0, NotifyType
  <2>4. notify # <<>> => notify[1].q \in Queues /\ notify[1].b \in Blocks
    BY <2>3 DEF Submission
  <2>5. \A h \in Queues : active[h] \cap S \subseteq active'[h]
    BY <2>1
  <2>6. \A p \in Serial : \A i \in 1..Len(fifo[p]) : i \in 1..Len(fifo'[p]) /\ fifo'[p][i] = fifo[p][i]
    BY <1>b, <2>2, <2>4
  <2> QED
    BY <1>a, <1>c, <2>1, <2>5, <2>6
<1>10. ASSUME NEW q \in Queues, StartBlock(q) PROVE Stuck(S)'
  <2>1. /\ fifo' = [fifo EXCEPT ![q] = Tail(@)] /\ waitsFor' = waitsFor /\ MayStart(q)
        /\ active' = [h \in Queues |-> active[h] \cup IF h \in Hierarchy(q) THEN {Head(fifo[q])} ELSE {}]
    BY <1>10, Zenon DEF StartBlock
  <2>2. q \in Serial => \A h \in Hierarchy(q) : active[h] = {}
    BY <2>1 DEF MayStart, Serial
  <2>3. \A h \in Queues : active[h] \cap S \subseteq active'[h]
    BY <2>1
  <2>4. Held(fifo', active')
    <3> USE DEF Held
    <3> SUFFICES ASSUME NEW b \in S, waitsFor[b] \notin S
                 PROVE  \E p \in Serial : /\ \E i \in 1..Len(fifo'[p]) : fifo'[p][i] = waitsFor[b]
                                         /\ \E h \in Hierarchy(p) : active'[h] \cap S # {}
      OBVIOUS
    <3>1. PICK p \in Serial : /\ \E i \in 1..Len(fifo[p]) : fifo[p][i] = waitsFor[b]
                             /\ \E h \in Hierarchy(p) : active[h] \cap S # {}
      BY <1>h
    <3> HIDE DEF Held
    <3>2. p # q
      BY <2>2, <3>1
    <3>3. fifo'[p] = fifo[p]
      BY <1>0, <2>1, <3>2 DEF DispatchTypeOK, Queues
    <3>4. PICK h \in Hierarchy(p) : active[h] \cap S # {}
      BY <3>1
    <3>5. h \in Queues
      BY DEF Hierarchy, Queues, Serial
    <3>6. active'[h] \cap S # {}
      BY <2>3, <3>4, <3>5
    <3> QED
      BY <3>1, <3>3, <3>6
  <2> QED
    BY <1>a, <2>1, <2>4
<1>11. CASE UNCHANGED dispatchVars
  <2>1. UNCHANGED <<fifo, active, waitsFor>>
    BY <1>11 DEF dispatchVars
  <2> QED
    BY <1>a, <1>h, <2>1
<1> QED
  BY <1>3, <1>4, <1>5, <1>6, <1>7, <1>8, <1>9, <1>10, <1>11, Zenon DEF DispatchNext

\* Stuck blocks stay stuck, and dispatch_sync onto a serial queue that the caller
\* occupies is stuck from then on, for every table of demos.
THEOREM SyncDeadlocks == DispatchSpec => StuckForEver
<1>1. OnceInv /\ [DispatchNext]_dispatchVars =>
        /\ \A S \in SUBSET Blocks : Stuck(S) => Stuck(S)'
        /\ \A b \in Blocks :
             (/\ DispatchSync(b) /\ Stmt(b).q \in Serial
              /\ \E h \in Hierarchy(Stmt(b).q) : b \in active[h]) => Stuck({b})'
  <2> SUFFICES ASSUME OnceInv, [DispatchNext]_dispatchVars,
                      NEW b \in Blocks, DispatchSync(b), Stmt(b).q \in Serial,
                      NEW h \in Hierarchy(Stmt(b).q), b \in active[h]
               PROVE  Stuck({b})'
    BY StuckStep
  <2>0. DispatchTypeOK
    BY DEF OnceInv
  <2>1. Stmt(b).q \in Queues /\ Stmt(b).b \in Blocks
    BY <2>0, StmtType DEF DispatchSync, Submits, Submission
  <2>2. /\ active' = active /\ fifo' = [fifo EXCEPT ![Stmt(b).q] = Append(@, Stmt(b).b)]
        /\ waitsFor' = [waitsFor EXCEPT ![b] = Stmt(b).b]
    BY Zenon DEF DispatchSync, Submit
  <2> DEFINE q == Stmt(b).q
             c == Stmt(b).b
  <2>3. waitsFor'[b] = c /\ c # NoBlock
    BY <2>0, <2>1, <2>2, CodeAssumption DEF DispatchTypeOK
  <2>4. fifo'[q] = Append(fifo[q], c) /\ fifo[q] \in Seq(Blocks)
    BY <2>0, <2>1, <2>2 DEF DispatchTypeOK
  <2>5. \E i \in 1..Len(fifo'[q]) : fifo'[q][i] = c
    <3>1. Len(fifo'[q]) = Len(fifo[q]) + 1 /\ Len(fifo[q]) \in Nat /\ fifo'[q][Len(fifo[q]) + 1] = c
      BY <2>1, <2>4
    <3> QED
      BY <3>1
  <2>6. \E g \in Hierarchy(q) : active'[g] \cap {b} # {}
    BY <2>2
  <2> QED
    BY <2>3, <2>5, <2>6, Zenon DEF Stuck
<1> QED
  BY <1>1, OnceInit, OnceStep, PTL DEF DispatchSpec, StuckForEver
-----------------------------------------------------------------------------
\* What a block has before it: its start, its statements and its end.
Stage(s) == CASE s = "new" -> 3 [] s = "queued" -> 2 [] s = "running" -> 1 [] OTHER -> 0
ToGo(b) == Stage(status[b]) + 2 * (Len(Code[demo][b]) + 1 - nextStmt[b])
             + (IF waitsFor[b] = NoBlock THEN 1 ELSE 0)

\* The step takes a block on and none back.
BlockOnward ==
  (\A b \in Blocks : ToGo(b)' <= ToGo(b)) /\ \E b \in Blocks : ToGo(b)' < ToGo(b)

\* A block is at one of its statements, or behind the last one and waits for nobody.
EndInv ==
  \A b \in Blocks : /\ nextStmt[b] <= Len(Code[demo][b]) + 1
                    /\ waitsFor[b] # NoBlock => nextStmt[b] <= Len(Code[demo][b])

\* A block has a number of statements.
LEMMA CodeLen == DispatchTypeOK => \A b \in Blocks : Len(Code[demo][b]) \in Nat
<1> SUFFICES ASSUME DispatchTypeOK, NEW b \in Blocks PROVE Len(Code[demo][b]) \in Nat
  OBVIOUS
<1>1. Code[demo][b] \in Seq(Statement)
  BY CodeAssumption DEF DispatchTypeOK
<1> QED
  BY <1>1

\* A step that takes b on and no block back.
LEMMA TakesOn ==
  ASSUME DispatchTypeOK, DispatchTypeOK', demo' = demo,
         \A a \in Blocks : Stage(status'[a]) <= Stage(status[a]),
         \A a \in Blocks : \/ nextStmt'[a] = nextStmt[a] + 1
                           \/ /\ nextStmt'[a] = nextStmt[a]
                              /\ waitsFor'[a] = waitsFor[a] \/ waitsFor'[a] # NoBlock,
         NEW b \in Blocks, \/ Stage(status'[b]) < Stage(status[b])
                           \/ nextStmt'[b] = nextStmt[b] + 1
                           \/ waitsFor[b] = NoBlock /\ waitsFor'[b] # NoBlock
  PROVE  BlockOnward
<1>1. \A s : Stage(s) \in 0..3
  BY DEF Stage
<1> DEFINE Idle(w) == IF w = NoBlock THEN 1 ELSE 0
           Sum(s, l, n, w) == Stage(s) + 2 * (l + 1 - n) + Idle(w)
<1>2. \A w : Idle(w) \in 0..1 /\ (w = NoBlock => Idle(w) = 1) /\ (w # NoBlock => Idle(w) = 0)
  OBVIOUS
<1>3. \A a \in Blocks : /\ ToGo(a) = Sum(status[a], Len(Code[demo][a]), nextStmt[a], waitsFor[a])
                        /\ ToGo(a)' = Sum(status'[a], Len(Code[demo][a]), nextStmt'[a], waitsFor'[a])
  BY DEF ToGo
<1>4. \A s, r, v, w : \A l, n \in Nat : Stage(r) <= Stage(s) =>
        /\ Sum(r, l, n + 1, v) < Sum(s, l, n, w)
        /\ Idle(v) <= Idle(w) => Sum(r, l, n, v) <= Sum(s, l, n, w)
        /\ Idle(v) < Idle(w) => Sum(r, l, n, v) < Sum(s, l, n, w)
        /\ Idle(v) <= Idle(w) /\ Stage(r) < Stage(s) => Sum(r, l, n, v) < Sum(s, l, n, w)
        /\ Sum(s, l, n, w) \in Int /\ Sum(r, l, n + 1, v) \in Int
  <2> HIDE DEF Idle
  <2> QED
    BY <1>1, <1>2
<1> HIDE DEF Idle, Sum
<1>5. \A a \in Blocks : Len(Code[demo][a]) \in Nat /\ nextStmt[a] \in Nat /\ nextStmt'[a] \in Nat
  BY CodeLen DEF DispatchTypeOK
<1>e. \A a \in Blocks : waitsFor'[a] = waitsFor[a] \/ waitsFor'[a] # NoBlock => Idle(waitsFor'[a]) <= Idle(waitsFor[a])
  BY <1>2
<1>6. \A a \in Blocks : ToGo(a)' <= ToGo(a) /\ (nextStmt'[a] = nextStmt[a] + 1 => ToGo(a)' < ToGo(a))
  <2> SUFFICES ASSUME NEW a \in Blocks
               PROVE  ToGo(a)' <= ToGo(a) /\ (nextStmt'[a] = nextStmt[a] + 1 => ToGo(a)' < ToGo(a))
    OBVIOUS
  <2> DEFINE l == Len(Code[demo][a])
             n == nextStmt[a]
  <2>0. l \in Nat /\ n \in Nat /\ Stage(status'[a]) <= Stage(status[a])
    BY <1>5
  <2>1. CASE nextStmt'[a] = n + 1
    <3>1. /\ ToGo(a) = Sum(status[a], l, n, waitsFor[a])
          /\ ToGo(a)' = Sum(status'[a], l, n + 1, waitsFor'[a])
      BY <1>3, <2>1
    <3> HIDE DEF l, n
    <3>2. ToGo(a)' < ToGo(a) /\ ToGo(a)' \in Int /\ ToGo(a) \in Int
      BY <1>4, <2>0, <3>1, ZenonT(30)
    <3> QED
      BY <3>2
  <2>2. CASE nextStmt'[a] = n /\ (waitsFor'[a] = waitsFor[a] \/ waitsFor'[a] # NoBlock)
    <3>1. /\ ToGo(a) = Sum(status[a], l, n, waitsFor[a])
          /\ ToGo(a)' = Sum(status'[a], l, n, waitsFor'[a])
      BY <1>3, <2>2
    <3>3. nextStmt'[a] # nextStmt[a] + 1
      BY <2>0, <2>2
    <3> HIDE DEF l, n
    <3>2. ToGo(a)' <= ToGo(a)
      BY <1>4, <1>e, <2>0, <2>2, <3>1
    <3> QED
      BY <3>2, <3>3
  <2> QED
    BY <2>1, <2>2
<1>7. ToGo(b)' < ToGo(b)
  <2> DEFINE l == Len(Code[demo][b])
             n == nextStmt[b]
  <2>0. l \in Nat /\ n \in Nat /\ Stage(status'[b]) <= Stage(status[b])
    BY <1>5
  <2>1. CASE nextStmt'[b] = n + 1
    BY <1>6, <2>1
  <2>2. CASE nextStmt'[b] = n /\ (waitsFor'[b] = waitsFor[b] \/ waitsFor'[b] # NoBlock)
    <3>1. /\ ToGo(b) = Sum(status[b], l, n, waitsFor[b])
          /\ ToGo(b)' = Sum(status'[b], l, n, waitsFor'[b])
      BY <1>3, <2>2, Zenon
    <3>2. Idle(waitsFor'[b]) <= Idle(waitsFor[b])
      BY <1>e, <2>2
    <3>3. Stage(status'[b]) < Stage(status[b]) \/ Idle(waitsFor'[b]) < Idle(waitsFor[b])
      BY <1>2, <1>5, <2>2
    <3> HIDE DEF l, n
    <3> QED
      BY <1>4, <2>0, <3>1, <3>2, <3>3
  <2> QED
    BY <2>1, <2>2
<1> QED
  BY <1>6, <1>7 DEF BlockOnward

\* Submitting a block.
LEMMA SubmitOn ==
  ASSUME DispatchTypeOK, NEW q \in Queues, NEW c \in Blocks, Submit(q, c)
  PROVE  \A a \in Blocks : Stage(status'[a]) <= Stage(status[a])
<1>1. status[c] = "new" /\ status' = [status EXCEPT ![c] = "queued"]
  BY DEF Submit
<1>2. status'[c] = "queued" /\ \A a \in Blocks : a # c => status'[a] = status[a]
  BY <1>1 DEF DispatchTypeOK
<1> QED
  BY <1>1, <1>2 DEF Stage

\* Every step takes a block on.
LEMMA BlockStep == OnceInv /\ [DispatchNext]_dispatchVars => [BlockOnward]_dispatchVars
<1> SUFFICES ASSUME OnceInv, DispatchNext PROVE BlockOnward
  OBVIOUS
<1>0. DispatchTypeOK /\ UsedInv /\ QueuedInv /\ DispatchTypeOK'
  BY DispatchTypeStep DEF OnceInv
<1>s. \A s : Stage(s) <= Stage(s)
  BY DEF Stage
<1>a. ASSUME NEW b \in Blocks, Advance(b)
      PROVE  nextStmt'[b] = nextStmt[b] + 1 /\ \A a \in Blocks : a # b => nextStmt'[a] = nextStmt[a]
  BY <1>0, <1>a DEF Advance, DispatchTypeOK
<1>b. ASSUME NEW b \in Blocks, NEW c \in Blocks, waitsFor' = [waitsFor EXCEPT ![b] = c]
      PROVE  waitsFor'[b] # NoBlock /\ \A a \in Blocks : a # b => waitsFor'[a] = waitsFor[a]
  BY <1>0, <1>b, CodeAssumption DEF DispatchTypeOK
<1>1. ASSUME NEW b \in Blocks, DoLog(b) \/ DispatchSemaphore(b) \/ PthreadRWLock(b) PROVE BlockOnward
  <2>1. Advance(b) /\ UNCHANGED <<demo, status, waitsFor>>
    BY <1>1, Zenon DEF DoLog, DispatchSemaphore, PthreadRWLock
  <2> QED
    BY <1>0, <1>a, <1>s, <2>1, TakesOn
<1>2. ASSUME NEW b \in Blocks, DispatchAsync(b) PROVE BlockOnward
  <2>1. Stmt(b).q \in Queues /\ Stmt(b).b \in Blocks
    BY <1>0, <1>2, StmtType DEF DispatchAsync, Submits, Submission
  <2>2. Advance(b) /\ UNCHANGED <<demo, waitsFor>> /\ Submit(Stmt(b).q, Stmt(b).b)
    BY <1>2, Zenon DEF DispatchAsync
  <2> QED
    BY <1>0, <1>a, <2>1, <2>2, TakesOn, SubmitOn
<1>3. ASSUME NEW b \in Blocks, DispatchSync(b) PROVE BlockOnward
  <2>1. Stmt(b).q \in Queues /\ Stmt(b).b \in Blocks
    BY <1>0, <1>3, StmtType DEF DispatchSync, Submits, Submission
  <2>2. /\ UNCHANGED <<demo, nextStmt>> /\ Submit(Stmt(b).q, Stmt(b).b)
        /\ waitsFor[b] = NoBlock /\ waitsFor' = [waitsFor EXCEPT ![b] = Stmt(b).b]
    BY <1>3, Zenon DEF DispatchSync, At
  <2> QED
    BY <1>0, <1>b, <2>1, <2>2, TakesOn, SubmitOn, Zenon
<1>4. ASSUME NEW b \in Blocks, CallBlock(b) PROVE BlockOnward
  <2>1. At(b, {"call", "thread"}) /\ {"call", "thread"} \in SUBSET Starts
    BY <1>4 DEF CallBlock, Starts
  <2>2. Stmt(b).b \in Blocks /\ ~Used(Stmt(b).b) /\ waitsFor[b] = NoBlock
    BY <1>0, <2>1, FindsNew
  <2>3. status[Stmt(b).b] = "new" /\ status' = [status EXCEPT ![Stmt(b).b] = "running"] /\ demo' = demo
    BY <1>4, <2>2 DEF Used, CallBlock
  <2>4. status'[Stmt(b).b] = "running" /\ \A a \in Blocks : a # Stmt(b).b => status'[a] = status[a]
    BY <1>0, <2>2, <2>3 DEF DispatchTypeOK
  <2>5. \A a \in Blocks : Stage(status'[a]) <= Stage(status[a])
    BY <2>3, <2>4 DEF Stage
  <2>6. \/ waitsFor' = [waitsFor EXCEPT ![b] = Stmt(b).b] /\ nextStmt' = nextStmt
        \/ Advance(b) /\ waitsFor' = waitsFor
    BY <1>4, Zenon DEF CallBlock
  <2>7. CASE waitsFor' = [waitsFor EXCEPT ![b] = Stmt(b).b] /\ nextStmt' = nextStmt
    BY <1>0, <1>b, <2>2, <2>3, <2>5, <2>7, TakesOn, Zenon
  <2>8. CASE Advance(b) /\ waitsFor' = waitsFor
    BY <1>0, <1>a, <2>2, <2>3, <2>5, <2>8, TakesOn
  <2> QED
    BY <2>6, <2>7, <2>8
<1>5. ASSUME NEW b \in Blocks, Return(b) PROVE BlockOnward
  <2>1. Advance(b) /\ UNCHANGED <<demo, status>> /\ waitsFor' = [waitsFor EXCEPT ![b] = NoBlock]
    BY <1>5, Zenon DEF Return
  <2>2. \A a \in Blocks : a # b => waitsFor'[a] = waitsFor[a]
    BY <1>0, <2>1 DEF DispatchTypeOK
  <2> QED
    BY <1>0, <1>a, <1>s, <2>1, <2>2, TakesOn
<1>6. ASSUME NEW b \in Blocks, DispatchGroupNotify(b) PROVE BlockOnward
  <2>1. Stmt(b).q \in Queues /\ Stmt(b).b \in Blocks
    BY <1>0, <1>6, StmtType DEF DispatchGroupNotify, Submits, Submission
  <2>2. Advance(b) /\ UNCHANGED <<demo, waitsFor>> /\ (Submit(Stmt(b).q, Stmt(b).b) \/ status' = status)
    BY <1>6, Zenon DEF DispatchGroupNotify
  <2>3. \A a \in Blocks : Stage(status'[a]) <= Stage(status[a])
    BY <1>0, <1>s, <2>1, <2>2, SubmitOn
  <2> QED
    BY <1>0, <1>a, <2>1, <2>2, <2>3, TakesOn
<1>7. ASSUME NEW b \in Blocks, Finish(b) PROVE BlockOnward
  <2>1. status[b] = "running" /\ UNCHANGED <<demo, nextStmt, waitsFor>>
    BY <1>7, Zenon DEF Finish
  <2>2. \/ status' = [status EXCEPT ![b] = "done"]
        \/ notify # <<>> /\ status' = [status EXCEPT ![b] = "done", ![notify[1].b] = "queued"]
    BY <1>7, Zenon DEF Finish
  <2>3. notify # <<>> => notify[1].b \in Blocks /\ status[notify[1].b] = "new"
    BY <1>0, NotifyType DEF QueuedInv
  <2>4. status'[b] = "done"
        /\ \A a \in Blocks \ {b} : status'[a] = status[a] \/ (status[a] = "new" /\ status'[a] = "queued")
    <3>1. CASE status' = [status EXCEPT ![b] = "done"]
      BY <1>0, <3>1 DEF DispatchTypeOK
    <3>2. CASE notify # <<>> /\ status' = [status EXCEPT ![b] = "done", ![notify[1].b] = "queued"]
      BY <1>0, <2>1, <2>3, <3>2 DEF DispatchTypeOK
    <3> QED
      BY <2>2, <3>1, <3>2
  <2>5. (\A a \in Blocks : Stage(status'[a]) <= Stage(status[a])) /\ Stage(status'[b]) < Stage(status[b])
    BY <2>1, <2>4 DEF Stage
  <2> QED
    BY <1>0, <2>1, <2>5, TakesOn
<1>8. ASSUME NEW q \in Queues, StartBlock(q) PROVE BlockOnward
  <2>1. /\ fifo[q] # <<>> /\ fifo' = [fifo EXCEPT ![q] = Tail(@)]
        /\ UNCHANGED <<demo, nextStmt, waitsFor, notify>>
        /\ status' = [status EXCEPT ![Head(fifo[q])] = "running"]
    BY <1>8, Zenon DEF StartBlock, MayStart
  <2>2. Head(fifo[q]) \in Blocks /\ status[Head(fifo[q])] = "queued"
    BY <1>0, <2>1, StartQueues, Zenon
  <2>3. /\ status'[Head(fifo[q])] = "running"
        /\ \A a \in Blocks : a # Head(fifo[q]) => status'[a] = status[a]
    BY <1>0, <2>1, <2>2 DEF DispatchTypeOK
  <2>4. /\ \A a \in Blocks : Stage(status'[a]) <= Stage(status[a])
        /\ Stage(status'[Head(fifo[q])]) < Stage(status[Head(fifo[q])])
    BY <2>2, <2>3 DEF Stage
  <2> QED
    BY <1>0, <2>1, <2>2, <2>4, TakesOn
<1> QED
  BY <1>1, <1>2, <1>3, <1>4, <1>5, <1>6, <1>7, <1>8, Zenon DEF DispatchNext

\* Only a block at a statement waits or advances.
LEMMA EndStep == DispatchTypeOK /\ EndInv /\ [DispatchNext]_dispatchVars => EndInv'
<1> SUFFICES ASSUME DispatchTypeOK, EndInv, [DispatchNext]_dispatchVars PROVE EndInv'
  OBVIOUS
<1>0. \A b \in Blocks : Len(Code[demo][b]) \in Nat /\ nextStmt[b] \in Nat
  BY CodeLen DEF DispatchTypeOK
<1>u. ASSUME UNCHANGED <<demo, nextStmt, waitsFor>> PROVE EndInv'
  BY <1>u DEF EndInv
<1>a. ASSUME NEW b \in Blocks, nextStmt[b] <= Len(Code[demo][b]), demo' = demo, Advance(b),
             waitsFor' = [waitsFor EXCEPT ![b] = NoBlock] PROVE EndInv'
  <2>1. /\ nextStmt'[b] = nextStmt[b] + 1 /\ waitsFor'[b] = NoBlock
        /\ \A a \in Blocks : a # b => nextStmt'[a] = nextStmt[a] /\ waitsFor'[a] = waitsFor[a]
    BY <1>a DEF Advance, DispatchTypeOK
  <2> QED
    BY <1>0, <1>a, <2>1 DEF EndInv
<1>k. ASSUME NEW b \in Blocks, waitsFor[b] = NoBlock, waitsFor' = waitsFor
      PROVE  waitsFor' = [waitsFor EXCEPT ![b] = NoBlock]
  BY <1>k DEF DispatchTypeOK
<1>w. ASSUME NEW b \in Blocks, nextStmt[b] <= Len(Code[demo][b]), UNCHANGED <<demo, nextStmt>>,
             NEW c \in Blocks, waitsFor' = [waitsFor EXCEPT ![b] = c] PROVE EndInv'
  <2>1. \A a \in Blocks : a # b => waitsFor'[a] = waitsFor[a]
    BY <1>w DEF DispatchTypeOK
  <2> QED
    BY <1>0, <1>w, <2>1 DEF EndInv
<1>1. ASSUME NEW b \in Blocks, DoLog(b) \/ DispatchSemaphore(b) \/ PthreadRWLock(b)
                               \/ DispatchAsync(b) \/ DispatchGroupNotify(b) PROVE EndInv'
  <2>1. Advance(b) /\ UNCHANGED <<demo, waitsFor>> /\ waitsFor[b] = NoBlock /\ nextStmt[b] <= Len(Code[demo][b])
    BY <1>1, Zenon DEF DoLog, DispatchSemaphore, PthreadRWLock, DispatchAsync, DispatchGroupNotify, At
  <2> QED
    BY <1>a, <1>k, <2>1
<1>2. ASSUME NEW b \in Blocks, DispatchSync(b) PROVE EndInv'
  <2>1. Stmt(b).b \in Blocks
    BY <1>2, StmtType DEF DispatchSync, Submits, Submission
  <2>2. nextStmt[b] <= Len(Code[demo][b]) /\ UNCHANGED <<demo, nextStmt>> /\ waitsFor' = [waitsFor EXCEPT ![b] = Stmt(b).b]
    BY <1>2, Zenon DEF DispatchSync, At
  <2> QED
    BY <1>w, <2>1, <2>2, Zenon
<1>3. ASSUME NEW b \in Blocks, CallBlock(b) PROVE EndInv'
  <2>1. Stmt(b).b \in Blocks
    BY <1>3, StmtType DEF CallBlock
  <2>2. /\ nextStmt[b] <= Len(Code[demo][b]) /\ demo' = demo /\ waitsFor[b] = NoBlock
        /\ \/ nextStmt' = nextStmt /\ waitsFor' = [waitsFor EXCEPT ![b] = Stmt(b).b]
           \/ Advance(b) /\ waitsFor' = waitsFor
    BY <1>3, Zenon DEF CallBlock, At
  <2> QED
    BY <1>a, <1>k, <1>w, <2>1, <2>2
<1>4. ASSUME NEW b \in Blocks, Return(b) PROVE EndInv'
  <2>1. Advance(b) /\ demo' = demo /\ waitsFor[b] # NoBlock /\ waitsFor' = [waitsFor EXCEPT ![b] = NoBlock]
    BY <1>4, Zenon DEF Return
  <2> QED
    BY <1>a, <2>1, Zenon DEF EndInv
<1>5. ASSUME NEW b \in Blocks, Finish(b) PROVE EndInv'
  BY <1>5, <1>u, Zenon DEF Finish
<1>6. ASSUME NEW q \in Queues, StartBlock(q) PROVE EndInv'
  BY <1>6, <1>u, Zenon DEF StartBlock
<1>7. CASE UNCHANGED dispatchVars
  BY <1>7, <1>u DEF dispatchVars
<1> QED
  BY <1>1, <1>2, <1>3, <1>4, <1>5, <1>6, <1>7, Zenon DEF DispatchNext

\* Every demo ends, or comes to a point where nothing more happens: each step
\* takes a block on to its end and none back.
THEOREM EveryDemoOnward ==
  DispatchSpec => [](\A b \in Blocks : ToGo(b) \in Nat) /\ [][BlockOnward]_dispatchVars
<1>1. DispatchInit => EndInv
  <2> SUFFICES ASSUME DispatchInit PROVE EndInv
    OBVIOUS
  <2>1. \A b \in Blocks : nextStmt[b] = 1 /\ waitsFor[b] = NoBlock /\ Len(Code[demo][b]) \in Nat
    BY CodeLen, DispatchTypeInit DEF DispatchInit
  <2> QED
    BY <2>1 DEF EndInv
<1>2. OnceInv /\ EndInv /\ [DispatchNext]_dispatchVars => EndInv'
  BY EndStep DEF OnceInv
<1>3. OnceInv /\ EndInv => \A b \in Blocks : ToGo(b) \in Nat
  <2> SUFFICES ASSUME OnceInv, EndInv, NEW b \in Blocks PROVE ToGo(b) \in Nat
    OBVIOUS
  <2>1. Len(Code[demo][b]) \in Nat /\ nextStmt[b] \in Nat /\ nextStmt[b] <= Len(Code[demo][b]) + 1
    BY CodeLen DEF OnceInv, EndInv, DispatchTypeOK
  <2>2. Stage(status[b]) \in Nat
    BY DEF Stage
  <2> DEFINE w == IF waitsFor[b] = NoBlock THEN 1 ELSE 0
             l == Len(Code[demo][b])
             n == nextStmt[b]
             g == Stage(status[b])
  <2>3. w \in Nat
    OBVIOUS
  <2>4. ToGo(b) = g + 2 * (l + 1 - n) + w
    BY DEF ToGo
  <2>5. l \in Nat /\ n \in Nat /\ n <= l + 1 /\ g \in Nat
    BY <2>1, <2>2
  <2> HIDE DEF w, l, n, g
  <2> QED
    BY <2>3, <2>4, <2>5
<1> QED
  BY <1>1, <1>2, <1>3, OnceInit, OnceStep, BlockStep, PTL DEF DispatchSpec
-----------------------------------------------------------------------------
(* SKGCDAdditions: readers and writers of the file.                        *)

\* The code of a block that reads, or writes, the file.
ReadCode == {readMethod, <<Read>>}
WriteCode == {writeMethod, <<Write>>}

LEMMA MethodCode ==
  /\ Read # Write /\ Read.op = "log" /\ Write.op = "log"
  /\ Len(readMethod) = 3 /\ readMethod[1].op = "rdlock" /\ readMethod[2] = Read /\ readMethod[3].op = "unlock"
  /\ Len(writeMethod) = 3 /\ writeMethod[1].op = "wrlock" /\ writeMethod[2] = Write /\ writeMethod[3].op = "unlock"
  /\ Len(<<Read>>) = 1 /\ <<Read>>[1] = Read /\ Len(<<Write>>) = 1 /\ <<Write>>[1] = Write
BY DEF readMethod, writeMethod, Read, Write, Log, Do, St

LEMMA CodesDiffer == ReadCode \cap WriteCode = {}
<1>1. readMethod # writeMethod /\ readMethod # <<Write>> /\ <<Read>> # writeMethod /\ <<Read>> # <<Write>>
  BY MethodCode
<1> QED
  BY <1>1 DEF ReadCode, WriteCode

\* A block that accesses the file is a call of a method or a block of one.
LEMMA FileCode ==
  ASSUME DispatchTypeOK, NEW b \in Blocks, Accesses(demo, b)
  PROVE  Code[demo][b] \in ReadCode \cup WriteCode
<1>1. ByLock(demo) \/ ByQueue(demo)
  BY FileAssumption DEF DispatchTypeOK
<1> QED
  BY <1>1, Zenon DEF ByLock, ByQueue, ReadCode, WriteCode

\* The statements of such a block.
LEMMA FileStatement ==
  ASSUME DispatchTypeOK, NEW b \in Blocks, Accesses(demo, b), NEW ops, At(b, ops)
  PROVE  Stmt(b).op \in ops \cap {"rdlock", "wrlock", "unlock", "log"}
<1>1. nextStmt[b] \in Nat \ {0} /\ nextStmt[b] <= Len(Code[demo][b]) /\ Stmt(b).op \in ops
  BY DEF DispatchTypeOK, At, Stmt
<1> DEFINE c == Code[demo][b]
           n == nextStmt[b]
<1>2. c \in {readMethod, writeMethod, <<Read>>, <<Write>>}
  BY FileCode DEF ReadCode, WriteCode
<1>3. Stmt(b) = c[n]
  BY DEF Stmt
<1> HIDE DEF c, n
<1>4. n \in Nat \ {0} /\ n <= Len(c)
  BY <1>1 DEF c, n
<1>5. n \in 1..3 /\ (n > 1 => c \in {readMethod, writeMethod})
  <2>1. (Len(c) = 3 /\ c \in {readMethod, writeMethod}) \/ Len(c) = 1
    BY <1>2, MethodCode, Zenon
  <2>2. CASE Len(c) = 3 /\ c \in {readMethod, writeMethod}
    <3>1. n <= 3
      BY <1>4, <2>2, Zenon
    <3> QED
      BY <1>4, <2>2, <3>1
  <2>3. CASE Len(c) = 1
    <3>1. n <= 1
      BY <1>4, <2>3, Zenon
    <3> QED
      BY <1>4, <3>1
  <2> QED
    BY <2>1, <2>2, <2>3, Zenon
<1>6. c[n].op \in {"rdlock", "wrlock", "unlock", "log"}
  <2>1. CASE n = 1
    BY <1>2, <2>1, MethodCode
  <2>2. CASE n = 2
    BY <1>5, <2>2, MethodCode
  <2>3. CASE n = 3
    BY <1>5, <2>3, MethodCode
  <2> QED
    BY <1>5, <2>1, <2>2, <2>3
<1> QED
  BY <1>1, <1>3, <1>6

\* Where a block is that accesses the file.
LEMMA AccessPlace ==
  ASSUME DispatchTypeOK, NEW b \in Blocks, NEW m \in {Read, Write}, Accessing(b, m)
  PROVE  /\ Accesses(demo, b) /\ status[b] = "running"
         /\ m = Read => Code[demo][b] \in ReadCode /\ (Code[demo][b] = readMethod => nextStmt[b] = 2)
         /\ m = Write => Code[demo][b] \in WriteCode /\ (Code[demo][b] = writeMethod => nextStmt[b] = 2)
<1> DEFINE c == Code[demo][b]
           n == nextStmt[b]
<1>1. n \in Nat \ {0} /\ n <= Len(c) /\ c[n] = m /\ status[b] = "running"
  BY DEF DispatchTypeOK, Accessing, At, Stmt
<1>2. Len(c) \in Nat
  BY CodeLen
<1>3. Accesses(demo, b)
  BY <1>1, <1>2 DEF Accesses
<1>4. c \in {readMethod, writeMethod, <<Read>>, <<Write>>}
  BY <1>3, FileCode DEF ReadCode, WriteCode
<1> HIDE DEF c, n
<1>5. n \in 1..3 /\ (n > 1 => c \in {readMethod, writeMethod}) /\ c[n].op = "log"
  <2>1. (Len(c) = 3 /\ c \in {readMethod, writeMethod}) \/ Len(c) = 1
    BY <1>4, MethodCode, Zenon
  <2>2. c[n].op = "log"
    BY <1>1, MethodCode, Zenon
  <2> QED
    BY <1>1, <2>1, <2>2
<1>6. c \in {readMethod, writeMethod} => n = 2
  BY <1>5, MethodCode
<1>7. m = Read => c \in {readMethod, <<Read>>}
  BY <1>1, <1>4, <1>5, <1>6, MethodCode
<1>8. m = Write => c \in {writeMethod, <<Write>>}
  BY <1>1, <1>4, <1>5, <1>6, MethodCode
<1> QED
  BY <1>1, <1>3, <1>6, <1>7, <1>8 DEF c, n, ReadCode, WriteCode

\* Who is at its access has the lock, which a writer has alone; a call of a method
\* waits for no block.
LockInv ==
  /\ \A b \in Blocks : Accesses(demo, b) => waitsFor[b] = NoBlock
  /\ \A b \in Blocks : nextStmt[b] = 2 => /\ Code[demo][b] = readMethod => b \in readers
                                          /\ Code[demo][b] = writeMethod => b \in writers
  /\ readers = {} \/ writers = {}
  /\ \A b, c \in writers : b = c

\* Only pthread_rwlock changes the lock, and only the calls of b change where it is.
LEMMA LockFrame ==
  ASSUME [DispatchNext]_dispatchVars
  PROVE  /\ demo' = demo
         /\ \/ waitsFor' = waitsFor
            \/ \E d \in Blocks : waitsFor[d] # NoBlock /\ waitsFor' = [waitsFor EXCEPT ![d] = NoBlock]
            \/ \E d \in Blocks : At(d, {"sync", "call", "thread"}) /\ waitsFor' = [waitsFor EXCEPT ![d] = Stmt(d).b]
         /\ \/ \E d \in Blocks : PthreadRWLock(d)
            \/ /\ UNCHANGED <<readers, writers>>
               /\ \/ nextStmt' = nextStmt
                  \/ \E d \in Blocks :
                       /\ nextStmt' = [nextStmt EXCEPT ![d] = @ + 1]
                       /\ waitsFor[d] # NoBlock \/ At(d, Starts \cup {"log", "wait", "signal"})
<1> DEFINE Others == Starts \cup {"log", "wait", "signal"}
<1>1. ASSUME NEW b \in Blocks, NEW ops \in SUBSET Others, At(b, ops) PROVE At(b, Others)
  BY <1>1, Zenon DEF At
<1> HIDE DEF Others
<1>2. ASSUME NEW d \in Blocks, DoLog(d) \/ DispatchAsync(d) \/ DispatchGroupNotify(d) \/ DispatchSemaphore(d)
      PROVE  /\ UNCHANGED <<demo, waitsFor, readers, writers>> /\ nextStmt' = [nextStmt EXCEPT ![d] = @ + 1]
             /\ At(d, Others)
  <2>1. \E ops \in {{"log"}, {"async", "barrier", "groupAsync"}, {"notify"}, {"wait", "signal"}} : At(d, ops)
    BY <1>2, Zenon DEF DoLog, DispatchAsync, DispatchGroupNotify, DispatchSemaphore
  <2>2. {{"log"}, {"async", "barrier", "groupAsync"}, {"notify"}, {"wait", "signal"}} \subseteq SUBSET Others
    BY DEF Others, Starts, Submits
  <2>3. At(d, Others)
    BY <1>1, <2>1, <2>2, Zenon
  <2> QED
    BY <1>2, <2>3 DEF DoLog, DispatchAsync, DispatchGroupNotify, DispatchSemaphore, Advance
<1>3. ASSUME NEW d \in Blocks, DispatchSync(d)
      PROVE  /\ UNCHANGED <<demo, readers, writers, nextStmt>> /\ At(d, {"sync", "call", "thread"})
             /\ waitsFor' = [waitsFor EXCEPT ![d] = Stmt(d).b]
  BY <1>3 DEF DispatchSync, At
<1>4. ASSUME NEW d \in Blocks, CallBlock(d)
      PROVE  /\ UNCHANGED <<demo, readers, writers>> /\ At(d, {"sync", "call", "thread"}) /\ At(d, Others)
             /\ waitsFor' = waitsFor \/ waitsFor' = [waitsFor EXCEPT ![d] = Stmt(d).b]
             /\ nextStmt' = nextStmt \/ nextStmt' = [nextStmt EXCEPT ![d] = @ + 1]
  <2>1. At(d, {"call", "thread"})
    BY <1>4 DEF CallBlock
  <2>2. At(d, {"sync", "call", "thread"})
    BY <2>1 DEF At
  <2>3. {"call", "thread"} \in SUBSET Others
    BY DEF Others, Starts
  <2> QED
    BY <1>1, <1>4, <2>1, <2>2, <2>3, Zenon DEF CallBlock, Advance
<1>5. ASSUME NEW d \in Blocks, Return(d)
      PROVE  /\ UNCHANGED <<demo, readers, writers>> /\ nextStmt' = [nextStmt EXCEPT ![d] = @ + 1]
             /\ waitsFor[d] # NoBlock /\ waitsFor' = [waitsFor EXCEPT ![d] = NoBlock]
  BY <1>5 DEF Return, Advance
<1>6. ASSUME NEW d \in Blocks, PthreadRWLock(d) PROVE UNCHANGED <<demo, waitsFor>>
  BY <1>6 DEF PthreadRWLock
<1>7. ASSUME NEW d \in Blocks, Finish(d) PROVE UNCHANGED <<demo, waitsFor, nextStmt, readers, writers>>
  BY <1>7 DEF Finish
<1>8. ASSUME NEW q \in Queues, StartBlock(q) PROVE UNCHANGED <<demo, waitsFor, nextStmt, readers, writers>>
  BY <1>8 DEF StartBlock
<1>9. CASE UNCHANGED dispatchVars
  BY <1>9 DEF dispatchVars
<1> QED
  BY <1>2, <1>3, <1>4, <1>5, <1>6, <1>7, <1>8, <1>9, ZenonT(30) DEF DispatchNext, Others

LEMMA LockStep ==
  ASSUME DispatchTypeOK, LockInv, [DispatchNext]_dispatchVars
  PROVE  LockInv'
<1>0. demo' = demo
  BY LockFrame, Zenon
<1>l. \A b \in Blocks : nextStmt[b] = 2 => /\ Code[demo][b] = readMethod => b \in readers
                                           /\ Code[demo][b] = writeMethod => b \in writers
  BY Zenon DEF LockInv
<1>1. ASSUME NEW b \in Blocks, Accesses(demo, b) PROVE waitsFor'[b] = NoBlock
  <2>1. waitsFor[b] = NoBlock
    BY <1>1 DEF LockInv
  <2>2. ASSUME NEW d \in Blocks, At(d, {"sync", "call", "thread"}) PROVE d # b
    BY <1>1, <2>2, FileStatement
  <2>3. waitsFor \in [Blocks -> Blocks \cup {NoBlock}]
    BY DEF DispatchTypeOK
  <2> QED
    BY <2>1, <2>2, <2>3, LockFrame
<1>2. ASSUME NEW d \in Blocks, PthreadRWLock(d)
      PROVE  /\ (readers' = {} \/ writers' = {}) /\ (\A b, c \in writers' : b = c)
             /\ \A b \in Blocks : nextStmt'[b] = 2 => /\ Code[demo][b] = readMethod => b \in readers'
                                                      /\ Code[demo][b] = writeMethod => b \in writers'
  <2>1. \/ Stmt(d).op = "rdlock" /\ writers = {} /\ readers' = readers \cup {d} /\ writers' = writers
        \/ Stmt(d).op = "wrlock" /\ readers = {} /\ writers = {} /\ writers' = {d} /\ readers' = readers
        \/ Stmt(d).op = "unlock" /\ readers' = readers \ {d} /\ writers' = writers \ {d}
    BY <1>2, Zenon DEF PthreadRWLock
  <2>2. readers' = {} \/ writers' = {}
    BY <2>1 DEF LockInv
  <2>3. \A b, c \in writers' : b = c
    BY <2>1 DEF LockInv
  <2>4. ASSUME NEW b \in Blocks, nextStmt'[b] = 2
        PROVE  /\ Code[demo][b] = readMethod => b \in readers'
               /\ Code[demo][b] = writeMethod => b \in writers'
    <3>1. /\ nextStmt' = [nextStmt EXCEPT ![d] = @ + 1] /\ nextStmt[d] \in Nat
          /\ nextStmt \in [Blocks -> Nat \ {0}]
      BY <1>2 DEF PthreadRWLock, Advance, DispatchTypeOK
    <3>2. CASE b # d
      <4>1. nextStmt[b] = 2
        BY <2>4, <3>1, <3>2
      <4>2. (b \in readers => b \in readers') /\ (b \in writers => b \in writers')
        BY <2>1, <3>2
      <4> QED
        BY <1>l, <2>4, <4>1, <4>2, Zenon
    <3>3. CASE b = d
      <4>1. nextStmt[d] = 1
        BY <2>4, <3>1, <3>3
      <4>2. Stmt(d) = Code[demo][d][1]
        BY <4>1 DEF Stmt
      <4> QED
        BY <2>1, <3>3, <4>2, MethodCode
    <3> QED
      BY <3>2, <3>3
  <2> QED
    BY <2>2, <2>3, <2>4
<1>3. ASSUME UNCHANGED <<readers, writers>>,
             \/ nextStmt' = nextStmt
             \/ \E d \in Blocks : /\ nextStmt' = [nextStmt EXCEPT ![d] = @ + 1]
                                  /\ waitsFor[d] # NoBlock \/ At(d, Starts \cup {"log", "wait", "signal"}),
             NEW b \in Blocks, nextStmt'[b] = 2
      PROVE  /\ Code[demo][b] = readMethod => b \in readers'
             /\ Code[demo][b] = writeMethod => b \in writers'
  <2> SUFFICES ASSUME Code[demo][b] \in {readMethod, writeMethod} PROVE nextStmt[b] = 2
    <3>1. (b \in readers => b \in readers') /\ (b \in writers => b \in writers')
      BY <1>3
    <3> QED
      BY <1>l, <1>3, <3>1, Zenon
  <2>1. Accesses(demo, b)
    BY MethodCode DEF Accesses
  <2>2. nextStmt \in [Blocks -> Nat \ {0}] /\ waitsFor[b] = NoBlock
    BY <2>1 DEF DispatchTypeOK, LockInv
  <2>3. ASSUME At(b, Starts \cup {"log", "wait", "signal"}) PROVE nextStmt[b] # 1
    <3>1. Stmt(b).op \in {"log", "wait", "signal"} \cup Starts
      BY <2>3 DEF At, Stmt
    <3>2. Stmt(b).op \notin {"rdlock", "wrlock"}
      BY <3>1 DEF Starts, Submits
    <3> QED
      BY <3>2, MethodCode DEF Stmt
  <2>4. nextStmt'[b] = nextStmt[b] \/ (nextStmt'[b] = nextStmt[b] + 1 /\ nextStmt[b] # 1)
    BY <1>3, <2>2, <2>3
  <2> QED
    BY <1>3, <2>2, <2>4
<1>5. CASE \E d \in Blocks : PthreadRWLock(d)
  BY <1>0, <1>1, <1>2, <1>5, ZenonT(30) DEF LockInv, Accesses
<1>6. CASE ~\E d \in Blocks : PthreadRWLock(d)
  <2>1. /\ UNCHANGED <<readers, writers>>
        /\ \/ nextStmt' = nextStmt
           \/ \E d \in Blocks : /\ nextStmt' = [nextStmt EXCEPT ![d] = @ + 1]
                                /\ waitsFor[d] # NoBlock \/ At(d, Starts \cup {"log", "wait", "signal"})
    BY <1>6, LockFrame, Zenon
  <2> QED
    BY <1>0, <1>1, <1>3, <2>1, ZenonT(30) DEF LockInv, Accesses
<1> QED
  BY <1>5, <1>6

\* A block that occupies a queue was submitted before.
ActiveStarted == \A q \in Queues : \A b \in active[q] : status[b] # "new"

\* Every step keeps ActiveStarted: no block becomes new again.
LEMMA ActiveStep == DispatchTypeOK /\ ActiveStarted /\ [DispatchNext]_dispatchVars => ActiveStarted'
<1> SUFFICES ASSUME DispatchTypeOK, ActiveStarted, [DispatchNext]_dispatchVars, NEW q \in Queues, NEW c \in active'[q]
             PROVE status'[c] # "new"
  BY DEF ActiveStarted
<1>0. DispatchTypeOK' /\ c \in Blocks
  BY DispatchTypeStep DEF DispatchTypeOK
<1>1. ASSUME c \in active[q] PROVE status[c] # "new"
  BY <1>1, Zenon DEF ActiveStarted
<1>2. ASSUME NEW r \in Queues, StartBlock(r) PROVE status'[c] # "new"
  <2>1. active'[q] = active[q] \cup IF q \in Hierarchy(r) THEN {Head(fifo[r])} ELSE {}
    BY <1>2 DEF StartBlock
  <2>2. status' = [status EXCEPT ![Head(fifo[r])] = "running"]
    BY <1>2 DEF StartBlock
  <2> QED BY <1>0, <1>1, <2>1, <2>2 DEF DispatchTypeOK
<1>3. ASSUME NEW d \in Blocks, Finish(d) PROVE status'[c] # "new"
  <2>1. c \in active[q]
    BY <1>3 DEF Finish
  <2>2. \/ status' = [status EXCEPT ![d] = "done"]
        \/ status' = [status EXCEPT ![d] = "done", ![notify[1].b] = "queued"]
    BY <1>3, Zenon DEF Finish
  <2> QED BY <1>0, <1>1, <2>1, <2>2 DEF DispatchTypeOK
<1>4. ASSUME NEW d \in Blocks, DispatchAsync(d) \/ DispatchSync(d) \/ CallBlock(d) \/ DispatchGroupNotify(d)
      PROVE status'[c] # "new"
  <2>1. c \in active[q]
    BY <1>4, Zenon DEF DispatchAsync, DispatchSync, CallBlock, DispatchGroupNotify
  <2>2. \/ status' = [status EXCEPT ![Stmt(d).b] = "queued"]
        \/ status' = [status EXCEPT ![Stmt(d).b] = "running"]
        \/ status' = status
    BY <1>4, Zenon DEF DispatchAsync, DispatchSync, CallBlock, DispatchGroupNotify, Submit
  <2> QED BY <1>0, <1>1, <2>1, <2>2 DEF DispatchTypeOK
<1>5. CASE active' = active /\ status' = status
  BY <1>1, <1>5
<1> QED
  BY <1>2, <1>3, <1>4, <1>5, Zenon DEF DispatchNext, dispatchVars, DoLog, Return, DispatchSemaphore, PthreadRWLock

\* On the concurrent queue a barrier is alone.
BarrierAlone == \A b, c \in active["concurrent"] : b \in barriers => b = c

LEMMA BarrierStep ==
  ASSUME DispatchTypeOK, ActiveStarted, BarrierAlone, [DispatchNext]_dispatchVars
  PROVE  BarrierAlone'
<1> DEFINE A == active["concurrent"]
<1>0. "concurrent" \in Queues
  BY DEF Queues, Concurrent
<1>1. ASSUME NEW q \in Queues, StartBlock(q) PROVE BarrierAlone'
  <2>1. CASE q = "concurrent"
    <3> DEFINE c == Head(fifo["concurrent"])
    <3>1. A' = A \cup {c} /\ barriers' = barriers
      BY <1>0, <1>1, <2>1 DEF StartBlock, Hierarchy
    <3>2. A \cap barriers = {} /\ (c \in barriers => A = {})
      BY <1>1, <2>1 DEF StartBlock, MayStart, Serial
    <3> HIDE DEF c
    <3> QED
      BY <3>1, <3>2, ZenonT(30) DEF BarrierAlone
  <2>2. CASE q # "concurrent"
    <3>1. A' = A /\ barriers' = barriers
      BY <1>0, <1>1, <2>2 DEF StartBlock, Hierarchy
    <3> QED
      BY <3>1 DEF BarrierAlone
  <2> QED
    BY <2>1, <2>2
<1>2. ASSUME NEW d \in Blocks, Finish(d) PROVE BarrierAlone'
  <2>1. A' = A \ {d} /\ barriers' = barriers
    BY <1>0, <1>2 DEF Finish
  <2> QED
    BY <2>1 DEF BarrierAlone
<1>3. ASSUME NEW d \in Blocks, DispatchAsync(d) PROVE BarrierAlone'
  <2>1. status[Stmt(d).b] = "new"
    BY <1>3 DEF DispatchAsync, Submit
  <2>2. Stmt(d).b \notin A
    BY <1>0, <2>1, Zenon DEF ActiveStarted
  <2>3. A' = A /\ (barriers' = barriers \/ barriers' = barriers \cup {Stmt(d).b})
    BY <1>3 DEF DispatchAsync
  <2> QED
    BY <2>2, <2>3, ZenonT(30) DEF BarrierAlone
<1>4. CASE A' = A /\ barriers' = barriers
  BY <1>4 DEF BarrierAlone
<1> QED
  BY <1>1, <1>2, <1>3, <1>4, ZenonT(30) DEF DispatchNext, dispatchVars, DoLog, DispatchSync, CallBlock, Return,
     DispatchGroupNotify, DispatchSemaphore, PthreadRWLock

\* The blocks that access the file go to the concurrent queue, the writers as
\* barriers, and none waits for the group.
QueueInv ==
  /\ \A b \in Blocks : Accesses(demo, b) =>
       /\ status[b] = "running" => b \in active["concurrent"]
       /\ status[b] # "new" /\ Code[demo][b] = <<Write>> => b \in barriers
  /\ \A q \in Queues : \A i \in 1..Len(fifo[q]) : Accesses(demo, fifo[q][i]) => q = "concurrent"
  /\ \A k \in 1..Len(notify) : ~Accesses(demo, notify[k].b)

\* What makes a block run that accesses the file.
LEMMA FileSubmitted ==
  ASSUME DispatchTypeOK, ByQueue(demo), NEW b \in Blocks, NEW ops \in SUBSET Starts, At(b, ops),
         Accesses(demo, Stmt(b).b)
  PROVE  /\ Stmt(b).q = "concurrent" /\ Stmt(b).op \in {"async", "barrier"} \cap ops
         /\ Code[demo][Stmt(b).b] = <<Write>> => Stmt(b).op = "barrier"
<1>1. Code[demo][b] \in Seq(Statement)
  BY CodeAssumption DEF DispatchTypeOK
<1>2. nextStmt[b] \in 1..Len(Code[demo][b]) /\ Stmt(b).op \in ops
  <2>1. nextStmt[b] \in Nat \ {0}
    BY DEF DispatchTypeOK
  <2>2. nextStmt[b] <= Len(Code[demo][b]) /\ Stmt(b).op \in ops
    BY Zenon DEF At, Stmt
  <2>3. Len(Code[demo][b]) \in Nat
    BY <1>1
  <2> QED
    BY <2>1, <2>2, <2>3
<1>3. \/ Stmt(b) = readMethod01(Stmt(b).b) /\ Code[demo][Stmt(b).b] = <<Read>>
      \/ Stmt(b) = writeMethod01(Stmt(b).b) /\ Code[demo][Stmt(b).b] = <<Write>>
  BY <1>2, Zenon DEF ByQueue, Stmt
<1>4. <<Read>> # <<Write>>
  BY MethodCode
<1>5. \A c : /\ readMethod01(c).q = "concurrent" /\ readMethod01(c).op = "async"
             /\ writeMethod01(c).q = "concurrent" /\ writeMethod01(c).op = "barrier"
  BY DEF readMethod01, writeMethod01, Async, Barrier, St
<1> QED
  BY <1>2, <1>3, <1>4, <1>5

\* A step after which the queues hold nothing else, with c the only block that
\* may have become queued.
LEMMA QueueSubmit ==
  ASSUME DispatchTypeOK, QueueInv, NEW q \in Queues, NEW c \in Blocks, demo' = demo, active' = active,
         barriers \subseteq barriers', fifo' = [fifo EXCEPT ![q] = Append(@, c)], notify' = notify,
         status'[c] = "queued", \A b \in Blocks : b # c => status'[b] = status[b],
         Accesses(demo, c) => q = "concurrent" /\ (Code[demo][c] = <<Write>> => c \in barriers')
  PROVE  QueueInv'
<1>0. \A b : Accesses(demo, b)' = Accesses(demo, b)
  BY DEF Accesses
<1>1. ASSUME NEW b \in Blocks, Accesses(demo, b)
      PROVE  /\ status'[b] = "running" => b \in active'["concurrent"]
             /\ status'[b] # "new" /\ Code[demo][b] = <<Write>> => b \in barriers'
  BY <1>1 DEF QueueInv
<1>2. ASSUME NEW p \in Queues, NEW i \in 1..Len(fifo'[p]), Accesses(demo, fifo'[p][i]) PROVE p = "concurrent"
  <2>0. fifo[p] \in Seq(Blocks)
    BY DEF DispatchTypeOK
  <2>1. CASE p # q
    <3>1. fifo'[p] = fifo[p]
      BY <2>1 DEF DispatchTypeOK
    <3> QED
      BY <1>2, <3>1 DEF QueueInv
  <2>2. CASE p = q
    <3>1. fifo'[p] = Append(fifo[p], c)
      BY <2>2 DEF DispatchTypeOK
    <3>2. Len(fifo'[p]) = Len(fifo[p]) + 1 /\ fifo'[p][Len(fifo[p]) + 1] = c
          /\ \A j \in 1..Len(fifo[p]) : fifo'[p][j] = fifo[p][j]
      BY <2>0, <3>1
    <3>3. i \in 1..Len(fifo[p]) \/ i = Len(fifo[p]) + 1
      BY <1>2, <2>0, <3>2
    <3> QED
      BY <1>2, <2>2, <3>2, <3>3 DEF QueueInv
  <2> QED
    BY <2>1, <2>2
<1>3. \A k \in 1..Len(notify') : ~Accesses(demo, notify'[k].b)
  BY DEF QueueInv
<1> QED
  BY <1>0, <1>1, <1>2, <1>3, ZenonT(30) DEF QueueInv

\* A step that queues nothing.
LEMMA QueueKeep ==
  ASSUME DispatchTypeOK, QueueInv, demo' = demo, barriers' = barriers, fifo' = fifo, notify' = notify,
         \A b \in Blocks : Accesses(demo, b) =>
           /\ status'[b] = status[b] \/ (status[b] # "new" /\ status'[b] = "done")
           /\ b \in active["concurrent"] /\ status'[b] = "running" => b \in active'["concurrent"]
  PROVE  QueueInv'
<1>0. \A b : Accesses(demo, b)' = Accesses(demo, b)
  BY DEF Accesses
<1>1. ASSUME NEW b \in Blocks, Accesses(demo, b)
      PROVE  /\ status'[b] = "running" => b \in active'["concurrent"]
             /\ status'[b] # "new" /\ Code[demo][b] = <<Write>> => b \in barriers'
  <2>1. /\ status[b] = "running" => b \in active["concurrent"]
        /\ status[b] # "new" /\ Code[demo][b] = <<Write>> => b \in barriers
    BY <1>1, Zenon DEF QueueInv
  <2> QED
    BY <1>1, <2>1
<1>2. /\ \A q \in Queues : \A i \in 1..Len(fifo'[q]) : Accesses(demo, fifo'[q][i]) => q = "concurrent"
      /\ \A k \in 1..Len(notify') : ~Accesses(demo, notify'[k].b)
  BY Zenon DEF QueueInv
<1> QED
  BY <1>0, <1>1, <1>2, ZenonT(30) DEF QueueInv

\* The concurrent queue, or another one, starts its first block.
LEMMA QueueStart ==
  ASSUME DispatchTypeOK, QueuedInv, QueueInv, NEW q \in Queues, StartBlock(q)
  PROVE  QueueInv'
<1> DEFINE c == Head(fifo[q])
<1>0. demo' = demo /\ barriers' = barriers /\ notify' = notify /\ \A b : Accesses(demo, b)' = Accesses(demo, b)
  BY DEF StartBlock, Accesses
<1>1. fifo[q] \in Seq(Blocks) /\ fifo[q] # <<>>
  BY DEF StartBlock, MayStart, DispatchTypeOK
<1>2. c \in Blocks /\ 1 \in 1..Len(fifo[q]) /\ c = fifo[q][1]
  BY <1>1
<1>3. status[c] = "queued" /\ (Accesses(demo, c) => q = "concurrent")
  BY <1>2 DEF QueuedInv, QueueInv
<1>4. /\ fifo' = [fifo EXCEPT ![q] = Tail(@)] /\ status' = [status EXCEPT ![c] = "running"]
      /\ active' = [h \in Queues |-> active[h] \cup IF h \in Hierarchy(q) THEN {c} ELSE {}]
  BY DEF StartBlock
<1> HIDE DEF c
<1>5. ASSUME NEW b \in Blocks, Accesses(demo, b)
      PROVE  /\ status'[b] = "running" => b \in active'["concurrent"]
             /\ status'[b] # "new" /\ Code[demo][b] = <<Write>> => b \in barriers'
  <2>1. /\ status[b] = "running" => b \in active["concurrent"]
        /\ status[b] # "new" /\ Code[demo][b] = <<Write>> => b \in barriers
    BY <1>5, Zenon DEF QueueInv
  <2>2. status'[c] = "running" /\ (b # c => status'[b] = status[b])
    BY <1>2, <1>4 DEF DispatchTypeOK
  <2>3. active'["concurrent"] = active["concurrent"] \cup IF "concurrent" \in Hierarchy(q) THEN {c} ELSE {}
    BY <1>4 DEF Queues, Concurrent
  <2>4. b = c => "concurrent" \in Hierarchy(q)
    BY <1>3, <1>5 DEF Hierarchy
  <2>5. b \in active["concurrent"] \/ b = c => b \in active'["concurrent"]
    BY <2>3, <2>4
  <2> QED
    BY <1>0, <1>3, <2>1, <2>2, <2>5
<1>6. ASSUME NEW p \in Queues, NEW i \in 1..Len(fifo'[p]) PROVE \E j \in 1..Len(fifo[p]) : fifo'[p][i] = fifo[p][j]
  <2>1. CASE p # q
    BY <1>4, <1>6, <2>1 DEF DispatchTypeOK
  <2>2. CASE p = q
    <3>1. fifo'[p] = Tail(fifo[p])
      BY <1>4, <2>2 DEF DispatchTypeOK
    <3>2. Len(fifo'[p]) = Len(fifo[p]) - 1 /\ fifo'[p][i] = fifo[p][i + 1] /\ Len(fifo[p]) \in Nat
      BY <1>1, <1>6, <2>2, <3>1, TailElements
    <3>3. i + 1 \in 1..Len(fifo[p])
      BY <1>6, <3>2
    <3> QED
      BY <3>2, <3>3
  <2> QED
    BY <2>1, <2>2
<1>7. \A p \in Queues : \A i \in 1..Len(fifo'[p]) : Accesses(demo, fifo'[p][i]) => p = "concurrent"
  BY <1>6, Zenon DEF QueueInv
<1>8. \A k \in 1..Len(notify') : ~Accesses(demo, notify'[k].b)
  BY <1>0, Zenon DEF QueueInv
<1> QED
  BY <1>0, <1>5, <1>7, <1>8, ZenonT(30) DEF QueueInv

\* The last block of the group ends, and the block that waits for it is submitted.
LEMMA QueueNotify ==
  ASSUME DispatchTypeOK, QueuedInv, QueueInv, NEW b \in Blocks, demo' = demo, status[b] = "running",
         barriers' = barriers, active' = [q \in Queues |-> active[q] \ {b}], notify # <<>>,
         fifo' = [fifo EXCEPT ![notify[1].q] = Append(@, notify[1].b)],
         status' = [status EXCEPT ![b] = "done", ![notify[1].b] = "queued"], notify' = Tail(notify)
  PROVE  QueueInv'
<1> DEFINE c == notify[1].b
           p == notify[1].q
<1>0. \A a : Accesses(demo, a)' = Accesses(demo, a)
  BY DEF Accesses
<1>1. notify \in Seq(Submission) /\ 1 \in 1..Len(notify) /\ Len(notify') = Len(notify) - 1 /\ Len(notify) \in Nat
      /\ \A k \in 1..Len(notify') : notify'[k] = notify[k + 1]
  <2> DEFINE S == Submission
  <2> HIDE DEF S
  <2>1. notify \in Seq(S)
    BY DEF DispatchTypeOK, S
  <2> QED
    BY <2>1, TailElements DEF S
<1>2. notify[1] \in Submission
  BY <1>1, NotifyType
<1>3. c \in Blocks /\ p \in Queues
  BY <1>2 DEF Submission
<1>4. ~Accesses(demo, c) /\ status[c] = "new"
  BY <1>1 DEF QueueInv, QueuedInv
<1>5. /\ fifo' = [fifo EXCEPT ![p] = Append(@, c)] /\ status' = [status EXCEPT ![b] = "done", ![c] = "queued"]
  OBVIOUS
<1> HIDE DEF c, p
<1>6. ASSUME NEW a \in Blocks, Accesses(demo, a)
      PROVE  /\ status'[a] = "running" => a \in active'["concurrent"]
             /\ status'[a] # "new" /\ Code[demo][a] = <<Write>> => a \in barriers'
  <2>1. /\ status[a] = "running" => a \in active["concurrent"]
        /\ status[a] # "new" /\ Code[demo][a] = <<Write>> => a \in barriers
    BY <1>6, Zenon DEF QueueInv
  <2>2. a # c
    BY <1>4, <1>6
  <2>3. IF a = b THEN status'[a] = "done" ELSE status'[a] = status[a]
    BY <1>3, <1>5, <2>2 DEF DispatchTypeOK
  <2>4. a # b /\ a \in active["concurrent"] => a \in active'["concurrent"]
    BY DEF Queues, Concurrent
  <2> QED
    BY <2>1, <2>3, <2>4
<1>7. ASSUME NEW q \in Queues, NEW i \in 1..Len(fifo'[q]), Accesses(demo, fifo'[q][i]) PROVE q = "concurrent"
  <2>0. fifo[q] \in Seq(Blocks) /\ \A j \in 1..Len(fifo[q]) : Accesses(demo, fifo[q][j]) => q = "concurrent"
    BY DEF DispatchTypeOK, QueueInv
  <2>1. CASE q # p
    <3>1. fifo'[q] = fifo[q]
      BY <1>5, <2>1 DEF DispatchTypeOK
    <3> QED
      BY <1>7, <2>0, <3>1
  <2>2. CASE q = p
    <3>1. fifo'[q] = Append(fifo[q], c)
      BY <1>5, <2>2 DEF DispatchTypeOK
    <3>2. Len(fifo'[q]) = Len(fifo[q]) + 1 /\ fifo'[q][Len(fifo[q]) + 1] = c
          /\ \A j \in 1..Len(fifo[q]) : fifo'[q][j] = fifo[q][j]
      BY <2>0, <3>1
    <3>3. i \in 1..Len(fifo[q]) \/ i = Len(fifo[q]) + 1
      BY <1>7, <2>0, <3>2
    <3> QED
      BY <1>4, <1>7, <2>0, <3>2, <3>3, Zenon
  <2> QED
    BY <2>1, <2>2
<1>8. ASSUME NEW k \in 1..Len(notify') PROVE ~Accesses(demo, notify'[k].b)
  <2>1. k + 1 \in 1..Len(notify) /\ notify'[k] = notify[k + 1]
    BY <1>1, <1>8
  <2> QED
    BY <2>1 DEF QueueInv
<1> QED
  BY <1>0, <1>6, <1>7, <1>8, ZenonT(30) DEF QueueInv

LEMMA QueueStep ==
  ASSUME OnceInv, ByQueue(demo), QueueInv, [DispatchNext]_dispatchVars
  PROVE  QueueInv'
<1>0. DispatchTypeOK /\ UsedInv /\ QueuedInv /\ demo' = demo
  BY LockFrame, Zenon DEF OnceInv
<1>1. ASSUME NEW b \in Blocks, DoLog(b) \/ Return(b) \/ DispatchSemaphore(b) \/ PthreadRWLock(b) PROVE QueueInv'
  <2>1. UNCHANGED <<demo, status, active, barriers, fifo, notify>>
    BY <1>1, Zenon DEF DoLog, Return, DispatchSemaphore, PthreadRWLock
  <2> QED
    BY <1>0, <2>1, QueueKeep, Zenon
<1>2. ASSUME NEW b \in Blocks, NEW ops \in SUBSET Submits, At(b, ops), Submit(Stmt(b).q, Stmt(b).b), notify' = notify,
             active' = active, barriers' = IF Stmt(b).op = "barrier" THEN barriers \cup {Stmt(b).b} ELSE barriers
      PROVE  QueueInv'
  <2> DEFINE c == Stmt(b).b
             q == Stmt(b).q
  <2>0. ops \in SUBSET Starts
    BY DEF Starts
  <2>1. c \in Blocks /\ q \in Queues
    BY <1>0, <1>2, StmtType DEF Submission
  <2>2. Accesses(demo, c) => q = "concurrent" /\ (Code[demo][c] = <<Write>> => c \in barriers')
    BY <1>0, <1>2, <2>0, FileSubmitted
  <2>3. barriers \subseteq barriers' /\ fifo' = [fifo EXCEPT ![q] = Append(@, c)]
    BY <1>2 DEF Submit
  <2>4. status'[c] = "queued" /\ \A a \in Blocks : a # c => status'[a] = status[a]
    BY <1>0, <1>2, <2>1 DEF Submit, DispatchTypeOK
  <2> HIDE DEF c, q
  <2> QED
    BY <1>0, <1>2, <2>1, <2>2, <2>3, <2>4, QueueSubmit, Zenon
<1>3. ASSUME NEW b \in Blocks, DispatchAsync(b) PROVE QueueInv'
  <2>1. {"async", "barrier", "groupAsync"} \in SUBSET Submits
    BY DEF Submits
  <2> QED
    BY <1>2, <1>3, <2>1, Zenon DEF DispatchAsync
<1>4. ASSUME NEW b \in Blocks, DispatchSync(b) PROVE QueueInv'
  <2>1. {"sync"} \in SUBSET Submits
    BY DEF Submits
  <2>2. Stmt(b).op # "barrier"
    BY <1>4 DEF DispatchSync, At, Stmt
  <2> QED
    BY <1>2, <1>4, <2>1, <2>2, Zenon DEF DispatchSync
<1>5. ASSUME NEW b \in Blocks, DispatchGroupNotify(b) PROVE QueueInv'
  <2>1. {"notify"} \in SUBSET Submits /\ {"notify"} \in SUBSET Starts /\ At(b, {"notify"})
    BY <1>5 DEF Starts, Submits, DispatchGroupNotify
  <2>2. Stmt(b).op = "notify"
    BY <2>1 DEF At, Stmt
  <2>3. ~Accesses(demo, Stmt(b).b)
    BY <1>0, <2>1, <2>2, FileSubmitted
  <2>4. CASE Submit(Stmt(b).q, Stmt(b).b) /\ notify' = notify
    BY <1>2, <1>5, <2>1, <2>2, <2>4, Zenon DEF DispatchGroupNotify
  <2>5. CASE notify' = Append(notify, Stmt(b)) /\ UNCHANGED <<fifo, status>>
    <3>1. UNCHANGED <<active, barriers>>
      BY <1>5 DEF DispatchGroupNotify
    <3>2. notify \in Seq(Submission) /\ Stmt(b) \in Submission
      BY <1>0, <2>1, <2>2, StmtType DEF DispatchTypeOK, Submits
    <3> DEFINE S == Submission
               s == Stmt(b)
    <3> HIDE DEF S, s
    <3>3. /\ notify' \in Seq(S) /\ Len(notify') = Len(notify) + 1 /\ Len(notify) \in Nat
          /\ notify'[Len(notify) + 1] = s /\ \A k \in 1..Len(notify) : notify'[k] = notify[k]
      BY <2>5, <3>2 DEF S, s
    <3>4. \A k \in 1..Len(notify) : ~Accesses(demo, notify[k].b)
      BY Zenon DEF QueueInv
    <3>5. ASSUME NEW k \in 1..Len(notify') PROVE ~Accesses(demo, notify'[k].b)
      <4>1. k \in 1..Len(notify) \/ k = Len(notify) + 1
        BY <3>3
      <4> QED
        BY <2>3, <3>3, <3>4, <4>1, Zenon DEF s
    <3> QED
      BY <1>0, <2>5, <3>1, <3>5 DEF QueueInv, Accesses
  <2> QED
    BY <1>5, <2>4, <2>5, Zenon DEF DispatchGroupNotify
<1>6. ASSUME NEW b \in Blocks, CallBlock(b) PROVE QueueInv'
  <2>1. {"call", "thread"} \in SUBSET Starts /\ At(b, {"call", "thread"})
    BY <1>6 DEF Starts, CallBlock
  <2>2. ~Accesses(demo, Stmt(b).b)
    BY <1>0, <2>1, FileSubmitted
  <2>3. UNCHANGED <<active, barriers, fifo, notify>> /\ status' = [status EXCEPT ![Stmt(b).b] = "running"]
    BY <1>6 DEF CallBlock
  <2>4. \A a \in Blocks : Accesses(demo, a) => status'[a] = status[a]
    BY <1>0, <2>2, <2>3 DEF DispatchTypeOK
  <2> QED
    BY <1>0, <2>3, <2>4, QueueKeep, Zenon
<1>7. ASSUME NEW b \in Blocks, Finish(b) PROVE QueueInv'
  <2>0. /\ status[b] = "running" /\ barriers' = barriers
        /\ active' = [q \in Queues |-> active[q] \ {b}]
    BY <1>7 DEF Finish
  <2>1. CASE status' = [status EXCEPT ![b] = "done"] /\ UNCHANGED <<fifo, notify>>
    <3>1. /\ status'[b] = "done" /\ \A a \in Blocks : a # b => status'[a] = status[a]
          /\ \A a \in Blocks : a # b /\ a \in active["concurrent"] => a \in active'["concurrent"]
      BY <1>0, <2>0, <2>1 DEF DispatchTypeOK, Queues, Concurrent
    <3>2. \A a \in Blocks : Accesses(demo, a) =>
            /\ status'[a] = status[a] \/ (status[a] # "new" /\ status'[a] = "done")
            /\ a \in active["concurrent"] /\ status'[a] = "running" => a \in active'["concurrent"]
      BY <2>0, <3>1
    <3> QED
      BY <1>0, <2>0, <2>1, <3>2, QueueKeep, Zenon
  <2>2. CASE /\ notify # <<>>
             /\ fifo' = [fifo EXCEPT ![notify[1].q] = Append(@, notify[1].b)]
             /\ status' = [status EXCEPT ![b] = "done", ![notify[1].b] = "queued"]
             /\ notify' = Tail(notify)
    BY <1>0, <2>0, <2>2, QueueNotify, Zenon
  <2> QED
    BY <1>7, <2>1, <2>2, Zenon DEF Finish
<1>8. ASSUME NEW q \in Queues, StartBlock(q) PROVE QueueInv'
  BY <1>0, <1>8, QueueStart
<1>9. CASE UNCHANGED dispatchVars
  <2>1. UNCHANGED <<demo, status, active, barriers, fifo, notify>>
    BY <1>9 DEF dispatchVars
  <2> QED
    BY <1>0, <2>1, QueueKeep, Zenon
<1> QED
  BY <1>1, <1>3, <1>4, <1>5, <1>6, <1>7, <1>8, <1>9, Zenon DEF DispatchNext

Reading == {b \in Blocks : Accessing(b, Read)}
Writing == {b \in Blocks : Accessing(b, Write)}

FileInv == OnceInv /\ LockInv /\ ActiveStarted /\ BarrierAlone /\ (ByQueue(demo) => QueueInv)

\* A writer is alone at the file.
Exclusion ==
  /\ Writing # {} => Reading = {}
  /\ \A b, c \in Writing : b = c
  /\ \A b \in Reading : Code[demo][b] \in ReadCode
  /\ \A b \in Writing : Code[demo][b] \in WriteCode

LEMMA OneWriter == FileInv => Exclusion
<1> SUFFICES ASSUME FileInv PROVE Exclusion
  OBVIOUS
<1>0. DispatchTypeOK
  BY DEF FileInv, OnceInv
<1>1. \A b \in Reading : /\ b \in Blocks /\ Accesses(demo, b) /\ status[b] = "running" /\ Code[demo][b] \in ReadCode
                         /\ Code[demo][b] = readMethod => nextStmt[b] = 2
  BY <1>0, AccessPlace, Zenon DEF Reading
<1>2. \A b \in Writing : /\ b \in Blocks /\ Accesses(demo, b) /\ status[b] = "running" /\ Code[demo][b] \in WriteCode
                         /\ Code[demo][b] = writeMethod => nextStmt[b] = 2
  BY <1>0, AccessPlace, Zenon DEF Writing
<1>3. ByLock(demo) \/ ByQueue(demo)
  BY <1>0, FileAssumption DEF DispatchTypeOK
<1>4. ByLock(demo) => (Writing # {} => Reading = {}) /\ \A b, c \in Writing : b = c
  <2> SUFFICES ASSUME ByLock(demo) PROVE (Writing # {} => Reading = {}) /\ \A b, c \in Writing : b = c
    OBVIOUS
  <2>1. readMethod \notin WriteCode /\ writeMethod \notin ReadCode
    BY CodesDiffer DEF ReadCode, WriteCode
  <2>2. \A b \in Blocks : Accesses(demo, b) => Code[demo][b] \in {readMethod, writeMethod}
    BY DEF ByLock
  <2>3. Reading \subseteq readers
    BY <1>1, <2>1, <2>2, Zenon DEF FileInv, LockInv
  <2>4. Writing \subseteq writers
    BY <1>2, <2>1, <2>2, Zenon DEF FileInv, LockInv
  <2>5. (readers = {} \/ writers = {}) /\ \A b, c \in writers : b = c
    BY Zenon DEF FileInv, LockInv
  <2> QED
    BY <2>3, <2>4, <2>5
<1>5. ByQueue(demo) => (Writing # {} => Reading = {}) /\ \A b, c \in Writing : b = c
  <2> SUFFICES ASSUME ByQueue(demo) PROVE (Writing # {} => Reading = {}) /\ \A b, c \in Writing : b = c
    OBVIOUS
  <2>0. QueueInv /\ BarrierAlone
    BY DEF FileInv
  <2>1. <<Read>> \notin WriteCode /\ writeMethod \notin {<<Read>>, <<Write>>}
    <3>1. Len(writeMethod) # 1 /\ Len(<<Read>>) = 1 /\ Len(<<Write>>) = 1
      BY MethodCode
    <3>2. writeMethod # <<Read>> /\ writeMethod # <<Write>>
      BY <3>1, Zenon
    <3> QED
      BY <3>2, CodesDiffer DEF ReadCode, WriteCode
  <2>2. \A b \in Blocks : Accesses(demo, b) => Code[demo][b] \in {<<Read>>, <<Write>>}
    BY Zenon DEF ByQueue
  <2>3. Reading \subseteq active["concurrent"]
    BY <1>1, <2>0, Zenon DEF QueueInv
  <2>4. \A b \in Writing : b \in active["concurrent"] /\ Code[demo][b] = <<Write>>
    <3> SUFFICES ASSUME NEW b \in Writing PROVE b \in active["concurrent"] /\ Code[demo][b] = <<Write>>
      OBVIOUS
    <3>1. b \in Blocks /\ Accesses(demo, b) /\ status[b] = "running" /\ Code[demo][b] \in WriteCode
      BY <1>2, Zenon
    <3>2. b \in active["concurrent"]
      BY <2>0, <3>1, Zenon DEF QueueInv
    <3>3. Code[demo][b] = <<Write>>
      BY <2>1, <2>2, <3>1, Zenon
    <3> QED
      BY <3>2, <3>3
  <2>5. \A b \in Writing : b \in barriers
    BY <1>2, <2>0, <2>4 DEF QueueInv
  <2>6. \A b \in Writing : b \notin Reading
    BY <1>1, <1>2, CodesDiffer
  <2> QED
    BY <2>0, <2>3, <2>4, <2>5, <2>6, ZenonT(30) DEF BarrierAlone
<1> QED
  BY <1>1, <1>2, <1>3, <1>4, <1>5, Zenon DEF Exclusion

\* b is where it was, or runs neither before nor after the step.
Stays(b) ==
  /\ nextStmt'[b] = nextStmt[b] /\ waitsFor'[b] = waitsFor[b]
  /\ status'[b] = status[b] \/ (status[b] # "running" /\ status'[b] # "running")

\* A step moves one block that accesses the file.
LEMMA OneMoves ==
  ASSUME OnceInv, [DispatchNext]_dispatchVars
  PROVE  \E x \in Blocks : \A b \in Blocks \ {x} : Stays(b) \/ ~Accesses(demo, b)
<1>0. DispatchTypeOK /\ UsedInv /\ QueuedInv
  BY DEF OnceInv
<1>t. /\ nextStmt \in [Blocks -> Nat \ {0}] /\ waitsFor \in [Blocks -> Blocks \cup {NoBlock}]
      /\ status \in [Blocks -> {"new", "queued", "running", "done"}]
  BY <1>0 DEF DispatchTypeOK
<1>1. ASSUME NEW x \in Blocks, DoLog(x) \/ Return(x) \/ DispatchSemaphore(x) \/ PthreadRWLock(x)
      PROVE  \A b \in Blocks \ {x} : Stays(b)
  <2>1. /\ status' = status /\ nextStmt' = [nextStmt EXCEPT ![x] = @ + 1]
        /\ waitsFor' = waitsFor \/ waitsFor' = [waitsFor EXCEPT ![x] = NoBlock]
    BY <1>1, Zenon DEF DoLog, Return, DispatchSemaphore, PthreadRWLock, Advance
  <2> QED
    BY <1>t, <2>1 DEF Stays
<1>2. ASSUME NEW x \in Blocks, DispatchAsync(x) \/ DispatchSync(x) \/ DispatchGroupNotify(x)
      PROVE  \A b \in Blocks \ {x} : Stays(b)
  <2>1. /\ nextStmt' = nextStmt \/ nextStmt' = [nextStmt EXCEPT ![x] = @ + 1]
        /\ waitsFor' = waitsFor \/ waitsFor' = [waitsFor EXCEPT ![x] = Stmt(x).b]
        /\ \/ status' = status
           \/ status[Stmt(x).b] = "new" /\ status' = [status EXCEPT ![Stmt(x).b] = "queued"]
    BY <1>2, Zenon DEF DispatchAsync, DispatchSync, DispatchGroupNotify, Submit, Advance
  <2>2. \A b \in Blocks \ {x} : nextStmt'[b] = nextStmt[b] /\ waitsFor'[b] = waitsFor[b]
    BY <1>t, <2>1
  <2>3. \A b \in Blocks : status'[b] = status[b] \/ (status[b] # "running" /\ status'[b] # "running")
    BY <1>t, <2>1
  <2> QED
    BY <2>2, <2>3 DEF Stays
<1>3. ASSUME NEW x \in Blocks, CallBlock(x)
      PROVE  \A b \in Blocks \ {Stmt(x).b} : Stays(b) \/ ~Accesses(demo, b)
  <2>1. ~Accesses(demo, x)
    BY <1>0, <1>3, FileStatement DEF CallBlock
  <2>2. /\ nextStmt' = nextStmt \/ nextStmt' = [nextStmt EXCEPT ![x] = @ + 1]
        /\ waitsFor' = waitsFor \/ waitsFor' = [waitsFor EXCEPT ![x] = Stmt(x).b]
        /\ status' = [status EXCEPT ![Stmt(x).b] = "running"]
    BY <1>3, Zenon DEF CallBlock, Advance
  <2>3. \A b \in Blocks \ {x} : nextStmt'[b] = nextStmt[b] /\ waitsFor'[b] = waitsFor[b]
    BY <1>t, <2>2
  <2>4. \A b \in Blocks \ {Stmt(x).b} : status'[b] = status[b]
    BY <1>t, <2>2
  <2> QED
    BY <2>1, <2>3, <2>4 DEF Stays
<1>4. ASSUME NEW x \in Blocks, CallBlock(x) PROVE Stmt(x).b \in Blocks
  BY <1>0, <1>4, StmtType DEF CallBlock
<1>5. ASSUME NEW x \in Blocks, Finish(x) PROVE \A b \in Blocks \ {x} : Stays(b)
  <2>1. UNCHANGED <<nextStmt, waitsFor>>
    BY <1>5 DEF Finish
  <2>2. CASE status' = [status EXCEPT ![x] = "done"]
    BY <1>t, <2>1, <2>2 DEF Stays
  <2>3. CASE notify # <<>> /\ status' = [status EXCEPT ![x] = "done", ![notify[1].b] = "queued"]
    <3>1. 1 \in 1..Len(notify)
      <4> DEFINE S == Submission
      <4> HIDE DEF S
      <4>1. notify \in Seq(S)
        BY <1>0 DEF DispatchTypeOK, S
      <4> QED
        BY <2>3, <4>1
    <3>2. status[notify[1].b] = "new"
      BY <1>0, <3>1 DEF QueuedInv
    <3> QED
      BY <1>t, <2>1, <2>3, <3>2 DEF Stays
  <2> QED
    BY <1>5, <2>2, <2>3, Zenon DEF Finish
<1>6. ASSUME NEW q \in Queues, StartBlock(q)
      PROVE  Head(fifo[q]) \in Blocks /\ \A b \in Blocks \ {Head(fifo[q])} : Stays(b)
  <2>1. Head(fifo[q]) \in Blocks
    BY <1>0, <1>6 DEF StartBlock, MayStart, DispatchTypeOK
  <2>2. UNCHANGED <<nextStmt, waitsFor>> /\ status' = [status EXCEPT ![Head(fifo[q])] = "running"]
    BY <1>6 DEF StartBlock
  <2> QED
    BY <1>t, <2>1, <2>2 DEF Stays
<1>7. CASE UNCHANGED dispatchVars
  <2>1. \A b \in Blocks : Stays(b)
    BY <1>7 DEF dispatchVars, Stays
  <2> QED
    BY <2>1, CodeAssumption
<1> QED
  BY <1>1, <1>2, <1>3, <1>4, <1>5, <1>6, <1>7, ZenonT(30) DEF DispatchNext

\* A block that stays accesses the file after the step as before.
LEMMA StaysAtFile ==
  ASSUME DispatchTypeOK, DispatchTypeOK', demo' = demo, NEW b \in Blocks, Stays(b) \/ ~Accesses(demo, b),
         NEW m \in {Read, Write}
  PROVE  Accessing(b, m)' <=> Accessing(b, m)
<1>1. CASE Stays(b)
  BY <1>1 DEF Stays, Accessing, At, Stmt
<1>2. CASE ~Accesses(demo, b)
  <2>1. ~Accessing(b, m)
    BY <1>2, AccessPlace
  <2>2. ~Accessing(b, m)'
    <3> SUFFICES ASSUME Accessing(b, m)' PROVE Accesses(demo, b)
      BY <1>2
    <3>1. nextStmt'[b] \in Nat \ {0} /\ Len(Code[demo][b]) \in Nat
      BY CodeLen DEF DispatchTypeOK
    <3>2. nextStmt'[b] <= Len(Code[demo][b]) /\ Code[demo][b][nextStmt'[b]] = m
      BY DEF Accessing, At, Stmt
    <3> QED
      BY <3>1, <3>2 DEF Accesses
  <2> QED
    BY <2>1, <2>2
<1> QED
  BY <1>1, <1>2

LEMMA FileStep == FileInv /\ [DispatchNext]_dispatchVars => FileInv'
<1> SUFFICES ASSUME FileInv, [DispatchNext]_dispatchVars PROVE FileInv'
  OBVIOUS
<1>1. DispatchTypeOK /\ OnceInv /\ LockInv /\ ActiveStarted /\ BarrierAlone /\ (ByQueue(demo) => QueueInv)
  BY DEF FileInv, OnceInv
<1>2. OnceInv' /\ LockInv' /\ ActiveStarted' /\ BarrierAlone'
  BY <1>1, OnceStep, LockStep, ActiveStep, BarrierStep, Zenon
<1>3. demo' = demo
  BY LockFrame, Zenon
<1>4. ByQueue(demo)' <=> ByQueue(demo)
  BY <1>3 DEF ByQueue, Accesses
<1>5. ByQueue(demo)' => QueueInv'
  BY <1>1, <1>4, QueueStep, Zenon
<1> QED
  BY <1>2, <1>5, Zenon DEF FileInv

LEMMA FileInit == DispatchInit => FileInv /\ RW!RWInit
<1> SUFFICES ASSUME DispatchInit PROVE FileInv /\ RW!RWInit
  OBVIOUS
<1>0. OnceInv /\ DispatchTypeOK
  BY OnceInit DEF OnceInv
<1>1. /\ \A b \in Blocks : waitsFor[b] = NoBlock /\ nextStmt[b] = 1 /\ (status[b] # "new" => b = "method")
      /\ \A q \in Queues : active[q] = IF q = "main" THEN {"method"} ELSE {}
      /\ \A q \in Queues : fifo[q] = <<>>
      /\ readers = {} /\ writers = {} /\ notify = <<>>
  BY DEF DispatchInit
<1>2. LockInv
  BY <1>1 DEF LockInv
<1>3. active["concurrent"] = {}
  BY <1>1 DEF Queues, Concurrent
<1>4. BarrierAlone
  BY <1>3 DEF BarrierAlone
<1>5. ActiveStarted
  <2>1. status["method"] = "running"
    BY CodeAssumption DEF DispatchInit
  <2> QED
    BY <1>1, <2>1 DEF ActiveStarted
<1>6. ByQueue(demo) => QueueInv
  <2> SUFFICES ASSUME ByQueue(demo) PROVE QueueInv
    OBVIOUS
  <2>1. ~Accesses(demo, "method")
    BY Zenon DEF ByQueue
  <2>2. \A b \in Blocks : Accesses(demo, b) => status[b] = "new"
    BY <1>1, <2>1, Zenon
  <2>3. (\A q \in Queues : 1..Len(fifo[q]) = {}) /\ 1..Len(notify) = {}
    BY <1>1
  <2> QED
    BY <2>2, <2>3 DEF QueueInv
<1>7. FileInv
  BY <1>0, <1>2, <1>4, <1>5, <1>6 DEF FileInv
<1>8. ASSUME NEW b \in Blocks, NEW m \in {Read, Write}, Accessing(b, m) PROVE FALSE
  <2>1. /\ Accesses(demo, b) /\ status[b] = "running"
        /\ Code[demo][b] = readMethod => nextStmt[b] = 2
        /\ Code[demo][b] = writeMethod => nextStmt[b] = 2
    <3>1. readMethod \notin WriteCode /\ writeMethod \notin ReadCode
      BY CodesDiffer DEF ReadCode, WriteCode
    <3> QED
      BY <1>0, <1>8, <3>1, AccessPlace
  <2>2. b = "method" /\ nextStmt[b] = 1
    BY <1>1, <2>1
  <2>3. Code[demo][b] \notin {readMethod, writeMethod}
    BY <2>1, <2>2
  <2>4. ByLock(demo) \/ ByQueue(demo)
    BY <1>0, FileAssumption DEF DispatchTypeOK
  <2> QED
    BY <2>1, <2>2, <2>3, <2>4, Zenon DEF ByLock, ByQueue
<1> QED
  BY <1>7, <1>8 DEF RW!RWInit

\* The file: in every demo that accesses it with the lock, or on the queue, by any
\* number of calls, the accesses implement ReadersWriters.
THEOREM FilesKept == DispatchSpec => FileRules
<1>1. FileInv /\ Exclusion /\ [DispatchNext]_dispatchVars /\ FileInv' /\ Exclusion' => [RW!RWNext]_(RW!rwVars)
  <2> SUFFICES ASSUME FileInv, Exclusion, [DispatchNext]_dispatchVars, FileInv', Exclusion'
               PROVE  RW!RWNext \/ UNCHANGED RW!rwVars
    BY Zenon
  <2>0. DispatchTypeOK /\ DispatchTypeOK' /\ demo' = demo /\ OnceInv
    BY LockFrame, Zenon DEF FileInv, OnceInv
  <2>1. PICK x \in Blocks : \A b \in Blocks \ {x} : Stays(b) \/ ~Accesses(demo, b)
    BY <2>0, OneMoves, Zenon
  <2>2. \A b \in Blocks \ {x} : (b \in Reading' <=> b \in Reading) /\ (b \in Writing' <=> b \in Writing)
    BY <2>0, <2>1, StaysAtFile, Zenon DEF Reading, Writing
  <2>3. /\ ~(x \in Reading /\ x \in Writing) /\ ~(x \in Reading /\ x \in Writing')
        /\ ~(x \in Writing /\ x \in Reading') /\ ~(x \in Reading' /\ x \in Writing')
    BY <2>0, CodesDiffer DEF Exclusion
  <2>4. Reading \subseteq Blocks /\ Writing \subseteq Blocks /\ Reading' \subseteq Blocks /\ Writing' \subseteq Blocks
    BY Zenon DEF Reading, Writing
  <2>5. /\ Writing # {} => Reading = {}
        /\ Writing' # {} => Reading' = {}
        /\ \A b, c \in Writing' : b = c
    BY Zenon DEF Exclusion
  <2>r. /\ RW!BeginRead(x) <=> Writing = {} /\ Reading' = Reading \cup {x} /\ Writing' = Writing
        /\ RW!BeginWrite(x) <=> Reading = {} /\ Writing = {} /\ Writing' = {x} /\ Reading' = Reading
        /\ RW!End(x) <=> Reading' = Reading \ {x} /\ Writing' = Writing \ {x}
        /\ UNCHANGED RW!rwVars <=> Reading' = Reading /\ Writing' = Writing
    BY DEF RW!BeginRead, RW!BeginWrite, RW!End, RW!rwVars, Reading, Writing
  <2>6. CASE x \in Reading' /\ x \notin Reading
    <3>1. x \notin Writing /\ x \notin Writing'
      BY <2>3, <2>6
    <3>2. Reading' = Reading \cup {x} /\ Writing' = Writing
      BY <2>2, <2>4, <2>6, <3>1
    <3>3. Writing = {}
      BY <2>5, <2>6, <3>2
    <3> QED
      BY <2>r, <3>2, <3>3 DEF RW!RWNext
  <2>7. CASE x \in Writing' /\ x \notin Writing
    <3>1. x \notin Reading /\ x \notin Reading'
      BY <2>3, <2>7
    <3>2. Writing' = Writing \cup {x} /\ Reading' = Reading
      BY <2>2, <2>4, <2>7, <3>1
    <3>3. Writing = {} /\ Reading = {}
      BY <2>5, <2>7, <3>2
    <3>4. Writing' = {x}
      BY <3>2, <3>3
    <3> QED
      BY <2>r, <3>2, <3>3, <3>4 DEF RW!RWNext
  <2>8. CASE x \notin Reading' /\ x \notin Writing'
    <3>1. Reading' = Reading \ {x} /\ Writing' = Writing \ {x}
      BY <2>2, <2>4, <2>8
    <3> QED
      BY <2>r, <3>1 DEF RW!RWNext
  <2>9. CASE (x \in Reading' /\ x \in Reading) \/ (x \in Writing' /\ x \in Writing)
    <3>1. (x \in Reading' <=> x \in Reading) /\ (x \in Writing' <=> x \in Writing)
      BY <2>3, <2>9
    <3>2. Reading' = Reading /\ Writing' = Writing
      BY <2>2, <2>4, <3>1
    <3> QED
      BY <2>r, <3>2
  <2> QED
    BY <2>6, <2>7, <2>8, <2>9, Zenon
<1> QED
  BY <1>1, FileInit, FileStep, OneWriter, PTL DEF DispatchSpec, FileRules, RW!RWSpec
=============================================================================
