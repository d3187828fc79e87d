-------------------------- MODULE ThreadPoolProofs --------------------------
(***************************************************************************)
(* Theorems about ThreadPool, for any number of workers, callers and jobs  *)
(* and any limit of the queue.                                             *)
(***************************************************************************)
EXTENDS ThreadPool, FiniteSetTheorems, TLAPS

(* What the locals of append() and run() hold while they are needed. *)
LocalsHeld ==
  /\ \A c \in Caller : pc[c] = "push" => request[c] \in Request
  /\ \A w \in Worker : pc[w] \in {"pop", "process"} => request[w] \in Request

(* Between front() and pop_front() the mutex keeps the head in place. *)
HeadPinned ==
  \A w \in Worker :
    pc[w] = "pop" => m_workqueue # <<>> /\ request[w] = Head(m_workqueue)

(* TypeOK alone is not inductive: push_back() keeps the queue well typed     *)
(* because the argument is still there, pop_front() because the queue cannot *)
(* have been emptied since front().                                          *)
PoolInv == TypeOK /\ LocalsHeld /\ LockHeldIffInside /\ HeadPinned

LEMMA PoolInvInit == Init => PoolInv
  BY PoolAssumption
     DEF Init, PoolInv, TypeOK, LocalsHeld, LockHeldIffInside, HeadPinned,
         Inside, Thread, CallerPc, WorkerPc

LEMMA PoolInvStep == PoolInv /\ [Next]_vars => PoolInv'
<1> SUFFICES ASSUME PoolInv, [Next]_vars
             PROVE  PoolInv'
  OBVIOUS
<1> USE PoolAssumption
    DEF PoolInv, TypeOK, LocalsHeld, LockHeldIffInside, HeadPinned, Inside,
        Thread, CallerPc, WorkerPc, Goto, Acquire, Release
<1>1. ASSUME NEW c \in Caller, NEW r \in Request, AppendLock(c, r)
      PROVE  PoolInv'
  BY <1>1 DEF AppendLock
<1>2. ASSUME NEW c \in Caller, AppendReject(c)
      PROVE  PoolInv'
  BY <1>2 DEF AppendReject, OverLimit, RejectUnlocks
<1>3. ASSUME NEW c \in Caller, AppendPush(c)
      PROVE  PoolInv'
  BY <1>3 DEF AppendPush, OverLimit, AfterPush
<1>4. ASSUME NEW c \in Caller, AppendPost(c)
      PROVE  PoolInv'
  BY <1>4 DEF AppendPost
<1>5. ASSUME NEW w \in Worker, Wait(w)
      PROVE  PoolInv'
  BY <1>5 DEF Wait
<1>6. ASSUME NEW w \in Worker, WaitInterrupted(w)
      PROVE  PoolInv'
  BY <1>6 DEF WaitInterrupted
<1>7. ASSUME NEW w \in Worker, Lock(w)
      PROVE  PoolInv'
  BY <1>7 DEF Lock
<1>8. ASSUME NEW w \in Worker, FoundEmpty(w)
      PROVE  PoolInv'
  BY <1>8 DEF FoundEmpty
<1>9. ASSUME NEW w \in Worker, Front(w)
      PROVE  PoolInv'
  BY <1>9 DEF Front
<1>10. ASSUME NEW w \in Worker, PopFront(w)
       PROVE  PoolInv'
  BY <1>10 DEF PopFront, Popped
<1>11. ASSUME NEW w \in Worker, Process(w)
       PROVE  PoolInv'
  BY <1>11 DEF Process
<1>12. CASE UNCHANGED vars
  BY <1>12 DEF vars
<1>13. QED
  BY <1>1, <1>2, <1>3, <1>4, <1>5, <1>6, <1>7, <1>8, <1>9, <1>10, <1>11, <1>12
     DEF Next, Append_, Run

LEMMA PoolInvariant == Spec => []PoolInv
  BY PoolInvInit, PoolInvStep, PTL DEF Spec

(* The queue holds jobs, the semaphore a count, and every thread is at a     *)
(* step of its own loop, whatever append() and run() interleave.             *)
THEOREM TypeCorrect == Spec => []TypeOK
  BY PoolInvariant, PTL DEF PoolInv

(* Every path of append() and run() gives the mutex back, and no two threads *)
(* are between lock() and unlock() at once.                                  *)
THEOREM MutexDiscipline == Spec => []LockHeldIffInside
  BY PoolInvariant, PTL DEF PoolInv

-----------------------------------------------------------------------------
(* Counting the threads that have a job in sight *)

LEMMA CountsAreNaturals ==
  /\ IsFiniteSet(Woken) /\ Cardinality(Woken) \in Nat
  /\ IsFiniteSet(Posting) /\ Cardinality(Posting) \in Nat
<1>1. Woken \in SUBSET Worker /\ Posting \in SUBSET Caller
  BY DEF Woken, Posting
<1>2. IsFiniteSet(Worker) /\ IsFiniteSet(Caller)
  BY PoolAssumption DEF PoolAssumption
<1>3. IsFiniteSet(Woken) /\ IsFiniteSet(Posting)
  BY <1>1, <1>2, FS_Subset
<1>4. QED
  BY <1>3, FS_CardinalityType

(* One more thread is in sight of a job. *)
LEMMA OneMore ==
  ASSUME NEW S, NEW x, IsFiniteSet(S), x \notin S
  PROVE  Cardinality(S \cup {x}) = Cardinality(S) + 1
  BY FS_AddElement

(* One thread less; a set that loses an element had one. *)
LEMMA OneLess ==
  ASSUME NEW S, NEW x, IsFiniteSet(S), x \in S
  PROVE  Cardinality(S \ {x}) = Cardinality(S) - 1
  BY FS_RemoveElement

LEMMA NoLostWakeupStep ==
  PoolInv /\ NoLostWakeup /\ [Next]_vars => NoLostWakeup'
<1> SUFFICES ASSUME PoolInv, NoLostWakeup, [Next]_vars
             PROVE  NoLostWakeup'
  OBVIOUS
<1>0. /\ IsFiniteSet(Woken) /\ Cardinality(Woken) \in Nat
      /\ IsFiniteSet(Posting) /\ Cardinality(Posting) \in Nat
      /\ m_queuestat \in Nat
      /\ Len(m_workqueue) \in Nat
  BY CountsAreNaturals DEF PoolInv, TypeOK
<1>1. ASSUME NEW c \in Caller, NEW r \in Request, AppendLock(c, r)
      PROVE  NoLostWakeup'
  <2>1. Woken' = Woken /\ Posting' = Posting
    BY <1>1, PoolAssumption
       DEF AppendLock, Goto, Woken, Posting, PoolInv, TypeOK, Thread
  <2>2. QED
    BY <1>1, <2>1 DEF AppendLock, NoLostWakeup
<1>2. ASSUME NEW c \in Caller, AppendReject(c)
      PROVE  NoLostWakeup'
  <2>1. Woken' = Woken /\ Posting' = Posting
    BY <1>2, PoolAssumption
       DEF AppendReject, OverLimit, RejectUnlocks, Goto, Woken, Posting, PoolInv, TypeOK, Thread
  <2>2. QED
    BY <1>2, <2>1 DEF AppendReject, OverLimit, RejectUnlocks, NoLostWakeup
<1>3. ASSUME NEW c \in Caller, AppendPush(c)
      PROVE  NoLostWakeup'
  <2>1. Woken' = Woken /\ Posting' = Posting \cup {c} /\ c \notin Posting
    BY <1>3, PoolAssumption
       DEF AppendPush, OverLimit, AfterPush, Goto, Woken, Posting, PoolInv, TypeOK, Thread
  <2>2. Cardinality(Posting') = Cardinality(Posting) + 1
    BY <1>0, <2>1, OneMore
  <2>3. Len(m_workqueue') = Len(m_workqueue) + 1
    BY <1>3 DEF AppendPush, OverLimit, AfterPush, PoolInv, TypeOK, LocalsHeld
  <2>4. QED
    BY <1>0, <1>3, <2>1, <2>2, <2>3 DEF AppendPush, OverLimit, AfterPush, NoLostWakeup
<1>4. ASSUME NEW c \in Caller, AppendPost(c)
      PROVE  NoLostWakeup'
  <2>1. Woken' = Woken /\ Posting' = Posting \ {c} /\ c \in Posting
    BY <1>4, PoolAssumption
       DEF AppendPost, Goto, Woken, Posting, PoolInv, TypeOK, Thread
  <2>2. Cardinality(Posting') = Cardinality(Posting) - 1
    BY <1>0, <2>1, OneLess
  <2>3. QED
    BY <1>0, <1>4, <2>1, <2>2 DEF AppendPost, NoLostWakeup
<1>5. ASSUME NEW w \in Worker, Wait(w) \/ WaitInterrupted(w)
      PROVE  NoLostWakeup'
  <2>1. Woken' = Woken \cup {w} /\ w \notin Woken /\ Posting' = Posting
    BY <1>5, PoolAssumption
       DEF Wait, WaitInterrupted, Goto, Woken, Posting, PoolInv, TypeOK, Thread
  <2>2. Cardinality(Woken') = Cardinality(Woken) + 1
    BY <1>0, <2>1, OneMore
  <2>3. m_workqueue' = m_workqueue /\ m_queuestat' \in {m_queuestat - 1, m_queuestat}
    BY <1>5 DEF Wait, WaitInterrupted
  <2>4. QED
    BY <1>0, <2>1, <2>2, <2>3 DEF NoLostWakeup
<1>6. ASSUME NEW w \in Worker, Lock(w) \/ Front(w) \/ Process(w)
      PROVE  NoLostWakeup'
  <2>1. Woken' = Woken /\ Posting' = Posting
    BY <1>6, PoolAssumption
       DEF Lock, Front, Process, Goto, Woken, Posting, PoolInv, TypeOK, Thread
  <2>2. QED
    BY <1>6, <2>1 DEF Lock, Front, Process, NoLostWakeup
<1>7. ASSUME NEW w \in Worker, FoundEmpty(w)
      PROVE  NoLostWakeup'
  <2>1. Woken' = Woken \ {w} /\ w \in Woken /\ Posting' = Posting
    BY <1>7, PoolAssumption
       DEF FoundEmpty, Goto, Woken, Posting, PoolInv, TypeOK, Thread
  <2>2. Cardinality(Woken') = Cardinality(Woken) - 1 /\ Cardinality(Woken') \in Nat
    BY <1>0, <2>1, OneLess, FS_RemoveElement, FS_CardinalityType
  <2>3. Len(m_workqueue') = 0 /\ m_queuestat' = m_queuestat
    BY <1>7 DEF FoundEmpty
  <2>4. QED
    BY <1>0, <2>1, <2>2, <2>3 DEF NoLostWakeup
<1>8. ASSUME NEW w \in Worker, PopFront(w)
      PROVE  NoLostWakeup'
  <2>1. Woken' = Woken \ {w} /\ w \in Woken /\ Posting' = Posting
    BY <1>8, PoolAssumption
       DEF PopFront, Popped, Goto, Woken, Posting, PoolInv, TypeOK, Thread
  <2>2. Cardinality(Woken') = Cardinality(Woken) - 1
    BY <1>0, <2>1, OneLess
  <2>3. Len(m_workqueue') = Len(m_workqueue) - 1
    BY <1>8 DEF PopFront, Popped, PoolInv, HeadPinned, TypeOK
  <2>4. QED
    BY <1>0, <1>8, <2>1, <2>2, <2>3 DEF PopFront, Popped, NoLostWakeup
<1>9. CASE UNCHANGED vars
  BY <1>9 DEF vars, NoLostWakeup, Woken, Posting
<1>10. QED
  BY <1>1, <1>2, <1>3, <1>4, <1>5, <1>6, <1>7, <1>8, <1>9 DEF Next, Append_, Run

(* The pool never sleeps on a job: each one in the queue is matched by a     *)
(* permit, by a worker past its wait or by a post() still to come, also when *)
(* signals interrupt sem_wait and jobs are taken without a permit.           *)
THEOREM NoWakeupIsLost == Spec => []NoLostWakeup
<1>1. Init => NoLostWakeup
  <2> SUFFICES ASSUME Init
               PROVE  NoLostWakeup
    OBVIOUS
  <2>1. Len(m_workqueue) = 0 /\ m_queuestat = 0
    BY DEF Init
  <2>2. QED
    BY <2>1, CountsAreNaturals DEF NoLostWakeup
<1>2. QED
  BY <1>1, NoLostWakeupStep, PoolInvariant, PTL DEF Spec

-----------------------------------------------------------------------------
(* The pool implements JobDispatch *)

LEMMA DispatchInit == Init => Dispatch!Init
  BY PoolAssumption DEF Init, Dispatch!Init, Thread

LEMMA DispatchStep ==
  PoolInv /\ [Next]_vars => [Dispatch!Next]_(Dispatch!jobVars)
<1> SUFFICES ASSUME PoolInv, [Next]_vars
             PROVE  [Dispatch!Next]_(Dispatch!jobVars)
  OBVIOUS
<1> DEFINE running == [w \in Worker |-> IF pc[w] = "process" THEN request[w] ELSE None]
<1> USE PoolAssumption
    DEF PoolInv, TypeOK, LocalsHeld, HeadPinned, Thread, CallerPc, WorkerPc, Goto,
        Dispatch!jobVars
<1>1. ASSUME NEW c \in Caller,
             (\E r \in Request : AppendLock(c, r)) \/ AppendReject(c) \/ AppendPost(c)
      PROVE  UNCHANGED Dispatch!jobVars
  BY <1>1 DEF AppendLock, AppendReject, RejectUnlocks, AppendPost
<1>2. ASSUME NEW c \in Caller, AppendPush(c)
      PROVE  Dispatch!Submit(request[c])
  BY <1>2 DEF AppendPush, OverLimit, AfterPush, Dispatch!Submit, Dispatch!HasRoom
<1>3. ASSUME NEW w \in Worker,
             Wait(w) \/ WaitInterrupted(w) \/ Lock(w) \/ FoundEmpty(w) \/ Front(w)
      PROVE  UNCHANGED Dispatch!jobVars
  BY <1>3 DEF Wait, WaitInterrupted, Lock, FoundEmpty, Front
<1>4. ASSUME NEW w \in Worker, PopFront(w)
      PROVE  Dispatch!Take(w)
  BY <1>4 DEF PopFront, Popped, Dispatch!Take
<1>5. ASSUME NEW w \in Worker, Process(w)
      PROVE  Dispatch!Finish(w)
  BY <1>5 DEF Process, Dispatch!Finish
<1>6. CASE UNCHANGED vars
  BY <1>6 DEF vars
<1>7. ASSUME NEW c \in Caller, AppendPush(c)
      PROVE  request[c] \in Request
  BY <1>7 DEF AppendPush, OverLimit, AfterPush
<1>8. QED
  BY <1>1, <1>2, <1>3, <1>4, <1>5, <1>6, <1>7 DEF Next, Append_, Run, Dispatch!Next

(* The pool's threads, mutex and semaphore implement a first-in first-out    *)
(* backlog whose jobs each go to exactly one worker.                         *)
THEOREM PoolDispatchesInOrder == Spec => DispatchesInOrder
  BY DispatchInit, DispatchStep, PoolInvariant, PTL
     DEF Spec, DispatchesInOrder, Dispatch!Spec
=============================================================================
