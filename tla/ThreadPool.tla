----------------------------- MODULE ThreadPool -----------------------------
(***************************************************************************)
(* threadpool<T> (threadpool/threadpool.h) with the locker and sem classes *)
(* it is built from (locker/locker.h): append() called by any thread, and  *)
(* the loop run() of every worker thread, one step per access to shared    *)
(* state.  The pool is modelled while it lives: m_stop is assigned only by *)
(* the destructor, so it is FALSE throughout.                              *)
(***************************************************************************)
EXTENDS Naturals, Sequences, FiniteSets

CONSTANTS
  Worker,       \* the threads the constructor creates
  Caller,       \* the threads that call append(); in the server, the main one
  Request,      \* the jobs: T* pointers, never null
  MaxRequests,  \* m_max_requests
  MaxPermits,   \* bound: sem_wait is interrupted only below this value
  None          \* no thread, no job

ASSUME PoolAssumption ==
  /\ IsFiniteSet(Worker)
  /\ IsFiniteSet(Caller)
  /\ Worker \cap Caller = {}
  /\ MaxRequests \in Nat \ {0}
  /\ MaxPermits \in Nat
  /\ None \notin Worker \cup Caller \cup Request

VARIABLES
  m_workqueue,    \* std::list<T*>, as a sequence
  m_queuelocker,  \* the thread that holds the mutex, or None
  m_queuestat,    \* value of the semaphore
  pc,             \* next step of each thread
  request         \* append's argument, and the local variable of run()

vars == <<m_workqueue, m_queuelocker, m_queuestat, pc, request>>

Thread == Worker \cup Caller

CallerPc == {"out", "push", "post"}
WorkerPc == {"wait", "lock", "front", "pop", "process"}

TypeOK ==
  /\ m_workqueue \in Seq(Request) /\ Len(m_workqueue) <= MaxRequests + 1
  /\ m_queuelocker \in Thread \cup {None}
  /\ m_queuestat \in Nat
  /\ pc \in [Thread -> CallerPc \cup WorkerPc]
  /\ \A c \in Caller : pc[c] \in CallerPc
  /\ \A w \in Worker : pc[w] \in WorkerPc
  /\ request \in [Thread -> Request \cup {None}]

Init ==
  /\ m_workqueue = <<>>
  /\ m_queuelocker = None
  /\ m_queuestat = 0
  /\ pc = [t \in Thread |-> IF t \in Worker THEN "wait" ELSE "out"]
  /\ request = [t \in Thread |-> None]

Goto(t, label) == pc' = [pc EXCEPT ![t] = label]

\* locker::lock() succeeds only when nobody holds the mutex.
Acquire(t) == m_queuelocker = None /\ m_queuelocker' = t

\* locker::unlock()
Release == m_queuelocker' = None

-----------------------------------------------------------------------------
(* append(r), called by thread c *)

AppendLock(c, r) ==
  /\ pc[c] = "out"
  /\ Acquire(c)
  /\ request' = [request EXCEPT ![c] = r]
  /\ Goto(c, "push")
  /\ UNCHANGED <<m_workqueue, m_queuestat>>

\* A bug to catch: the limit is not tested.
OverLimit_Never == FALSE

\* The test is '>', so one job more than MaxRequests fits.
OverLimit == Len(m_workqueue) > MaxRequests

\* A bug to catch: the early return forgets to unlock.
RejectUnlocks_Not == UNCHANGED m_queuelocker

RejectUnlocks == Release

\* The queue is over its limit: unlock and return false.
AppendReject(c) ==
  /\ pc[c] = "push"
  /\ OverLimit
  /\ RejectUnlocks
  /\ request' = [request EXCEPT ![c] = None]
  /\ Goto(c, "out")
  /\ UNCHANGED <<m_workqueue, m_queuestat>>

\* A bug to catch: post only when the queue was empty.
AfterPush_PostIfEmpty == IF m_workqueue = <<>> THEN "post" ELSE "out"

AfterPush == "post"

AppendPush(c) ==
  /\ pc[c] = "push"
  /\ ~OverLimit
  /\ m_workqueue' = Append(m_workqueue, request[c])
  /\ Release
  /\ request' = [request EXCEPT ![c] = None]
  /\ Goto(c, AfterPush)
  /\ UNCHANGED m_queuestat

\* The semaphore is posted after the mutex is released.
AppendPost(c) ==
  /\ pc[c] = "post"
  /\ m_queuestat' = m_queuestat + 1
  /\ Goto(c, "out")
  /\ UNCHANGED <<m_workqueue, m_queuelocker, request>>

-----------------------------------------------------------------------------
(* run(), the loop of worker w *)

Wait(w) ==
  /\ pc[w] = "wait"
  /\ m_queuestat > 0
  /\ m_queuestat' = m_queuestat - 1
  /\ Goto(w, "lock")
  /\ UNCHANGED <<m_workqueue, m_queuelocker, request>>

\* SIGALRM and SIGTERM have handlers without SA_RESTART, so sem_wait can fail
\* with EINTR; sem::wait() reports it and run() does not look.
WaitInterrupted(w) ==
  /\ pc[w] = "wait"
  /\ m_queuestat < MaxPermits
  /\ Goto(w, "lock")
  /\ UNCHANGED <<m_workqueue, m_queuelocker, m_queuestat, request>>

Lock(w) ==
  /\ pc[w] = "lock"
  /\ Acquire(w)
  /\ Goto(w, "front")
  /\ UNCHANGED <<m_workqueue, m_queuestat, request>>

\* empty(): unlock and go round the loop again.
FoundEmpty(w) ==
  /\ pc[w] = "front"
  /\ m_workqueue = <<>>
  /\ Release
  /\ Goto(w, "wait")
  /\ UNCHANGED <<m_workqueue, m_queuestat, request>>

Front(w) ==
  /\ pc[w] = "front"
  /\ m_workqueue # <<>>
  /\ request' = [request EXCEPT ![w] = Head(m_workqueue)]
  /\ Goto(w, "pop")
  /\ UNCHANGED <<m_workqueue, m_queuelocker, m_queuestat>>

\* A bug to catch: pop_back() in place of pop_front().
Popped_Back == SubSeq(m_workqueue, 1, Len(m_workqueue) - 1)

Popped == Tail(m_workqueue)

PopFront(w) ==
  /\ pc[w] = "pop"
  /\ m_workqueue' = Popped
  /\ Release
  /\ Goto(w, "process")
  /\ UNCHANGED <<m_queuestat, request>>

\* request->process() returns.
Process(w) ==
  /\ pc[w] = "process"
  /\ request' = [request EXCEPT ![w] = None]
  /\ Goto(w, "wait")
  /\ UNCHANGED <<m_workqueue, m_queuelocker, m_queuestat>>

-----------------------------------------------------------------------------
Append_(c) ==
  \/ \E r \in Request : AppendLock(c, r)
  \/ AppendReject(c)
  \/ AppendPush(c)
  \/ AppendPost(c)

Run(w) ==
  \/ Wait(w)
  \/ WaitInterrupted(w)
  \/ Lock(w)
  \/ FoundEmpty(w)
  \/ Front(w)
  \/ PopFront(w)
  \/ Process(w)

Next ==
  \/ \E c \in Caller : Append_(c)
  \/ \E w \in Worker : Run(w)

Spec == Init /\ [][Next]_vars

(***************************************************************************)
(* Fairness.  Every thread keeps running, so each step that stays possible *)
(* is taken; whether append() is called at all is up to the caller.  A     *)
(* thread that wants the mutex gets it if it is free again and again:      *)
(* nobody keeps the mutex beyond a few instructions, and a futex wakes its *)
(* waiters.                                                                *)
(***************************************************************************)
LiveSpec ==
  /\ Spec
  /\ \A c \in Caller :
       WF_vars(AppendReject(c) \/ AppendPush(c) \/ AppendPost(c))
  /\ \A w \in Worker :
       /\ WF_vars(Wait(w) \/ FoundEmpty(w) \/ Front(w) \/ PopFront(w) \/ Process(w))
       /\ SF_vars(Lock(w))

-----------------------------------------------------------------------------
(* Properties *)

\* Threads between lock() and unlock().
Inside(t) == pc[t] \in {"push", "front", "pop"}

\* The mutex is held exactly by the thread that is between lock() and unlock():
\* every early return and every 'continue' of append() and run() unlocks, and no
\* two threads touch m_workqueue at once.
LockHeldIffInside == \A t \in Thread : Inside(t) <=> m_queuelocker = t

\* Workers past sem::wait() that have not unlinked a job yet, and callers between
\* push_back() and post().
Woken == {w \in Worker : pc[w] \in {"lock", "front", "pop"}}
Posting == {c \in Caller : pc[c] = "post"}

\* No lost wakeup: every queued job is matched by a permit of the semaphore, by a
\* worker on its way to the queue or by a post() about to happen, even though
\* post() comes after unlock() and interrupted waits take jobs without a permit.
NoLostWakeup ==
  Len(m_workqueue) <= m_queuestat + Cardinality(Woken) + Cardinality(Posting)

\* What the pool's user sees: the queue, and the jobs being processed.
Dispatch == INSTANCE JobDispatch WITH
  backlog <- m_workqueue,
  running <- [w \in Worker |-> IF pc[w] = "process" THEN request[w] ELSE None]

\* Jobs leave the queue in the order of append(), each to exactly one worker; none
\* is lost, duplicated or invented by the interleavings of append() and run().
DispatchesInOrder == Dispatch!Spec

\* An accepted job is eventually processed: the pool never sleeps on a job.
Queued(r) == \E i \in DOMAIN m_workqueue : m_workqueue[i] = r
EveryJobRuns ==
  \A r \in Request :
    Queued(r) ~> \E w \in Worker : pc[w] = "process" /\ request[w] = r
=============================================================================
