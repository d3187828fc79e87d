---------------------------- MODULE JobDispatch ----------------------------
(***************************************************************************)
(* What threadpool<T> promises to the thread that calls append(): a        *)
(* bounded first-in first-out backlog of jobs, each of which is handed to  *)
(* exactly one idle worker.  No lock, no semaphore, no thread program      *)
(* counter: ThreadPool implements this specification, and Reactor uses it  *)
(* in place of the pool.                                                   *)
(***************************************************************************)
EXTENDS Naturals, Sequences

CONSTANTS
  Worker,       \* the pool's threads
  Request,      \* the jobs: T* pointers
  MaxRequests,  \* m_max_requests
  None          \* "no job"

VARIABLES
  backlog,      \* accepted jobs no worker has yet, oldest first
  running       \* [Worker -> Request \cup {None}], the job each worker has

jobVars == <<backlog, running>>

Init ==
  /\ backlog = <<>>
  /\ running = [w \in Worker |-> None]

\* The size test of append() is '>', so one job more than MaxRequests fits.
HasRoom == Len(backlog) <= MaxRequests

Submit(r) ==
  /\ HasRoom
  /\ backlog' = Append(backlog, r)
  /\ UNCHANGED running

Take(w) ==
  /\ running[w] = None
  /\ backlog # <<>>
  /\ running' = [running EXCEPT ![w] = Head(backlog)]
  /\ backlog' = Tail(backlog)

Finish(w) ==
  /\ running[w] # None
  /\ running' = [running EXCEPT ![w] = None]
  /\ UNCHANGED backlog

Next ==
  \/ \E r \in Request : Submit(r)
  \/ \E w \in Worker : Take(w) \/ Finish(w)

Spec == Init /\ [][Next]_jobVars
=============================================================================
