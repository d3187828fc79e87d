--------------------------- MODULE ConnectionPool ---------------------------
(***************************************************************************)
(* The pool of database connections (mysql/connection_pool.cpp): a list    *)
(* under a mutex, and a semaphore that counts what is in it.  A thread     *)
(* takes one step per access to shared state.  In this server only the     *)
(* main thread uses the pool (Accounts), before any handler of a signal is *)
(* installed, so that no wait is interrupted.                              *)
(***************************************************************************)
EXTENDS Integers, Sequences, FiniteSets

CONSTANTS
  Thread,  \* the threads that take connections
  Conn,    \* bound: the MYSQL objects that can be connected
  None

ASSUME PoolAssumption ==
  IsFiniteSet(Thread) /\ IsFiniteSet(Conn) /\ None \notin Thread \cup Conn

VARIABLES
  connList, m_FreeConn, m_CurConn,
  lock,     \* the thread that holds the mutex
  reserve,  \* the semaphore
  ready,    \* has init() returned?
  tpc,      \* next step of each thread in GetConnection() and ReleaseConnection()
  con       \* connectionRAII's conRAII in each thread

poolVars == <<connList, m_FreeConn, m_CurConn, lock, reserve, ready, tpc, con>>

Listed == {connList[i] : i \in DOMAIN connList}
Held == {con[t] : t \in Thread} \ {None}

PoolTypeOK ==
  /\ connList \in Seq(Conn)
  /\ m_FreeConn \in Nat /\ m_CurConn \in Nat
  /\ lock \in Thread \cup {None}
  /\ reserve \in Nat
  /\ ready \in BOOLEAN
  /\ tpc \in [Thread -> {"out", "wait", "enter", "pop", "in", "push", "post"}]
  /\ con \in [Thread -> Conn \cup {None}]

PoolInit ==
  /\ connList = <<>> /\ m_FreeConn = 0 /\ m_CurConn = 0
  /\ lock = None /\ reserve = 0
  /\ ready = FALSE
  /\ tpc = [t \in Thread |-> "out"]
  /\ con = [t \in Thread |-> None]

PoolGoto(t, label) == tpc' = [tpc EXCEPT ![t] = label]

-----------------------------------------------------------------------------
\* init(): one more connection
AddConnection(c) ==
  /\ ~ready
  /\ c \notin Listed
  /\ connList' = Append(connList, c)
  /\ m_FreeConn' = m_FreeConn + 1
  /\ UNCHANGED <<m_CurConn, lock, reserve, ready, tpc, con>>

\* init(): the semaphore gets its value once the list is filled.
SetReserve ==
  /\ ~ready
  /\ reserve' = m_FreeConn
  /\ ready' = TRUE
  /\ UNCHANGED <<connList, m_FreeConn, m_CurConn, lock, tpc, con>>

\* GetConnection() returns NULL rather than wait, if it sees an empty list.
FindsNone(t) == ready /\ tpc[t] = "out" /\ connList = <<>>

FindsSome(t) ==
  /\ ready /\ tpc[t] = "out"
  /\ connList # <<>>
  /\ PoolGoto(t, "wait")
  /\ UNCHANGED <<connList, m_FreeConn, m_CurConn, lock, reserve, ready, con>>

Wait(t) ==
  /\ tpc[t] = "wait"
  /\ reserve > 0
  /\ reserve' = reserve - 1
  /\ PoolGoto(t, "enter")
  /\ UNCHANGED <<connList, m_FreeConn, m_CurConn, lock, ready, con>>

\* lock.lock(), in either method
Enter(t) ==
  /\ lock = None
  /\ \/ tpc[t] = "enter" /\ PoolGoto(t, "pop")
     \/ tpc[t] = "in" /\ PoolGoto(t, "push")
  /\ lock' = t
  /\ UNCHANGED <<connList, m_FreeConn, m_CurConn, reserve, ready, con>>

\* A bug to catch: the two counters are taken for each other.
CountTaken_Swapped == m_FreeConn' = m_FreeConn + 1 /\ m_CurConn' = m_CurConn - 1

CountTaken == m_FreeConn' = m_FreeConn - 1 /\ m_CurConn' = m_CurConn + 1

\* The critical section of GetConnection()
Pop(t) ==
  /\ tpc[t] = "pop"
  /\ con' = [con EXCEPT ![t] = Head(connList)]
  /\ connList' = Tail(connList)
  /\ CountTaken
  /\ lock' = None
  /\ PoolGoto(t, "in")
  /\ UNCHANGED <<reserve, ready>>

\* A bug to catch: the connection goes back in the list and the semaphore is not told.
AfterPush_NoPost == "out"

AfterPush == "post"

\* The critical section of ReleaseConnection()
Push(t) ==
  /\ tpc[t] = "push"
  /\ connList' = Append(connList, con[t])
  /\ con' = [con EXCEPT ![t] = None]
  /\ m_FreeConn' = m_FreeConn + 1 /\ m_CurConn' = m_CurConn - 1
  /\ lock' = None
  /\ PoolGoto(t, AfterPush)
  /\ UNCHANGED <<reserve, ready>>

Post(t) ==
  /\ tpc[t] = "post"
  /\ reserve' = reserve + 1
  /\ PoolGoto(t, "out")
  /\ UNCHANGED <<connList, m_FreeConn, m_CurConn, lock, ready, con>>

Get(t) == FindsSome(t) \/ Wait(t) \/ (tpc[t] = "enter" /\ Enter(t)) \/ Pop(t)
Release(t) == (tpc[t] = "in" /\ Enter(t)) \/ Push(t) \/ Post(t)

PoolNext ==
  \/ \E c \in Conn : AddConnection(c)
  \/ SetReserve
  \/ \E t \in Thread : Get(t) \/ Release(t)

PoolSpec == PoolInit /\ [][PoolNext]_poolVars

-----------------------------------------------------------------------------
(* Properties *)

\* front() and pop_front() find a connection, although the list was last looked at
\* without the mutex: the semaphore keeps its promise.
PopsFromSome == \A t \in Thread : tpc[t] = "pop" => connList # <<>>

\* A connection is in the list or with one thread, and in one place only.
ConnectionExclusive ==
  /\ \A i, j \in DOMAIN connList : connList[i] = connList[j] => i = j
  /\ Listed \cap Held = {}
  /\ \A t, u \in Thread : con[t] = con[u] /\ con[t] # None => t = u

\* At rest the list, the two counters and the semaphore agree: every connection taken
\* was given back, and the semaphore was told.
ConnectionsReturned ==
  ready /\ (\A t \in Thread : tpc[t] = "out") =>
    /\ m_FreeConn = Len(connList) /\ m_CurConn = 0
    /\ reserve = m_FreeConn
=============================================================================
