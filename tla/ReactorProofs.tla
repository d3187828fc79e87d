---------------------------- MODULE ReactorProofs ---------------------------
(***************************************************************************)
(* Proofs about Reactor, for any number of descriptors, workers and        *)
(* timers, any limits and any lifetime: first about every server, then     *)
(* about one that has no empty file to serve, whose workers therefore      *)
(* never close a connection.                                               *)
(***************************************************************************)
EXTENDS Reactor, FiniteSetTheorems, TLAPS

\* A worker has a request exactly while it is in process().
BusyWorkers == \A w \in Worker : wpc[w] # "idle" <=> running[w] # None

\* Only an open descriptor is registered with epoll.
RegisteredIsOpen == \A fd \in Fd : epoll[fd] # "none" => fd \in open

\* The inductive invariant.  TimerCoverage alone is not inductive: epoll_wait() puts
\* connections in the batch because they are registered, so registration must imply
\* being open; and a handler deletes users_timer[fd].timer, which must be the timer of
\* fd and of no other connection, even if a worker closed fd in the meantime: that is
\* BatchTimerLive.
TimerInv ==
  /\ TypeOK
  /\ BusyWorkers
  /\ RegisteredIsOpen
  /\ TimerCoverage
  /\ BatchTimerLive

-----------------------------------------------------------------------------
(* The operators of the two abstract components, as the steps use them *)

\* The timers tick() removes are finitely many, so the user count stays a number.
LEMMA ExpiredCount ==
  ASSUME TypeOK
  PROVE  Cardinality(Timers!Expired) \in Nat
<1>1. Timers!Expired \subseteq Timer  BY DEF Timers!Expired, Timers!Live, TypeOK
<1>2. IsFiniteSet(Timers!Expired)
  BY <1>1, ReactorAssumption, FS_Subset DEF ReactorAssumption
<1> QED  BY <1>2, FS_CardinalityType

\* adjust_timer() leaves the set of timers alone.
LEMMA AdjustKeeps ==
  ASSUME TypeOK, NEW fd \in Fd, AdjustTimer(fd)
  PROVE  /\ DOMAIN due' = DOMAIN due
         /\ due' \in [DOMAIN due -> 0..Lifetime]
         /\ UNCHANGED <<timerOf, fdOf>>
  BY ReactorAssumption
  DEF AdjustTimer, Timers!Adjust, Timers!Live, TypeOK, ReactorAssumption

\* A request is put in the queue only while it has room.
LEMMA EnqueueType ==
  ASSUME TypeOK, NEW fd \in Fd, Enqueue(fd)
  PROVE  /\ backlog' \in Seq(Fd) /\ Len(backlog') <= MaxRequests + 1
         /\ UNCHANGED running
<1>1. CASE Pool!HasRoom
  <2>1. backlog' = Append(backlog, fd) /\ UNCHANGED running
    BY <1>1 DEF Enqueue, Pool!Submit
  <2>2. backlog \in Seq(Fd) /\ Len(backlog) <= MaxRequests
    BY <1>1 DEF Pool!HasRoom, TypeOK
  <2> QED  BY <2>1, <2>2, ReactorAssumption DEF ReactorAssumption
<1>2. CASE ~Pool!HasRoom
  BY <1>2 DEF Enqueue, TypeOK, poolVars
<1> QED  BY <1>1, <1>2

-----------------------------------------------------------------------------
LEMMA TimerInvInit == Init => TimerInv
<1> SUFFICES ASSUME Init PROVE TimerInv
  OBVIOUS
<1> USE ReactorAssumption DEF Init, ReactorAssumption
<1>1. TypeOK
  <2>1. DOMAIN due = {}  BY DEF Timers!Init
  <2>2. due \in [DOMAIN due -> 0..Lifetime]  BY <2>1 DEF Timers!Init
  <2>3. /\ backlog \in Seq(Fd) /\ Len(backlog) <= MaxRequests + 1
        /\ running \in [Worker -> Fd \cup {None}]
    BY DEF Pool!Init
  <2>4. /\ alarm \in BOOLEAN /\ timeout \in BOOLEAN /\ stop_server \in BOOLEAN
        /\ evListen \in BOOLEAN /\ evSignal \in BOOLEAN
    OBVIOUS
  <2>5. /\ open \in SUBSET Fd /\ sigpipe \in SUBSET {"SIGALRM", "SIGTERM"}
        /\ epoll \in [Fd -> {"none", "off"} \cup Armed]
        /\ mpc \in {"wait", "batch", "stopped"}
        /\ ev \in [Fd -> {"none", "in", "out", "hup"}]
    OBVIOUS
  <2>6. /\ timerOf \in [Fd -> Timer \cup {None}]
        /\ fdOf \in [Timer -> Fd \cup {None}]
        /\ m_sockfd \in [Fd -> Fd \cup {None}]
        /\ response \in [Fd -> {"none", "close", "keep-alive"}]
    OBVIOUS
  <2>7. /\ m_user_count \in Int
        /\ wpc \in [Worker -> WorkerPc]
        /\ load \in [Worker -> Int]
        /\ idle \in [Fd -> 0..Lifetime]
    BY DEF WorkerPc
  <2> QED  BY <2>1, <2>2, <2>3, <2>4, <2>5, <2>6, <2>7 DEF TypeOK
<1>2. BusyWorkers  BY DEF BusyWorkers, Pool!Init
<1> QED
  BY <1>1, <1>2 DEF TimerInv, RegisteredIsOpen, TimerCoverage, BatchTimerLive

LEMMA TimerInvStep == TimerInv /\ [Next]_vars => TimerInv'
<1> SUFFICES ASSUME TimerInv, [Next]_vars PROVE TimerInv'
  OBVIOUS
<1> USE ReactorAssumption
    DEF TimerInv, TypeOK, BusyWorkers, RegisteredIsOpen, TimerCoverage, BatchTimerLive,
        HasTimer, ReactorAssumption, Armed, WorkerPc, kernelVars, signalVars, loopVars,
        timerVars, connVars, poolVars, workVars
<1>0. timely' = timely
  BY DEF Next, vars
<1> USE <1>0
<1>1. CASE UNCHANGED vars
  BY <1>1 DEF vars
<1>2. CASE ClockTick
  <2>1. DOMAIN due' = DOMAIN due /\ due' \in [DOMAIN due' -> 0..Lifetime]
    BY <1>2 DEF ClockTick
  <2>2. idle' \in [Fd -> 0..Lifetime]
    BY <1>2 DEF ClockTick
  <2>3. UNCHANGED <<kernelVars, signalVars, loopVars, ev, timerOf, fdOf, m_user_count,
                    connVars, poolVars, workVars>>
    BY <1>2 DEF ClockTick
  <2> QED  BY <2>1, <2>2, <2>3
<1>3. CASE SigAlarm
  BY <1>3 DEF SigAlarm
<1>4. CASE SigTerm
  BY <1>4 DEF SigTerm
<1>5. CASE EpollWait
  <2>1. PICK e \in [Fd -> {"none", "in", "out", "hup"}] :
          /\ \A fd \in Fd : e[fd] # "none" =>
               epoll[fd] \in Armed /\ e[fd] \in {epoll[fd], "hup"}
          /\ ev' = e
          /\ epoll' = [fd \in Fd |-> IF e[fd] = "none" THEN epoll[fd] ELSE "off"]
    BY <1>5 DEF EpollWait, Disarm
  <2>2. UNCHANGED <<open, signalVars, timeout, stop_server, timerVars, m_user_count,
                    connVars, poolVars, workVars, idle>>
    BY <1>5 DEF EpollWait, Disarm
  <2>3. evListen' \in BOOLEAN /\ evSignal' \in BOOLEAN /\ mpc' = "batch"
    BY <1>5 DEF EpollWait, Disarm
  <2>4. TypeOK'  BY <2>1, <2>2, <2>3
  <2>5. BusyWorkers' /\ RegisteredIsOpen' /\ TimerCoverage'  BY <2>1, <2>2
  <2>6. BatchTimerLive'  BY <2>1, <2>2
  <2> QED  BY <2>4, <2>5, <2>6
<1>6. ASSUME NEW fd \in Fd, NEW t \in Timer, Accept(fd, t) PROVE TimerInv'
  <2>1. /\ t \notin DOMAIN due /\ DOMAIN due' = DOMAIN due \cup {t}
        /\ due' \in [DOMAIN due' -> 0..Lifetime]
    BY <1>6 DEF Accept, Timers!Add, Timers!Live
  <2>2. /\ timerOf' = [timerOf EXCEPT ![fd] = t] /\ fdOf' = [fdOf EXCEPT ![t] = fd]
        /\ open' = open \cup {fd} /\ fd \notin open
        /\ epoll' = [epoll EXCEPT ![fd] = "in"]
        /\ UNCHANGED <<ev, poolVars, workVars>>
    BY <1>6 DEF Accept, SetTimer
  <2>3. TypeOK'
    <3>1. /\ m_sockfd' \in [Fd -> Fd \cup {None}] /\ m_user_count' \in Int
          /\ response' \in [Fd -> {"none", "close", "keep-alive"}]
          /\ idle' \in [Fd -> 0..Lifetime] /\ evListen' \in BOOLEAN
          /\ UNCHANGED <<signalVars, mpc, evSignal, timeout, stop_server>>
      BY <1>6 DEF Accept, InitConn
    <3>2. /\ open' \in SUBSET Fd /\ epoll' \in [Fd -> {"none", "off"} \cup Armed]
          /\ timerOf' \in [Fd -> Timer \cup {None}] /\ fdOf' \in [Timer -> Fd \cup {None}]
      BY <2>2
    <3>3. DOMAIN due' \in SUBSET Timer
      BY <2>1
    <3>4. UNCHANGED <<ev, timely, backlog, running, wpc, load>>
      BY <2>2
    <3> QED  BY <2>1, <3>1, <3>2, <3>3, <3>4
  <2>4. BusyWorkers' /\ RegisteredIsOpen'
    BY <2>2
  <2>5. TimerCoverage'
    BY <2>1, <2>2
  <2>6. BatchTimerLive'
    BY <2>1, <2>2
  <2> QED  BY <2>3, <2>4, <2>5, <2>6
<1>7. CASE AcceptNone
  BY <1>7 DEF AcceptNone
<1>8. ASSUME NEW fd \in Fd, HandleHup(fd) PROVE TimerInv'
  <2>1. TypeOK'
    BY <1>8 DEF HandleHup, DealTimer, CbFunc, Discount, ForgetIdle, FreeTimers, Handled,
                Timers!Del, Timers!Live
  <2>2. BusyWorkers' /\ RegisteredIsOpen'
    BY <1>8 DEF HandleHup, DealTimer, CbFunc, ForgetIdle, FreeTimers, Handled
  <2>3. TimerCoverage' /\ BatchTimerLive'
    BY <1>8 DEF HandleHup, DealTimer, CbFunc, FreeTimers, Handled, Timers!Del, Timers!Live
  <2> QED  BY <2>1, <2>2, <2>3
<1>9. ASSUME NEW fd \in Fd, HandleRead(fd) PROVE TimerInv'
  <2>1. /\ DOMAIN due' = DOMAIN due /\ due' \in [DOMAIN due -> 0..Lifetime]
        /\ UNCHANGED <<timerOf, fdOf>>
    BY <1>9, AdjustKeeps DEF HandleRead
  <2>2. /\ backlog' \in Seq(Fd) /\ Len(backlog') <= MaxRequests + 1
        /\ UNCHANGED running
    BY <1>9, EnqueueType DEF HandleRead
  <2>3. TypeOK'  BY <1>9, <2>1, <2>2 DEF HandleRead, Handled
  <2>4. BusyWorkers' /\ RegisteredIsOpen' /\ TimerCoverage' /\ BatchTimerLive'
    BY <1>9, <2>1, <2>2 DEF HandleRead, Handled
  <2> QED  BY <2>3, <2>4
<1>10. ASSUME NEW fd \in Fd, HandleReadFails(fd) PROVE TimerInv'
  BY <1>10 DEF HandleReadFails, DealTimer, CbFunc, Discount, ForgetIdle, FreeTimers, Handled,
               Timers!Del, Timers!Live
<1>11. ASSUME NEW fd \in Fd, HandleWriteNothing(fd) PROVE TimerInv'
  <2>1. /\ DOMAIN due' = DOMAIN due /\ due' \in [DOMAIN due -> 0..Lifetime]
        /\ UNCHANGED <<timerOf, fdOf>>
    BY <1>11, AdjustKeeps DEF HandleWriteNothing
  <2>2. /\ epoll' \in [Fd -> {"none", "off"} \cup Armed]
        /\ \A f \in Fd : epoll'[f] # "none" => epoll[f] # "none"
    BY <1>11 DEF HandleWriteNothing, Modfd
  <2>3. /\ response' \in [Fd -> {"none", "close", "keep-alive"}]
        /\ ev' \in [Fd -> {"none", "in", "out", "hup"}]
        /\ \A f \in Fd : ev'[f] # "none" => ev[f] # "none"
        /\ idle' \in [Fd -> 0..Lifetime]
    BY <1>11 DEF HandleWriteNothing, InitConn, Handled
  <2>4. UNCHANGED <<open, signalVars, loopVars, m_user_count, m_sockfd, poolVars,
                    workVars>>
    BY <1>11 DEF HandleWriteNothing
  <2>5. TypeOK'  BY <2>1, <2>2, <2>3, <2>4
  <2> QED  BY <2>1, <2>2, <2>3, <2>4, <2>5
<1>12. ASSUME NEW fd \in Fd, HandleWriteBlocked(fd) PROVE TimerInv'
  <2>1. /\ DOMAIN due' = DOMAIN due /\ due' \in [DOMAIN due -> 0..Lifetime]
        /\ UNCHANGED <<timerOf, fdOf>>
    BY <1>12, AdjustKeeps DEF HandleWriteBlocked
  <2>2. /\ epoll' \in [Fd -> {"none", "off"} \cup Armed]
        /\ \A f \in Fd : epoll'[f] # "none" => epoll[f] # "none"
    BY <1>12 DEF HandleWriteBlocked, Modfd
  <2>3. /\ ev' \in [Fd -> {"none", "in", "out", "hup"}]
        /\ \A f \in Fd : ev'[f] # "none" => ev[f] # "none"
        /\ idle' \in [Fd -> 0..Lifetime]
    BY <1>12 DEF HandleWriteBlocked, Handled
  <2>4. UNCHANGED <<open, signalVars, loopVars, m_user_count, connVars, poolVars,
                    workVars>>
    BY <1>12 DEF HandleWriteBlocked
  <2>5. TypeOK'  BY <2>1, <2>2, <2>3, <2>4
  <2> QED  BY <2>1, <2>2, <2>3, <2>4, <2>5
<1>13. ASSUME NEW fd \in Fd, HandleWriteKeepAlive(fd) PROVE TimerInv'
  <2>1. /\ DOMAIN due' = DOMAIN due /\ due' \in [DOMAIN due -> 0..Lifetime]
        /\ UNCHANGED <<timerOf, fdOf>>
    BY <1>13, AdjustKeeps DEF HandleWriteKeepAlive
  <2>2. /\ epoll' \in [Fd -> {"none", "off"} \cup Armed]
        /\ \A f \in Fd : epoll'[f] # "none" => epoll[f] # "none"
    BY <1>13 DEF HandleWriteKeepAlive, Modfd
  <2>3. /\ response' \in [Fd -> {"none", "close", "keep-alive"}]
        /\ ev' \in [Fd -> {"none", "in", "out", "hup"}]
        /\ \A f \in Fd : ev'[f] # "none" => ev[f] # "none"
        /\ idle' \in [Fd -> 0..Lifetime]
    BY <1>13 DEF HandleWriteKeepAlive, InitConn, Handled
  <2>4. UNCHANGED <<open, signalVars, loopVars, m_user_count, m_sockfd, poolVars,
                    workVars>>
    BY <1>13 DEF HandleWriteKeepAlive
  <2>5. TypeOK'  BY <2>1, <2>2, <2>3, <2>4
  <2> QED  BY <2>1, <2>2, <2>3, <2>4, <2>5
<1>14. ASSUME NEW fd \in Fd, HandleWriteClose(fd) PROVE TimerInv'
  <2>1. TypeOK'
    BY <1>14 DEF HandleWriteClose, DealTimer, CbFunc, Discount, ForgetIdle, FreeTimers,
                  Handled, Timers!Del, Timers!Live
  <2>2. BusyWorkers' /\ RegisteredIsOpen'
    BY <1>14 DEF HandleWriteClose, DealTimer, CbFunc, Discount, ForgetIdle, FreeTimers,
                  Handled, Timers!Del, Timers!Live
  <2>3. TimerCoverage'
    BY <1>14 DEF HandleWriteClose, DealTimer, CbFunc, Discount, ForgetIdle, FreeTimers,
                  Handled, Timers!Del, Timers!Live
  <2>4. BatchTimerLive'
    BY <1>14 DEF HandleWriteClose, DealTimer, CbFunc, Discount, ForgetIdle, FreeTimers,
                  Handled, Timers!Del, Timers!Live
  <2> QED  BY <2>1, <2>2, <2>3, <2>4
<1>15. CASE HandleSignal
  BY <1>15 DEF HandleSignal
<1>16. CASE EndBatch
  BY <1>16 DEF EndBatch, NextRound
<1>17. CASE TimerHandler
  <2> DEFINE closed == {fdOf[t] : t \in Timers!Expired}
  <2>1. /\ epoll' = [fd \in Fd |-> IF fd \in closed THEN "none" ELSE epoll[fd]]
        /\ open' = open \ closed
        /\ idle' = [fd \in Fd |-> IF fd \in closed THEN 0 ELSE idle[fd]]
        /\ m_user_count' = m_user_count - Cardinality(Timers!Expired)
    BY <1>17 DEF TimerHandler, CbFunc, Discount, ForgetIdle
  <2>2. due' = [t \in DOMAIN due \ Timers!Expired |-> due[t]]
    BY <1>17 DEF TimerHandler, Timers!Tick, Timers!Live
  <2>3. /\ fdOf' = [t \in Timer |-> IF t \in DOMAIN due' THEN fdOf[t] ELSE None]
        /\ UNCHANGED timerOf
    BY <1>17 DEF TimerHandler, FreeTimers
  <2>4. /\ alarm' = TRUE /\ timeout' = FALSE /\ mpc' \in {"wait", "stopped"}
        /\ UNCHANGED <<sigpipe, evListen, evSignal, stop_server, ev, connVars,
                       poolVars, workVars>>
    BY <1>17 DEF TimerHandler, SetAlarm, NextRound
  <2>5. \A fd \in Fd : ev[fd] = "none"
    BY <1>17 DEF TimerHandler, TimeToTick, BatchHandled
  <2> HIDE DEF closed
  <2>6. m_user_count' \in Int  BY <2>1, ExpiredCount
  <2>7. TypeOK'
    <3>1. open' \in SUBSET Fd /\ epoll' \in [Fd -> {"none", "off"} \cup Armed]
      BY <2>1
    <3>2. idle' \in [Fd -> 0..Lifetime]
      BY <2>1
    <3>3. DOMAIN due' \in SUBSET Timer /\ due' \in [DOMAIN due' -> 0..Lifetime]
      BY <2>2
    <3>4. fdOf' \in [Timer -> Fd \cup {None}] /\ timerOf' = timerOf
      BY <2>3
    <3> QED  BY <2>4, <2>6, <3>1, <3>2, <3>3, <3>4
  <2>8. BusyWorkers' /\ RegisteredIsOpen' /\ BatchTimerLive'  BY <2>1, <2>4, <2>5
  <2>9. TimerCoverage'
    <3> SUFFICES ASSUME NEW fd \in open' PROVE HasTimer(fd)'
      OBVIOUS
    <3>1. timerOf[fd] \notin Timers!Expired
      BY <2>1 DEF closed
    <3> QED  BY <2>1, <2>2, <2>3, <3>1
  <2> QED  BY <2>7, <2>8, <2>9
<1>18. ASSUME NEW w \in Worker, Take(w) PROVE TimerInv'
  <2>1. /\ Head(backlog) \in Fd /\ Tail(backlog) \in Seq(Fd)
        /\ Len(Tail(backlog)) <= MaxRequests + 1
    BY <1>18 DEF Take, Pool!Take
  <2>2. /\ running' = [running EXCEPT ![w] = Head(backlog)] /\ backlog' = Tail(backlog)
        /\ wpc' = [wpc EXCEPT ![w] = "process"]
        /\ UNCHANGED <<kernelVars, signalVars, loopVars, ev, timerVars, m_user_count,
                       connVars, load, idle>>
    BY <1>18 DEF Take, Goto, Pool!Take
  <2>3. TypeOK'
    BY <2>1, <2>2
  <2>4. BusyWorkers' /\ RegisteredIsOpen' /\ TimerCoverage' /\ BatchTimerLive'
    BY <2>1, <2>2
  <2> QED  BY <2>3, <2>4
<1>19. ASSUME NEW w \in Worker, NeedsMore(w) PROVE TimerInv'
  BY <1>19 DEF NeedsMore, Goto
<1>20. ASSUME NEW w \in Worker, Respond(w) PROVE TimerInv'
  BY <1>20 DEF Respond, Goto
<1>21. ASSUME NEW w \in Worker, RespondFails(w) PROVE TimerInv'
  BY <1>21 DEF RespondFails, Goto
<1>22. ASSUME NEW w \in Worker, Removefd(w) PROVE TimerInv'
  <2>1. CASE m_sockfd[running[w]] = None
    BY <1>22, <2>1 DEF Removefd, Goto
  <2>2. CASE m_sockfd[running[w]] # None
    <3>1. running[w] \in Fd  BY <1>22 DEF Removefd
    <3>2. /\ open' = open \ {running[w]}
          /\ epoll' = [epoll EXCEPT ![running[w]] = "none"]
          /\ idle' = [fd \in Fd |-> IF fd \in {running[w]} THEN 0 ELSE idle[fd]]
          /\ wpc' = [wpc EXCEPT ![w] = "clear"]
          /\ wpc[w] = "removefd"
          /\ UNCHANGED <<signalVars, loopVars, ev, timerVars, m_user_count, connVars,
                         poolVars, load>>
      BY <1>22, <2>2 DEF Removefd, ForgetIdle, Goto
    <3> QED  BY <3>1, <3>2
  <2> QED  BY <2>1, <2>2
<1>23. ASSUME NEW w \in Worker, Clear(w) PROVE TimerInv'
  BY <1>23 DEF Clear, Goto
<1>24. ASSUME NEW w \in Worker, Count(w) PROVE TimerInv'
  BY <1>24 DEF Count, Goto
<1>25. ASSUME NEW w \in Worker, Rearm(w) PROVE TimerInv'
  BY <1>25 DEF Rearm, Modfd, Goto, Pool!Finish
<1> QED
  BY <1>1, <1>2, <1>3, <1>4, <1>5, <1>6, <1>7, <1>8, <1>9, <1>10, <1>11, <1>12, <1>13,
     <1>14, <1>15, <1>16, <1>17, <1>18, <1>19, <1>20, <1>21, <1>22, <1>23, <1>24, <1>25
  DEF Next, Step, Environment, Handler, Process

LEMMA TimerInvariant == Spec => []TimerInv
  BY TimerInvInit, TimerInvStep, PTL DEF Spec

\* The variables keep their types: in particular the queue of the pool never holds
\* more than MaxRequests + 1 requests.
THEOREM ReactorTypeCorrect == Spec => []TypeOK
<1>1. TimerInv => TypeOK  BY DEF TimerInv
<1> QED  BY <1>1, TimerInvariant, PTL

\* No connection is ever without a timer: whatever the workers close and however
\* descriptors are reused, an open connection will be closed if nothing happens on it.
THEOREM NoConnectionLeaks == Spec => []TimerCoverage
<1>1. TimerInv => TimerCoverage  BY DEF TimerInv
<1> QED  BY <1>1, TimerInvariant, PTL

\* No handler uses a freed util_timer.
THEOREM NoDanglingTimer == Spec => []BatchTimerLive
<1>1. TimerInv => BatchTimerLive  BY DEF TimerInv
<1> QED  BY <1>1, TimerInvariant, PTL

-----------------------------------------------------------------------------
(* Without an empty file to serve, no worker closes a connection behind the  *)
(* event loop's back.                                                        *)

NoWorkerCloses == \A w \in Worker : wpc[w] \notin {"removefd", "clear", "count"}

\* Every timer is the timer of an open connection, and what a connection has been idle
\* is what has passed of its timer.
TimersOfOpen ==
  \A t \in DOMAIN due : /\ fdOf[t] \in open /\ timerOf[fdOf[t]] = t
                        /\ due[t] + idle[fdOf[t]] >= Lifetime

\* The user count is inductive only with these two: a handler that closes a connection
\* discounts it, so the connection must be open, and tick() discounts one user for
\* each expired timer, so no two of them are one connection's.
CountInv == NoWorkerCloses /\ TimersOfOpen /\ UserCountExact

LEMMA FiniteConnections ==
  ASSUME TypeOK
  PROVE  IsFiniteSet(open) /\ Cardinality(open) \in Nat
  BY ReactorAssumption, FS_Subset, FS_CardinalityType DEF TypeOK, ReactorAssumption

\* tick() closes as many connections as there are expired timers.
LEMMA ExpiredAreDistinct ==
  ASSUME TypeOK, TimersOfOpen
  PROVE  LET closed == {fdOf[t] : t \in Timers!Expired}
         IN  /\ closed \subseteq open
             /\ Cardinality(closed) = Cardinality(Timers!Expired)
<1> DEFINE closed == {fdOf[t] : t \in Timers!Expired}
           f == [t \in Timers!Expired |-> fdOf[t]]
<1>1. Timers!Expired \subseteq DOMAIN due /\ DOMAIN due \subseteq Timer
  BY DEF Timers!Expired, Timers!Live, TypeOK
<1>2. \A t \in Timers!Expired : fdOf[t] \in open /\ timerOf[fdOf[t]] = t
  BY <1>1 DEF TimersOfOpen
<1>3. f \in Bijection(Timers!Expired, closed)
  <2>1. f \in [Timers!Expired -> closed]
    OBVIOUS
  <2>2. \A t, u \in Timers!Expired : f[t] = f[u] => t = u
    BY <1>2
  <2>3. \A fd \in closed : \E t \in Timers!Expired : f[t] = fd
    OBVIOUS
  <2> HIDE DEF closed, f
  <2>4. DOMAIN f = Timers!Expired
    BY <2>1
  <2> QED  BY <2>1, <2>2, <2>3, <2>4 DEF Bijection, Injection, Surjection, IsInjective
<1>4. IsFiniteSet(Timers!Expired)
  BY <1>1, ReactorAssumption, FS_Subset DEF ReactorAssumption
<1>5. Cardinality(closed) = Cardinality(Timers!Expired)
  <2>1. ExistsBijection(Timers!Expired, closed)
    BY <1>3 DEF ExistsBijection
  <2> HIDE DEF closed
  <2> QED  BY <1>4, <2>1, FS_Bijection
<1> QED  BY <1>2, <1>5

\* deal_timer() of a connection with an event in the batch.
LEMMA DealTimerCounts ==
  ASSUME TimerInv, CountInv, NEW fd \in Fd, ev[fd] # "none", DealTimer(fd), UNCHANGED wpc
  PROVE  CountInv'
<1>1. timerOf[fd] \in DOMAIN due /\ fdOf[timerOf[fd]] = fd /\ fd \in open
  BY DEF TimerInv, BatchTimerLive, HasTimer, CountInv, TimersOfOpen
<1>2. /\ open' = open \ {fd} /\ m_user_count' = m_user_count - 1
      /\ idle' = [f \in Fd |-> IF f \in {fd} THEN 0 ELSE idle[f]]
      /\ due' = [t \in DOMAIN due \ {timerOf[fd]} |-> due[t]]
      /\ fdOf' = [t \in Timer |-> IF t \in DOMAIN due' THEN fdOf[t] ELSE None]
      /\ timerOf' = timerOf
  BY DEF DealTimer, CbFunc, Discount, ForgetIdle, FreeTimers, Timers!Del, Timers!Live
<1>3. TimersOfOpen'
  <2> SUFFICES ASSUME NEW t \in DOMAIN due'
               PROVE  /\ fdOf'[t] \in open' /\ timerOf'[fdOf'[t]] = t
                      /\ due'[t] + idle'[fdOf'[t]] >= Lifetime
    BY DEF TimersOfOpen
  <2>1. t \in DOMAIN due /\ t # timerOf[fd] /\ t \in Timer /\ due'[t] = due[t]
    BY <1>2 DEF TimerInv, TypeOK
  <2>2. fdOf[t] \in open /\ timerOf[fdOf[t]] = t /\ due[t] + idle[fdOf[t]] >= Lifetime
    BY <2>1 DEF CountInv, TimersOfOpen
  <2>3. fdOf[t] # fd /\ fdOf[t] \in Fd /\ fdOf'[t] = fdOf[t]
    BY <1>2, <2>1, <2>2 DEF TimerInv, TypeOK
  <2> QED  BY <1>2, <2>1, <2>2, <2>3
<1>4. UserCountExact'
  <2>1. IsFiniteSet(open)
    BY FiniteConnections DEF TimerInv
  <2>2. Cardinality(open \ {fd}) = Cardinality(open) - 1
    BY <1>1, <2>1, FS_RemoveElement
  <2> QED  BY <1>2, <2>2 DEF CountInv, UserCountExact
<1> QED  BY <1>3, <1>4 DEF CountInv, NoWorkerCloses

\* A handler that extends the timer of a connection with an event in the batch.
LEMMA AdjustTimerCounts ==
  ASSUME TimerInv, CountInv, NEW fd \in Fd, ev[fd] # "none", AdjustTimer(fd),
         idle' = [idle EXCEPT ![fd] = 0],
         UNCHANGED <<open, m_user_count, wpc>>
  PROVE  CountInv'
<1>1. timerOf[fd] \in DOMAIN due /\ fdOf[timerOf[fd]] = fd
  BY DEF TimerInv, BatchTimerLive, HasTimer
<1>2. /\ due' = [due EXCEPT ![timerOf[fd]] = Lifetime]
      /\ UNCHANGED <<timerOf, fdOf>>
  BY DEF AdjustTimer, Timers!Adjust
<1>3. TimersOfOpen'
  <2> SUFFICES ASSUME NEW t \in DOMAIN due
               PROVE  /\ fdOf[t] \in open /\ timerOf[fdOf[t]] = t
                      /\ due'[t] + idle'[fdOf[t]] >= Lifetime
    BY <1>2 DEF TimersOfOpen
  <2>1. fdOf[t] \in open /\ timerOf[fdOf[t]] = t /\ due[t] + idle[fdOf[t]] >= Lifetime
    BY DEF CountInv, TimersOfOpen
  <2>2. fdOf[t] \in Fd /\ Lifetime \in Nat
    BY <2>1, ReactorAssumption DEF TimerInv, TypeOK, ReactorAssumption
  <2>3. CASE t = timerOf[fd]
    BY <1>1, <1>2, <2>1, <2>2, <2>3 DEF TimerInv, TypeOK
  <2>4. CASE t # timerOf[fd]
    BY <1>2, <2>1, <2>2, <2>4 DEF TimerInv, TypeOK
  <2> QED  BY <2>3, <2>4
<1> QED  BY <1>3 DEF CountInv, NoWorkerCloses, UserCountExact

LEMMA CountInvInit == Init => CountInv
<1> SUFFICES ASSUME Init PROVE CountInv
  OBVIOUS
<1>1. open = {} /\ m_user_count = 0 /\ DOMAIN due = {}
      /\ \A w \in Worker : wpc[w] = "idle"
  BY DEF Init, Timers!Init
<1> QED
  BY <1>1, FS_EmptySet DEF CountInv, NoWorkerCloses, TimersOfOpen, UserCountExact

LEMMA CountInvStep ==
  ASSUME ~ServesEmptyFile
  PROVE  TimerInv /\ CountInv /\ [Next]_vars => CountInv'
<1> SUFFICES ASSUME TimerInv, CountInv, [Next]_vars PROVE CountInv'
  OBVIOUS
<1> USE DEF kernelVars, signalVars, loopVars, timerVars, connVars, poolVars, workVars
<1>a. ASSUME UNCHANGED <<open, timerVars, m_user_count, idle>>, NoWorkerCloses'
      PROVE  CountInv'
  BY <1>a DEF CountInv, TimersOfOpen, UserCountExact
<1>b. UNCHANGED wpc => NoWorkerCloses'
  BY DEF CountInv, NoWorkerCloses
<1>1. CASE UNCHANGED vars
  BY <1>1, <1>a, <1>b DEF vars
<1>2. CASE ClockTick
  <2>1. /\ due' = [t \in DOMAIN due |-> IF due[t] = 0 THEN 0 ELSE due[t] - 1]
        /\ idle' = [fd \in Fd |-> IF fd \in open /\ idle[fd] < Lifetime
                                  THEN idle[fd] + 1 ELSE idle[fd]]
        /\ UNCHANGED <<open, timerOf, fdOf, m_user_count, wpc>>
    BY <1>2 DEF ClockTick
  <2>2. TimersOfOpen'
    <3> SUFFICES ASSUME NEW t \in DOMAIN due
                 PROVE  /\ fdOf[t] \in open /\ timerOf[fdOf[t]] = t
                        /\ due'[t] + idle'[fdOf[t]] >= Lifetime
      BY <2>1 DEF TimersOfOpen
    <3>1. fdOf[t] \in open /\ timerOf[fdOf[t]] = t /\ due[t] + idle[fdOf[t]] >= Lifetime
      BY DEF CountInv, TimersOfOpen
    <3>2. /\ fdOf[t] \in Fd /\ Lifetime \in Nat
          /\ due[t] \in 0..Lifetime /\ idle[fdOf[t]] \in 0..Lifetime
      BY <3>1, ReactorAssumption DEF TimerInv, TypeOK, ReactorAssumption
    <3>3. /\ due'[t] = IF due[t] = 0 THEN 0 ELSE due[t] - 1
          /\ idle'[fdOf[t]] = IF idle[fdOf[t]] < Lifetime THEN idle[fdOf[t]] + 1
                                                          ELSE idle[fdOf[t]]
      BY <2>1, <3>1, <3>2
    <3> QED  BY <3>1, <3>2, <3>3
  <2> QED  BY <1>b, <2>1, <2>2 DEF CountInv, UserCountExact
<1>3. CASE SigAlarm
  BY <1>3, <1>a, <1>b DEF SigAlarm
<1>4. CASE SigTerm
  BY <1>4, <1>a, <1>b DEF SigTerm
<1>5. CASE EpollWait
  BY <1>5, <1>a, <1>b DEF EpollWait
<1>6. ASSUME NEW fd \in Fd, NEW t \in Timer, Accept(fd, t) PROVE CountInv'
  <2>1. /\ fd \notin open /\ open' = open \cup {fd} /\ m_user_count' = m_user_count + 1
        /\ t \notin DOMAIN due
        /\ due' = [u \in DOMAIN due \cup {t} |-> IF u = t THEN Lifetime ELSE due[u]]
        /\ timerOf' = [timerOf EXCEPT ![fd] = t] /\ fdOf' = [fdOf EXCEPT ![t] = fd]
        /\ idle' = [idle EXCEPT ![fd] = 0] /\ UNCHANGED wpc
    BY <1>6 DEF Accept, SetTimer, Timers!Add, Timers!Live
  <2>2. TimersOfOpen'
    <3> SUFFICES ASSUME NEW u \in DOMAIN due'
                 PROVE  /\ fdOf'[u] \in open' /\ timerOf'[fdOf'[u]] = u
                        /\ due'[u] + idle'[fdOf'[u]] >= Lifetime
      BY DEF TimersOfOpen
    <3>1. CASE u = t
      BY <2>1, <3>1, ReactorAssumption DEF TimerInv, TypeOK, ReactorAssumption
    <3>2. CASE u # t
      <4>1. u \in DOMAIN due /\ u \in Timer /\ due'[u] = due[u] /\ fdOf'[u] = fdOf[u]
        BY <2>1, <3>2 DEF TimerInv, TypeOK
      <4>2. fdOf[u] \in open /\ timerOf[fdOf[u]] = u /\ due[u] + idle[fdOf[u]] >= Lifetime
        BY <4>1 DEF CountInv, TimersOfOpen
      <4>3. fdOf[u] # fd /\ fdOf[u] \in Fd
        BY <2>1, <4>2 DEF TimerInv, TypeOK
      <4>4. timerOf'[fdOf[u]] = timerOf[fdOf[u]] /\ idle'[fdOf[u]] = idle[fdOf[u]]
        BY <2>1, <4>3 DEF TimerInv, TypeOK
      <4> QED  BY <2>1, <4>1, <4>2, <4>4
    <3> QED  BY <3>1, <3>2
  <2>3. UserCountExact'
    <3>1. Cardinality(open \cup {fd}) = Cardinality(open) + 1
      BY <2>1, FiniteConnections, FS_AddElement DEF TimerInv
    <3> QED  BY <2>1, <3>1 DEF CountInv, UserCountExact
  <2> QED  BY <1>b, <2>1, <2>2, <2>3 DEF CountInv
<1>7. CASE AcceptNone
  BY <1>7, <1>a, <1>b DEF AcceptNone
<1>8. ASSUME NEW fd \in Fd, HandleHup(fd) \/ HandleReadFails(fd) \/ HandleWriteClose(fd)
      PROVE  CountInv'
  BY <1>8, DealTimerCounts DEF HandleHup, HandleReadFails, HandleWriteClose
<1>9. ASSUME NEW fd \in Fd,
             \/ HandleRead(fd) \/ HandleWriteNothing(fd)
             \/ HandleWriteBlocked(fd) \/ HandleWriteKeepAlive(fd)
      PROVE  CountInv'
  BY <1>9, AdjustTimerCounts
  DEF HandleRead, HandleWriteNothing, HandleWriteBlocked, HandleWriteKeepAlive
<1>10. CASE HandleSignal
  BY <1>10, <1>a, <1>b DEF HandleSignal
<1>11. CASE EndBatch
  BY <1>11, <1>a, <1>b DEF EndBatch
<1>12. CASE TimerHandler
  <2> DEFINE closed == {fdOf[t] : t \in Timers!Expired}
  <2>1. /\ open' = open \ closed
        /\ idle' = [fd \in Fd |-> IF fd \in closed THEN 0 ELSE idle[fd]]
        /\ m_user_count' = m_user_count - Cardinality(Timers!Expired)
        /\ due' = [t \in DOMAIN due \ Timers!Expired |-> due[t]]
        /\ fdOf' = [t \in Timer |-> IF t \in DOMAIN due' THEN fdOf[t] ELSE None]
        /\ UNCHANGED <<timerOf, wpc>>
    BY <1>12 DEF TimerHandler, CbFunc, Discount, ForgetIdle, Timers!Tick, Timers!Live,
                 FreeTimers
  <2>2. closed \subseteq open /\ Cardinality(closed) = Cardinality(Timers!Expired)
    BY ExpiredAreDistinct DEF TimerInv, CountInv
  <2>3. TimersOfOpen'
    <3> SUFFICES ASSUME NEW t \in DOMAIN due'
                 PROVE  /\ fdOf'[t] \in open' /\ timerOf'[fdOf'[t]] = t
                        /\ due'[t] + idle'[fdOf'[t]] >= Lifetime
      BY DEF TimersOfOpen
    <3>1. /\ t \in DOMAIN due /\ t \notin Timers!Expired /\ t \in Timer
          /\ due'[t] = due[t] /\ fdOf'[t] = fdOf[t]
      BY <2>1 DEF TimerInv, TypeOK
    <3>2. fdOf[t] \in open /\ timerOf[fdOf[t]] = t /\ due[t] + idle[fdOf[t]] >= Lifetime
      BY <3>1 DEF CountInv, TimersOfOpen
    <3>3. fdOf[t] \notin closed /\ fdOf[t] \in Fd
      <4> SUFFICES ASSUME NEW u \in Timers!Expired, fdOf[u] = fdOf[t]
                   PROVE  FALSE
        BY <3>2 DEF TimerInv, TypeOK
      <4>1. timerOf[fdOf[u]] = u
        BY DEF CountInv, TimersOfOpen, Timers!Expired, Timers!Live
      <4> QED  BY <3>1, <3>2, <4>1
    <3> HIDE DEF closed
    <3> QED  BY <2>1, <3>1, <3>2, <3>3
  <2>4. UserCountExact'
    <3> HIDE DEF closed
    <3>1. open \cap closed = closed
      BY <2>2
    <3>2. Cardinality(open \ closed) = Cardinality(open) - Cardinality(closed)
      BY <3>1, FiniteConnections, FS_Difference DEF TimerInv
    <3> QED  BY <2>1, <2>2, <3>2 DEF CountInv, UserCountExact
  <2> QED  BY <1>b, <2>1, <2>3, <2>4 DEF CountInv
<1>13. ASSUME NEW w \in Worker, Process(w) PROVE CountInv'
  <2>1. wpc[w] \notin {"removefd", "clear", "count"} /\ wpc \in [Worker -> WorkerPc]
    BY DEF CountInv, NoWorkerCloses, TimerInv, TypeOK
  <2>2. CASE Take(w) \/ NeedsMore(w) \/ Respond(w) \/ Rearm(w)
    <3>1. UNCHANGED <<open, timerVars, m_user_count, idle>>
      BY <2>2 DEF Take, NeedsMore, Respond, Rearm
    <3>2. \E label \in {"process", "modin", "modout", "idle"} :
            wpc' = [wpc EXCEPT ![w] = label]
      BY <2>2 DEF Take, NeedsMore, Respond, Rearm, Goto
    <3>3. NoWorkerCloses'
      BY <2>1, <3>2 DEF CountInv, NoWorkerCloses
    <3> QED  BY <1>a, <3>1, <3>3
  <2>3. ~(RespondFails(w) \/ Removefd(w) \/ Clear(w) \/ Count(w))
    BY <2>1, ~ServesEmptyFile DEF RespondFails, Removefd, Clear, Count
  <2> QED  BY <1>13, <2>2, <2>3 DEF Process
<1> QED
  BY <1>1, <1>2, <1>3, <1>4, <1>5, <1>6, <1>7, <1>8, <1>9, <1>10, <1>11, <1>12, <1>13
  DEF Next, Step, Environment, Handler

LEMMA CountInvariant == ASSUME ~ServesEmptyFile PROVE Spec => [](TimerInv /\ CountInv)
<1>1. TimerInv /\ CountInv /\ [Next]_vars => CountInv'
  BY CountInvStep
<1> QED  BY <1>1, TimerInvInit, TimerInvStep, CountInvInit, PTL DEF Spec

\* The user count that dealclientdata() compares with MAX_FD is exact where workers have
\* no reason to close a connection: the event loop counts every close once, for any
\* number of connections and however many of them one tick() closes.
THEOREM UserCountIsExact == ASSUME ~ServesEmptyFile PROVE Spec => []UserCountExact
<1>1. CountInv => UserCountExact  BY DEF CountInv
<1> QED  BY <1>1, CountInvariant, PTL

\* There, too, the timers close idle connections only, and only after the whole lifetime.
THEOREM OnlyIdleConnectionsAreClosed ==
  ASSUME ~ServesEmptyFile PROVE Spec => TimerClosesOnlyInactive
<1>1. TimerInv /\ CountInv =>
        (TimerHandler => \A fd \in open \ open' : idle[fd] >= Lifetime)
  <2> SUFFICES ASSUME TimerInv, CountInv, TimerHandler, NEW fd \in open \ open'
               PROVE  idle[fd] >= Lifetime
    OBVIOUS
  <2>1. PICK t \in Timers!Expired : fd = fdOf[t]
    BY DEF TimerHandler, CbFunc
  <2>2. t \in DOMAIN due /\ due[t] <= 0
    BY DEF Timers!Expired, Timers!Live
  <2>3. /\ due[t] \in 0..Lifetime /\ idle[fd] \in 0..Lifetime /\ Lifetime \in Nat
        /\ due[t] + idle[fd] >= Lifetime
    BY <2>1, <2>2, ReactorAssumption
    DEF TimerInv, TypeOK, CountInv, TimersOfOpen, ReactorAssumption
  <2> QED  BY <2>2, <2>3
<1> QED  BY <1>1, CountInvariant, PTL DEF TimerClosesOnlyInactive

-----------------------------------------------------------------------------
(* One place for each connection, where the pool answers in time             *)

\* ExclusiveConnection without its counts: no connection is twice in the pool, nor in it
\* and with the kernel or in the batch.
OnePlace ==
  /\ \A w, v \in Worker : running[w] = running[v] /\ running[w] # None => w = v
  /\ \A i, j \in DOMAIN backlog : backlog[i] = backlog[j] => i = j
  /\ \A i \in DOMAIN backlog, w \in Worker : running[w] # backlog[i]
  /\ \A fd \in Fd : InPool(fd) => epoll[fd] \notin Armed /\ ev[fd] = "none"
  /\ \A fd \in Fd : ev[fd] # "none" => epoll[fd] \notin Armed

\* A connection in the pool is open and its timer has not expired: no descriptor is
\* accepted again while a worker or the queue still has its last connection.
PoolHasOpen == \A fd \in Fd : InPool(fd) => fd \in open /\ due[timerOf[fd]] > 0

PlaceInv == timely => OnePlace /\ PoolHasOpen

LEMMA PlaceInvInit == Init => PlaceInv
<1> SUFFICES ASSUME Init PROVE OnePlace /\ PoolHasOpen
  BY DEF PlaceInv
<1>1. backlog = <<>> /\ \A w \in Worker : running[w] = None
  BY DEF Init, Pool!Init
<1>2. \A fd \in Fd : ~InPool(fd)
  BY <1>1, ReactorAssumption DEF InPool, ReactorAssumption
<1> QED  BY <1>1, <1>2 DEF OnePlace, PoolHasOpen, Init, Armed

\* Nothing moves while the pool, the batch and the registrations stay.
LEMMA SamePlaces ==
  ASSUME OnePlace, UNCHANGED poolVars,
         \A fd \in Fd : InPool(fd) => epoll'[fd] \notin Armed /\ ev'[fd] = "none",
         \A fd \in Fd : ev'[fd] # "none" => epoll'[fd] \notin Armed
  PROVE  OnePlace' /\ \A fd \in Fd : InPool(fd)' <=> InPool(fd)
  BY DEF OnePlace, InPool, poolVars

\* deal_timer() of a connection with an event in the batch.
LEMMA DealTimerPlaces ==
  ASSUME TimerInv, OnePlace, PoolHasOpen, NEW fd \in Fd, ev[fd] # "none",
         DealTimer(fd), Handled(fd), UNCHANGED poolVars
  PROVE  OnePlace' /\ PoolHasOpen'
<1>1. ~InPool(fd) /\ HasTimer(fd)
  BY DEF OnePlace, TimerInv, BatchTimerLive
<1>2. /\ open' = open \ {fd}
      /\ epoll' = [f \in Fd |-> IF f \in {fd} THEN "none" ELSE epoll[f]]
      /\ due' = [t \in DOMAIN due \ {timerOf[fd]} |-> due[t]]
      /\ timerOf' = timerOf
      /\ ev' = [ev EXCEPT ![fd] = "none"]
  BY DEF DealTimer, CbFunc, FreeTimers, Timers!Del, Timers!Live, Handled
<1>3. OnePlace' /\ \A f \in Fd : InPool(f)' <=> InPool(f)
  <2>1. \A f \in Fd : /\ InPool(f) => epoll'[f] \notin Armed /\ ev'[f] = "none"
                      /\ ev'[f] # "none" => epoll'[f] \notin Armed
    BY <1>2 DEF OnePlace, TimerInv, TypeOK, Armed
  <2> QED  BY <2>1, SamePlaces
<1>4. PoolHasOpen'
  <2> SUFFICES ASSUME NEW f \in Fd, InPool(f)
               PROVE  f \in open' /\ due'[timerOf'[f]] > 0
    BY <1>3 DEF PoolHasOpen
  <2>1. f \in open /\ due[timerOf[f]] > 0 /\ f # fd
    BY <1>1 DEF PoolHasOpen
  <2>2. HasTimer(f)
    BY <2>1 DEF TimerInv, TimerCoverage
  <2>3. timerOf[f] \in DOMAIN due /\ timerOf[f] # timerOf[fd]
    BY <1>1, <2>1, <2>2 DEF HasTimer
  <2> QED  BY <1>2, <2>1, <2>3
<1> QED  BY <1>3, <1>4

\* A handler that extends the timer of such a connection, and perhaps arms it again.
LEMMA AdjustTimerPlaces ==
  ASSUME TimerInv, OnePlace, PoolHasOpen, NEW fd \in Fd, ev[fd] # "none",
         AdjustTimer(fd), Handled(fd), UNCHANGED <<open, poolVars>>,
         \A f \in Fd : f # fd => epoll'[f] = epoll[f]
  PROVE  OnePlace' /\ PoolHasOpen'
<1>1. ~InPool(fd)
  BY DEF OnePlace
<1>2. OnePlace' /\ \A f \in Fd : InPool(f)' <=> InPool(f)
  <2>1. \A f \in Fd : /\ InPool(f) => epoll'[f] \notin Armed /\ ev'[f] = "none"
                      /\ ev'[f] # "none" => epoll'[f] \notin Armed
    BY <1>1 DEF OnePlace, Handled, TimerInv, TypeOK
  <2> QED  BY <2>1, SamePlaces
<1>3. \A t \in DOMAIN due : due'[t] = due[t] \/ due'[t] = Lifetime
  BY DEF AdjustTimer, Timers!Adjust
<1>4. PoolHasOpen'
  <2> SUFFICES ASSUME NEW f \in Fd, InPool(f)
               PROVE  f \in open' /\ due'[timerOf'[f]] > 0
    BY <1>2 DEF PoolHasOpen
  <2>1. f \in open /\ due[timerOf[f]] > 0 /\ HasTimer(f) /\ timerOf' = timerOf
    BY DEF PoolHasOpen, TimerInv, TimerCoverage, AdjustTimer
  <2>2. Lifetime > 0
    BY ReactorAssumption DEF ReactorAssumption
  <2> QED  BY <1>3, <2>1, <2>2 DEF HasTimer
<1> QED  BY <1>2, <1>4

\* A request goes from the batch to the queue, with a timer that has its whole lifetime.
LEMMA EnqueuePlaces ==
  ASSUME TimerInv, CountInv, OnePlace, PoolHasOpen, NEW fd \in Fd, HandleRead(fd)
  PROVE  OnePlace' /\ PoolHasOpen'
<1>1. /\ ev[fd] # "none" /\ fd \in open /\ epoll[fd] \notin Armed
      /\ ~InPool(fd) /\ HasTimer(fd)
  BY DEF HandleRead, OnePlace, TimerInv, BatchTimerLive
<1>2. /\ UNCHANGED <<open, epoll>> /\ running' = running
      /\ ev' = [ev EXCEPT ![fd] = "none"]
      /\ timerOf' = timerOf /\ due' = [due EXCEPT ![timerOf[fd]] = Lifetime]
  BY DEF HandleRead, AdjustTimer, Timers!Adjust, Handled, Enqueue, Pool!Submit,
         kernelVars, poolVars
<1>3. backlog' = backlog \/ backlog' = Append(backlog, fd)
  BY DEF HandleRead, Enqueue, Pool!Submit, poolVars
<1>4. \A f \in Fd : InPool(f)' => InPool(f) \/ f = fd
  <2>1. backlog \in Seq(Fd)
    BY DEF TimerInv, TypeOK
  <2>2. \A i \in DOMAIN backlog' :
          backlog'[i] = fd \/ (i \in DOMAIN backlog /\ backlog'[i] = backlog[i])
    BY <1>3, <2>1
  <2> QED  BY <1>2, <2>2 DEF InPool
<1>5. OnePlace'
  <2>1. /\ \A f \in Fd : InPool(f)' => epoll'[f] \notin Armed /\ ev'[f] = "none"
        /\ \A f \in Fd : ev'[f] # "none" => epoll'[f] \notin Armed
    BY <1>1, <1>2, <1>4 DEF OnePlace, TimerInv, TypeOK
  <2>2. /\ \A i \in DOMAIN backlog : backlog[i] # fd
        /\ \A w \in Worker : running[w] # fd
    BY <1>1 DEF InPool
  <2>3. /\ \A i, j \in DOMAIN backlog' : backlog'[i] = backlog'[j] => i = j
        /\ \A i \in DOMAIN backlog', w \in Worker : running[w] # backlog'[i]
    <3>1. CASE backlog' = backlog
      BY <3>1 DEF OnePlace
    <3>2. CASE backlog' = Append(backlog, fd)
      BY <2>2, <3>2 DEF OnePlace, TimerInv, TypeOK
    <3> QED  BY <1>3, <3>1, <3>2
  <2> QED  BY <1>2, <2>1, <2>3 DEF OnePlace
<1>6. PoolHasOpen'
  <2> SUFFICES ASSUME NEW f \in Fd, InPool(f) \/ f = fd
               PROVE  f \in open /\ due'[timerOf[f]] > 0
    BY <1>2, <1>4 DEF PoolHasOpen
  <2>1. f \in open /\ (f # fd => due[timerOf[f]] > 0) /\ HasTimer(f)
    BY <1>1 DEF PoolHasOpen, TimerInv, TimerCoverage
  <2>2. Lifetime > 0
    BY ReactorAssumption DEF ReactorAssumption
  <2> QED  BY <1>2, <2>1, <2>2 DEF HasTimer
<1> QED  BY <1>5, <1>6

LEMMA PlaceInvStep ==
  ASSUME ~ServesEmptyFile
  PROVE  TimerInv /\ CountInv /\ PlaceInv /\ [Next]_vars => PlaceInv'
<1> SUFFICES ASSUME TimerInv, CountInv, OnePlace, PoolHasOpen, timely, [Next]_vars
             PROVE  OnePlace' /\ PoolHasOpen'
  BY DEF PlaceInv, Next, vars
<1> USE DEF kernelVars, signalVars, loopVars, timerVars, connVars, workVars
\* Steps that change neither a place nor a timer.
<1>a. ASSUME UNCHANGED <<kernelVars, ev, timerVars, poolVars>>
      PROVE  OnePlace' /\ PoolHasOpen'
  <2>1. OnePlace' /\ \A fd \in Fd : InPool(fd)' <=> InPool(fd)
    BY <1>a, SamePlaces DEF OnePlace
  <2> QED  BY <1>a, <2>1 DEF PoolHasOpen
<1>1. CASE UNCHANGED vars
  BY <1>1, <1>a DEF vars
<1>2. CASE ClockTick
  <2>1. /\ \A t \in DOMAIN due : due[t] = 1 => ~InPool(fdOf[t])
        /\ due' = [t \in DOMAIN due |-> IF due[t] = 0 THEN 0 ELSE due[t] - 1]
        /\ UNCHANGED <<kernelVars, ev, timerOf, fdOf, poolVars>>
    BY <1>2 DEF ClockTick
  <2>2. OnePlace' /\ \A fd \in Fd : InPool(fd)' <=> InPool(fd)
    BY <2>1, SamePlaces DEF OnePlace
  <2>3. PoolHasOpen'
    <3> SUFFICES ASSUME NEW fd \in Fd, InPool(fd)
                 PROVE  fd \in open' /\ due'[timerOf[fd]] > 0
      BY <2>1, <2>2 DEF PoolHasOpen
    <3>1. fd \in open /\ due[timerOf[fd]] > 0
      BY DEF PoolHasOpen
    <3>2. timerOf[fd] \in DOMAIN due /\ fdOf[timerOf[fd]] = fd
      BY <3>1 DEF TimerInv, TimerCoverage, HasTimer
    <3>3. due[timerOf[fd]] # 1 /\ due[timerOf[fd]] \in Nat
      BY <2>1, <3>2, ReactorAssumption DEF TimerInv, TypeOK, ReactorAssumption
    <3> QED  BY <2>1, <3>1, <3>2, <3>3
  <2> QED  BY <2>2, <2>3
<1>3. CASE SigAlarm
  BY <1>3, <1>a DEF SigAlarm
<1>4. CASE SigTerm
  BY <1>4, <1>a DEF SigTerm
<1>5. CASE EpollWait
  <2>1. PICK e \in [Fd -> {"none", "in", "out", "hup"}] :
          /\ \A fd \in Fd : e[fd] # "none" => epoll[fd] \in Armed
          /\ ev' = e
          /\ epoll' = [fd \in Fd |-> IF e[fd] = "none" THEN epoll[fd] ELSE "off"]
    BY <1>5 DEF EpollWait, Disarm
  <2>2. UNCHANGED <<open, timerVars, poolVars>>
    BY <1>5 DEF EpollWait
  <2>3. OnePlace' /\ \A fd \in Fd : InPool(fd)' <=> InPool(fd)
    BY <2>1, <2>2, SamePlaces DEF OnePlace, Armed
  <2> QED  BY <2>2, <2>3 DEF PoolHasOpen
<1>6. ASSUME NEW fd \in Fd, NEW t \in Timer, Accept(fd, t)
      PROVE  OnePlace' /\ PoolHasOpen'
  <2>1. /\ fd \notin open /\ open' = open \cup {fd}
        /\ epoll' = [epoll EXCEPT ![fd] = "in"]
        /\ t \notin DOMAIN due
        /\ due' = [u \in DOMAIN due \cup {t} |-> IF u = t THEN Lifetime ELSE due[u]]
        /\ timerOf' = [timerOf EXCEPT ![fd] = t]
        /\ UNCHANGED <<ev, poolVars>>
    BY <1>6 DEF Accept, SetTimer, Timers!Add, Timers!Live
  <2>2. ~InPool(fd) /\ ev[fd] = "none"
    BY <2>1 DEF PoolHasOpen, TimerInv, BatchTimerLive, HasTimer, CountInv, TimersOfOpen
  <2>3. OnePlace' /\ \A f \in Fd : InPool(f)' <=> InPool(f)
    <3>1. \A f \in Fd : f # fd => epoll'[f] = epoll[f]
      BY <2>1 DEF TimerInv, TypeOK
    <3> QED  BY <2>1, <2>2, <3>1, SamePlaces DEF OnePlace
  <2>4. PoolHasOpen'
    <3> SUFFICES ASSUME NEW f \in Fd, InPool(f)
                 PROVE  f \in open' /\ due'[timerOf'[f]] > 0
      BY <2>3 DEF PoolHasOpen
    <3>1. f \in open /\ due[timerOf[f]] > 0 /\ f # fd
      BY <2>2 DEF PoolHasOpen
    <3>2. timerOf[f] \in DOMAIN due /\ timerOf'[f] = timerOf[f]
      BY <2>1, <3>1 DEF TimerInv, TypeOK, TimerCoverage, HasTimer
    <3> QED  BY <2>1, <3>1, <3>2
  <2> QED  BY <2>3, <2>4
<1>7. CASE AcceptNone
  BY <1>7, <1>a DEF AcceptNone
<1>8. ASSUME NEW fd \in Fd, HandleHup(fd) \/ HandleReadFails(fd) \/ HandleWriteClose(fd)
      PROVE  OnePlace' /\ PoolHasOpen'
  BY <1>8, DealTimerPlaces DEF HandleHup, HandleReadFails, HandleWriteClose
<1>9. ASSUME NEW fd \in Fd, HandleRead(fd)
      PROVE  OnePlace' /\ PoolHasOpen'
  BY <1>9, EnqueuePlaces
<1>10. ASSUME NEW fd \in Fd,
              HandleWriteNothing(fd) \/ HandleWriteBlocked(fd) \/ HandleWriteKeepAlive(fd)
       PROVE  OnePlace' /\ PoolHasOpen'
  <2>1. /\ ev[fd] # "none" /\ AdjustTimer(fd) /\ Handled(fd)
        /\ UNCHANGED <<open, poolVars>>
        /\ Modfd(fd, "in") \/ Modfd(fd, "out")
    BY <1>10 DEF HandleWriteNothing, HandleWriteBlocked, HandleWriteKeepAlive
  <2>2. \A f \in Fd : f # fd => epoll'[f] = epoll[f]
    BY <2>1 DEF Modfd, TimerInv, TypeOK
  <2> QED  BY <2>1, <2>2, AdjustTimerPlaces
<1>11. CASE HandleSignal
  BY <1>11, <1>a DEF HandleSignal
<1>12. CASE EndBatch
  BY <1>12, <1>a DEF EndBatch
<1>13. CASE TimerHandler
  <2> DEFINE closed == {fdOf[t] : t \in Timers!Expired}
  <2>1. /\ open' = open \ closed
        /\ epoll' = [fd \in Fd |-> IF fd \in closed THEN "none" ELSE epoll[fd]]
        /\ due' = [t \in DOMAIN due \ Timers!Expired |-> due[t]]
        /\ UNCHANGED <<timerOf, ev, poolVars>>
    BY <1>13 DEF TimerHandler, CbFunc, Timers!Tick, Timers!Live, FreeTimers
  <2>2. \A fd \in Fd : InPool(fd) => /\ timerOf[fd] \in DOMAIN due \ Timers!Expired
                                     /\ fd \notin closed
    <3> SUFFICES ASSUME NEW fd \in Fd, InPool(fd)
                 PROVE  /\ timerOf[fd] \in DOMAIN due \ Timers!Expired
                        /\ fd \notin closed
      OBVIOUS
    <3>1. fd \in open /\ due[timerOf[fd]] > 0
      BY DEF PoolHasOpen
    <3>2. timerOf[fd] \in DOMAIN due
      BY <3>1 DEF TimerInv, TimerCoverage, HasTimer
    <3>3. due[timerOf[fd]] \in Nat
      BY <3>2, ReactorAssumption DEF TimerInv, TypeOK, ReactorAssumption
    <3>4. timerOf[fd] \notin Timers!Expired
      BY <3>1, <3>3 DEF Timers!Expired
    <3>5. ASSUME NEW t \in Timers!Expired, fdOf[t] = fd
          PROVE  FALSE
      BY <3>4, <3>5 DEF CountInv, TimersOfOpen, Timers!Expired, Timers!Live
    <3> QED  BY <3>2, <3>4, <3>5
  <2> HIDE DEF closed
  <2>3. OnePlace' /\ \A fd \in Fd : InPool(fd)' <=> InPool(fd)
    BY <2>1, SamePlaces DEF OnePlace, Armed
  <2>4. PoolHasOpen'
    BY <2>1, <2>2, <2>3 DEF PoolHasOpen
  <2> QED  BY <2>3, <2>4
<1>14. ASSUME NEW w \in Worker, Take(w)
       PROVE  OnePlace' /\ PoolHasOpen'
  <2>1. /\ backlog # <<>> /\ running[w] = None
        /\ running' = [running EXCEPT ![w] = Head(backlog)]
        /\ backlog' = Tail(backlog)
        /\ UNCHANGED <<kernelVars, ev, timerVars>>
    BY <1>14 DEF Take, Pool!Take
  <2>2. /\ backlog \in Seq(Fd) /\ Head(backlog) = backlog[1] /\ 1 \in DOMAIN backlog
        /\ \A i \in DOMAIN backlog' : /\ i + 1 \in DOMAIN backlog /\ i + 1 # 1
                                      /\ backlog'[i] = backlog[i + 1]
        /\ \A i, j \in DOMAIN backlog' : i + 1 = j + 1 => i = j
    BY <2>1 DEF TimerInv, TypeOK
  <2>3. /\ running \in [Worker -> Fd \cup {None}]
        /\ running'[w] = backlog[1]
        /\ \A v \in Worker : v # w => running'[v] = running[v]
    BY <2>1, <2>2 DEF TimerInv, TypeOK
  <2>4. \A fd \in Fd : InPool(fd)' => InPool(fd)
    BY <2>2, <2>3 DEF InPool
  <2>5. /\ \A v, u \in Worker : running'[v] = running'[u] /\ running'[v] # None => v = u
        /\ \A i, j \in DOMAIN backlog' : backlog'[i] = backlog'[j] => i = j
        /\ \A i \in DOMAIN backlog', v \in Worker : running'[v] # backlog'[i]
    BY <2>2, <2>3 DEF OnePlace
  <2>6. OnePlace'
    BY <2>1, <2>4, <2>5 DEF OnePlace
  <2>7. PoolHasOpen'
    BY <2>1, <2>4 DEF PoolHasOpen
  <2> QED  BY <2>6, <2>7
<1>15. ASSUME NEW w \in Worker, NeedsMore(w) \/ Respond(w)
       PROVE  OnePlace' /\ PoolHasOpen'
  BY <1>15, <1>a DEF NeedsMore, Respond
<1>16. ASSUME NEW w \in Worker, Rearm(w)
       PROVE  OnePlace' /\ PoolHasOpen'
  <2>1. /\ running[w] # None
        /\ running' = [running EXCEPT ![w] = None]
        /\ Modfd(running[w], "in") \/ Modfd(running[w], "out")
        /\ UNCHANGED <<open, ev, timerVars, backlog>>
    BY <1>16 DEF Rearm, Pool!Finish
  <2>2. /\ running \in [Worker -> Fd \cup {None}] /\ running[w] \in Fd
        /\ running'[w] = None
        /\ \A v \in Worker : v # w => running'[v] = running[v]
    BY <2>1 DEF TimerInv, TypeOK
  <2>3. \A fd \in Fd : InPool(fd)' => InPool(fd) /\ fd # running[w]
    BY <2>1, <2>2, ReactorAssumption DEF InPool, OnePlace, ReactorAssumption
  <2>4. \A fd \in Fd : fd # running[w] => epoll'[fd] = epoll[fd]
    BY <2>1 DEF Modfd, TimerInv, TypeOK
  <2>5. ev[running[w]] = "none"
    BY <2>2 DEF OnePlace, InPool
  <2>6. OnePlace'
    <3>1. \A v, u \in Worker : running'[v] = running'[u] /\ running'[v] # None => v = u
      BY <2>2 DEF OnePlace
    <3>2. \A i \in DOMAIN backlog, v \in Worker : running'[v] # backlog[i]
      BY <2>2, ReactorAssumption DEF OnePlace, TimerInv, TypeOK, ReactorAssumption
    <3>3. /\ \A fd \in Fd : InPool(fd)' => epoll'[fd] \notin Armed /\ ev'[fd] = "none"
          /\ \A fd \in Fd : ev'[fd] # "none" => epoll'[fd] \notin Armed
      BY <2>1, <2>3, <2>4, <2>5 DEF OnePlace
    <3> QED  BY <2>1, <3>1, <3>2, <3>3 DEF OnePlace
  <2>7. PoolHasOpen'
    BY <2>1, <2>3 DEF PoolHasOpen
  <2> QED  BY <2>6, <2>7
<1>17. ASSUME NEW w \in Worker, RespondFails(w) \/ Removefd(w) \/ Clear(w) \/ Count(w)
       PROVE  FALSE
  BY <1>17, ~ServesEmptyFile
  DEF RespondFails, Removefd, Clear, Count, CountInv, NoWorkerCloses
<1> QED
  BY <1>1, <1>2, <1>3, <1>4, <1>5, <1>6, <1>7, <1>8, <1>9, <1>10, <1>11, <1>12, <1>13,
     <1>14, <1>15, <1>16, <1>17
  DEF Next, Step, Environment, Handler, Process

\* A set without two different members has at most one.
LEMMA AtMostOne ==
  ASSUME NEW S, \A x, y \in S : x = y
  PROVE  Cardinality(S) \in 0..1 /\ (S = {} => Cardinality(S) = 0)
<1>1. CASE S = {}
  BY <1>1, FS_EmptySet
<1>2. ASSUME NEW x \in S PROVE Cardinality(S) = 1
  <2>1. S = {x}
    OBVIOUS
  <2> QED  BY <2>1, FS_Singleton
<1> QED  BY <1>1, <1>2

LEMMA OnePlaceCounts == TimerInv /\ PlaceInv => ExclusiveConnection
<1> SUFFICES ASSUME TimerInv, OnePlace, NEW fd \in Fd
             PROVE  Holders(fd) <= 1
  BY DEF PlaceInv, ExclusiveConnection
<1> DEFINE working == {w \in Worker : running[w] = fd}
           queued == {i \in DOMAIN backlog : backlog[i] = fd}
           outside == IF epoll[fd] \in Armed \/ ev[fd] # "none" THEN 1 ELSE 0
<1>1. fd # None
  BY ReactorAssumption DEF ReactorAssumption
<1>2. /\ \A w, v \in working : w = v
      /\ \A i, j \in queued : i = j
  BY <1>1 DEF OnePlace
<1>3. /\ working = {} \/ queued = {}
      /\ working # {} \/ queued # {} => outside = 0
  BY DEF OnePlace, InPool
<1>4. outside \in 0..1
  OBVIOUS
<1>5. Holders(fd) = Cardinality(working) + Cardinality(queued) + outside
  BY DEF Holders
<1> HIDE DEF working, queued, outside
<1>6. /\ Cardinality(working) \in 0..1 /\ (working = {} => Cardinality(working) = 0)
      /\ Cardinality(queued) \in 0..1 /\ (queued = {} => Cardinality(queued) = 0)
  BY <1>2, AtMostOne
<1> QED  BY <1>3, <1>4, <1>5, <1>6

\* EPOLLONESHOT keeps each connection with one thread, for any number of connections
\* and workers, as long as no worker closes one and the timers wait for the pool.
THEOREM OneThreadPerConnection ==
  ASSUME ~ServesEmptyFile PROVE Spec => []ExclusiveConnection
<1>1. TimerInv /\ CountInv /\ PlaceInv /\ [Next]_vars => PlaceInv'
  BY PlaceInvStep
<1>2. TimerInv /\ PlaceInv => ExclusiveConnection
  BY OnePlaceCounts
<1> QED  BY <1>1, <1>2, PlaceInvInit, CountInvariant, PTL DEF Spec
=============================================================================
