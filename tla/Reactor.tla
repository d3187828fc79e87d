------------------------------- MODULE Reactor ------------------------------
(***************************************************************************)
(* The server: the event loop of webserver.cpp (one thread), the pool's    *)
(* workers running http_conn::process(), and what they share: the epoll    *)
(* registrations, the http_conn objects (indexed by descriptor) and the    *)
(* user count.  The pool is JobDispatch and the timer list TimerService,   *)
(* the specifications that ThreadPool and TimerList implement.             *)
(*                                                                         *)
(* A handler of the event loop is one step.  A worker takes one step per   *)
(* access to shared state: it runs while the event loop closes, reopens    *)
(* and reinitialises the very http_conn it works on.                       *)
(*                                                                         *)
(* The peers are the environment: epoll_wait() returns events on any set   *)
(* of the armed connections, and reads and writes succeed or fail.         *)
(***************************************************************************)
EXTENDS Integers, Sequences, FiniteSets

CONSTANTS
  Fd,              \* descriptors of connections, indexes of users[]
  Worker,          \* threads of the pool
  Timer,           \* bound: the util_timers that can be allocated at once
  None,
  MaxRequests,     \* m_max_requests of the pool
  MaxFd,           \* MAX_FD, the limit on m_user_count
  MinCount,        \* bound: connections are accepted from this m_user_count on
  Lifetime,        \* 3 * TIMESLOT, in slots
  ListenET,        \* is the listening socket edge-triggered (m_LISTENTrigmode = 1)?
  ServesEmptyFile, \* is there an empty file to ask for, so that process_write() fails?
  Paces            \* values of timely to consider

ASSUME ReactorAssumption ==
  /\ IsFiniteSet(Fd) /\ IsFiniteSet(Timer)
  /\ None \notin Fd \cup Worker \cup Timer
  /\ MaxRequests \in Nat /\ MaxFd \in Nat /\ MinCount \in Int
  /\ Lifetime \in Nat \ {0}
  /\ ListenET \in BOOLEAN /\ ServesEmptyFile \in BOOLEAN /\ Paces \subseteq BOOLEAN

VARIABLES
  \* kernel
  open,          \* descriptors of open connections
  epoll,         \* what each one is registered for; "off": one-shot, already reported
  alarm,         \* is alarm() pending?
  sigpipe,       \* signals written to m_pipefd and not read yet
  \* event loop
  mpc,           \* at epoll_wait(), in the batch of events, or out of the loop
  ev,            \* the batch: the event of each connection not handled yet
  evListen,      \* ... of m_listenfd
  evSignal,      \* ... of m_pipefd[0]
  timeout, stop_server,
  timerOf,       \* users_timer[fd].timer
  fdOf,          \* user_data->sockfd of each util_timer
  due,           \* the timer list: slots left to each timer in it
  \* http_conn
  m_user_count,
  m_sockfd,      \* of users[fd]; None for -1
  response,      \* of users[fd]: what write() has to send, and m_linger
  \* pool
  backlog, running,
  wpc,           \* next step of each worker in process()
  load,          \* m_user_count as loaded by 'm_user_count--'
  timely,        \* does the pool answer every request before its timer expires?
  \* history
  idle           \* slots since the last event handled on the connection

kernelVars == <<open, epoll>>
signalVars == <<alarm, sigpipe>>
loopVars == <<mpc, evListen, evSignal, timeout, stop_server>>
timerVars == <<timerOf, fdOf, due>>
connVars == <<m_sockfd, response>>
poolVars == <<backlog, running>>
workVars == <<wpc, load>>
vars == <<kernelVars, signalVars, loopVars, ev, timerVars, m_user_count, connVars,
          poolVars, workVars, timely, idle>>

Pool == INSTANCE JobDispatch WITH Request <- Fd
Timers == INSTANCE TimerService WITH Time <- 0..Lifetime, now <- 0

Armed == {"in", "out"}
WorkerPc == {"idle", "process", "removefd", "clear", "count", "modin", "modout"}

TypeOK ==
  /\ open \in SUBSET Fd
  /\ epoll \in [Fd -> {"none", "off"} \cup Armed]
  /\ alarm \in BOOLEAN
  /\ sigpipe \in SUBSET {"SIGALRM", "SIGTERM"}
  /\ mpc \in {"wait", "batch", "stopped"}
  /\ ev \in [Fd -> {"none", "in", "out", "hup"}]
  /\ evListen \in BOOLEAN /\ evSignal \in BOOLEAN
  /\ timeout \in BOOLEAN /\ stop_server \in BOOLEAN
  /\ timerOf \in [Fd -> Timer \cup {None}]
  /\ fdOf \in [Timer -> Fd \cup {None}]
  /\ DOMAIN due \in SUBSET Timer
  /\ due \in [DOMAIN due -> 0..Lifetime]
  /\ m_user_count \in Int
  /\ m_sockfd \in [Fd -> Fd \cup {None}]
  /\ response \in [Fd -> {"none", "close", "keep-alive"}]
  /\ backlog \in Seq(Fd)
  /\ Len(backlog) <= MaxRequests + 1
  /\ running \in [Worker -> Fd \cup {None}]
  /\ wpc \in [Worker -> WorkerPc]
  /\ load \in [Worker -> Int]
  /\ timely \in BOOLEAN
  /\ idle \in [Fd -> 0..Lifetime]

Init ==
  /\ open = {} /\ epoll = [fd \in Fd |-> "none"]
  /\ alarm = TRUE /\ sigpipe = {}
  /\ mpc = "wait" /\ ev = [fd \in Fd |-> "none"]
  /\ evListen = FALSE /\ evSignal = FALSE
  /\ timeout = FALSE /\ stop_server = FALSE
  /\ timerOf = [fd \in Fd |-> None] /\ fdOf = [t \in Timer |-> None]
  /\ Timers!Init
  /\ m_user_count = 0
  /\ m_sockfd = [fd \in Fd |-> None]
  /\ response = [fd \in Fd |-> "none"]
  /\ Pool!Init
  /\ wpc = [w \in Worker |-> "idle"] /\ load = [w \in Worker |-> 0]
  /\ timely \in Paces
  /\ idle = [fd \in Fd |-> 0]

-----------------------------------------------------------------------------
(* Time and signals *)

InPool(fd) ==
  \/ \E i \in DOMAIN backlog : backlog[i] = fd
  \/ \E w \in Worker : running[w] = fd

\* One slot passes.
ClockTick ==
  /\ mpc # "stopped"
  /\ \E t \in DOMAIN due : due[t] > 0
  /\ timely => \A t \in DOMAIN due : due[t] = 1 => ~InPool(fdOf[t])
  /\ due' = [t \in DOMAIN due |-> IF due[t] = 0 THEN 0 ELSE due[t] - 1]
  /\ idle' = [fd \in Fd |-> IF fd \in open /\ idle[fd] < Lifetime
                            THEN idle[fd] + 1 ELSE idle[fd]]
  /\ UNCHANGED <<kernelVars, signalVars, loopVars, ev, timerOf, fdOf, m_user_count,
                 connVars, poolVars, workVars>>

\* sig_handler() writes the signal to the pipe.
SigAlarm ==
  /\ mpc # "stopped"
  /\ alarm
  /\ alarm' = FALSE
  /\ sigpipe' = sigpipe \cup {"SIGALRM"}
  /\ UNCHANGED <<kernelVars, loopVars, ev, timerVars, m_user_count, connVars,
                 poolVars, workVars, idle>>

SigTerm ==
  /\ mpc # "stopped"
  /\ sigpipe' = sigpipe \cup {"SIGTERM"}
  /\ UNCHANGED <<kernelVars, alarm, loopVars, ev, timerVars, m_user_count, connVars,
                 poolVars, workVars, idle>>

-----------------------------------------------------------------------------
(* The event loop *)

\* A bug to catch: the connections are registered without EPOLLONESHOT.
Disarm_Never(e) == UNCHANGED epoll

\* EPOLLONESHOT: a connection with an event is reported once.
Disarm(e) == epoll' = [fd \in Fd |-> IF e[fd] = "none" THEN epoll[fd] ELSE "off"]

\* epoll_wait() returns the events of some armed connections, which one-shot
\* registration disarms.  (A return by EINTR changes nothing.)
EpollWait ==
  /\ mpc = "wait"
  /\ evListen' \in BOOLEAN
  /\ evSignal' = (sigpipe # {})
  /\ \E e \in [Fd -> {"none", "in", "out", "hup"}] :
       /\ \A fd \in Fd : e[fd] # "none" =>
            epoll[fd] \in Armed /\ e[fd] \in {epoll[fd], "hup"}
       /\ evListen' \/ evSignal' \/ \E fd \in Fd : e[fd] # "none"
       /\ ev' = e
       /\ Disarm(e)
  /\ mpc' = "batch"
  /\ UNCHANGED <<open, signalVars, timeout, stop_server, timerVars, m_user_count,
                 connVars, poolVars, workVars, idle>>

Handled(fd) == ev' = [ev EXCEPT ![fd] = "none"]

\* modfd(m_epollfd, m_sockfd, event) of users[fd]: no effect on a closed descriptor.
Modfd(fd, event) ==
  epoll' = IF m_sockfd[fd] # None /\ epoll[fd] # "none"
           THEN [epoll EXCEPT ![fd] = event] ELSE epoll

\* http_conn::init(): the object is ready for a new request.
InitConn(fd) == response' = [response EXCEPT ![fd] = "none"]

\* A bug to catch: the timer is not extended.
AdjustTimer_Not(fd) == UNCHANGED timerVars

\* adjust_timer(): the connection gets its full lifetime again.
AdjustTimer(fd) == Timers!Adjust(timerOf[fd], Lifetime) /\ UNCHANGED <<timerOf, fdOf>>

\* The history of a connection ends when it is closed.
ForgetIdle(S) == idle' = [fd \in Fd |-> IF fd \in S THEN 0 ELSE idle[fd]]

\* A bug to catch: a close is not counted.
Discount_Not(n) == UNCHANGED m_user_count

\* 'm_user_count--', n times, by the event loop's thread.
Discount(n) == m_user_count' = m_user_count - n

\* cb_func(): close the descriptors in S, called n times.  m_sockfd stays.
CbFunc(S, n) ==
  /\ epoll' = [fd \in Fd |-> IF fd \in S THEN "none" ELSE epoll[fd]]
  /\ open' = open \ S
  /\ ForgetIdle(S)
  /\ Discount(n)

\* The timers that left the list are freed; users_timer[] keeps pointing at them.
FreeTimers ==
  /\ fdOf' = [t \in Timer |-> IF t \in DOMAIN due' THEN fdOf[t] ELSE None]
  /\ UNCHANGED timerOf

\* deal_timer(users_timer[fd].timer, fd)
DealTimer(fd) ==
  /\ CbFunc({fd}, 1)
  /\ Timers!Del(timerOf[fd])
  /\ FreeTimers

\* A bug to catch: users_timer[connfd].timer is not assigned.
SetTimer_Not(fd, t) == UNCHANGED timerOf

SetTimer(fd, t) == timerOf' = [timerOf EXCEPT ![fd] = t]

\* dealclientdata(), one round of accept(): a connection, and WebServer::timer().
Accept(fd, t) ==
  /\ mpc = "batch" /\ evListen
  /\ fd \notin open
  /\ m_user_count \in MinCount..(MaxFd - 1)
  /\ open' = open \cup {fd}
  /\ m_sockfd' = [m_sockfd EXCEPT ![fd] = fd]
  /\ epoll' = [epoll EXCEPT ![fd] = "in"]
  /\ m_user_count' = m_user_count + 1
  /\ InitConn(fd)
  /\ Timers!Add(t, Lifetime)
  /\ SetTimer(fd, t)
  /\ fdOf' = [fdOf EXCEPT ![t] = fd]
  /\ idle' = [idle EXCEPT ![fd] = 0]
  /\ evListen' = ListenET
  /\ UNCHANGED <<signalVars, mpc, evSignal, timeout, stop_server, ev, poolVars,
                 workVars>>

\* accept() fails, or the server is busy and closes the new descriptor: either
\* ends the handler, in the edge-triggered mode too.
AcceptNone ==
  /\ mpc = "batch" /\ evListen
  /\ evListen' = FALSE
  /\ UNCHANGED <<kernelVars, signalVars, mpc, evSignal, timeout, stop_server, ev,
                 timerVars, m_user_count, connVars, poolVars, workVars, idle>>

\* EPOLLRDHUP, EPOLLHUP or EPOLLERR
HandleHup(fd) ==
  /\ mpc = "batch" /\ ev[fd] = "hup"
  /\ DealTimer(fd)
  /\ Handled(fd)
  /\ UNCHANGED <<signalVars, loopVars, connVars, poolVars, workVars>>

\* A bug to catch: append() without the test of the queue's size.
Enqueue_Unbounded(fd) == backlog' = Append(backlog, fd) /\ UNCHANGED running

\* m_pool->append(users + fd), whose result is ignored: a request that finds the
\* queue full is dropped.
Enqueue(fd) == IF Pool!HasRoom THEN Pool!Submit(fd) ELSE UNCHANGED poolVars

\* dealwithread(): read() succeeds.
HandleRead(fd) ==
  /\ mpc = "batch" /\ ev[fd] = "in"
  /\ fd \in open /\ m_sockfd[fd] # None
  /\ Enqueue(fd)
  /\ AdjustTimer(fd)
  /\ idle' = [idle EXCEPT ![fd] = 0]
  /\ Handled(fd)
  /\ UNCHANGED <<kernelVars, signalVars, loopVars, m_user_count, connVars, workVars>>

\* dealwithread(): read() fails, because the peer is gone, the buffer is full, or
\* the descriptor is no longer this connection's.
HandleReadFails(fd) ==
  /\ mpc = "batch" /\ ev[fd] = "in"
  /\ DealTimer(fd)
  /\ Handled(fd)
  /\ UNCHANGED <<signalVars, loopVars, connVars, poolVars, workVars>>

\* dealwithwrite(): there is nothing to send.
HandleWriteNothing(fd) ==
  /\ mpc = "batch" /\ ev[fd] = "out"
  /\ response[fd] = "none"
  /\ Modfd(fd, "in")
  /\ InitConn(fd)
  /\ AdjustTimer(fd)
  /\ idle' = [idle EXCEPT ![fd] = 0]
  /\ Handled(fd)
  /\ UNCHANGED <<open, signalVars, loopVars, m_user_count, m_sockfd, poolVars, workVars>>

\* writev() fails: 'errno = EAGAIN' makes every failure a full socket buffer.
HandleWriteBlocked(fd) ==
  /\ mpc = "batch" /\ ev[fd] = "out"
  /\ response[fd] # "none"
  /\ Modfd(fd, "out")
  /\ AdjustTimer(fd)
  /\ idle' = [idle EXCEPT ![fd] = 0]
  /\ Handled(fd)
  /\ UNCHANGED <<open, signalVars, loopVars, m_user_count, connVars, poolVars, workVars>>

\* The response is sent on a connection to keep.
HandleWriteKeepAlive(fd) ==
  /\ mpc = "batch" /\ ev[fd] = "out"
  /\ response[fd] = "keep-alive"
  /\ fd \in open /\ m_sockfd[fd] # None
  /\ InitConn(fd)
  /\ Modfd(fd, "in")
  /\ AdjustTimer(fd)
  /\ idle' = [idle EXCEPT ![fd] = 0]
  /\ Handled(fd)
  /\ UNCHANGED <<open, signalVars, loopVars, m_user_count, m_sockfd, poolVars, workVars>>

\* The response is sent on a connection to close.
HandleWriteClose(fd) ==
  /\ mpc = "batch" /\ ev[fd] = "out"
  /\ response[fd] = "close"
  /\ fd \in open /\ m_sockfd[fd] # None
  /\ DealTimer(fd)
  /\ Handled(fd)
  /\ UNCHANGED <<signalVars, loopVars, connVars, poolVars, workVars>>

\* dealwithsignal(): the expired timers are not handled yet.
HandleSignal ==
  /\ mpc = "batch" /\ evSignal
  /\ timeout' = (timeout \/ "SIGALRM" \in sigpipe)
  /\ stop_server' = (stop_server \/ "SIGTERM" \in sigpipe)
  /\ sigpipe' = {}
  /\ evSignal' = FALSE
  /\ UNCHANGED <<kernelVars, alarm, mpc, evListen, ev, timerVars, m_user_count,
                 connVars, poolVars, workVars, idle>>

BatchHandled == ~evListen /\ ~evSignal /\ \A fd \in Fd : ev[fd] = "none"

NextRound == mpc' = IF stop_server THEN "stopped" ELSE "wait"

\* The batch is handled and no timeout was signalled.
EndBatch ==
  /\ mpc = "batch" /\ BatchHandled /\ ~timeout
  /\ NextRound
  /\ UNCHANGED <<kernelVars, signalVars, evListen, evSignal, timeout, stop_server, ev,
                 timerVars, m_user_count, connVars, poolVars, workVars, idle>>

\* A bug to catch: the timers are handled before the rest of the batch.
TimeToTick_Early == timeout

TimeToTick == BatchHandled /\ timeout

\* A bug to catch: timer_handler() does not set the alarm again.
SetAlarm_Not == UNCHANGED alarm

SetAlarm == alarm' = TRUE

\* The batch is handled: tick(), which closes the connections whose timers have
\* expired, then alarm(TIMESLOT).
TimerHandler ==
  /\ mpc = "batch" /\ TimeToTick
  /\ CbFunc({fdOf[t] : t \in Timers!Expired}, Cardinality(Timers!Expired))
  /\ Timers!Tick
  /\ FreeTimers
  /\ SetAlarm
  /\ timeout' = FALSE
  /\ NextRound
  /\ UNCHANGED <<sigpipe, evListen, evSignal, stop_server, ev, connVars,
                 poolVars, workVars>>

-----------------------------------------------------------------------------
(* A worker: http_conn::process() of users[running[w]] *)

Goto(w, label) == wpc' = [wpc EXCEPT ![w] = label]

Take(w) ==
  /\ mpc # "stopped"
  /\ wpc[w] = "idle"
  /\ Pool!Take(w)
  /\ Goto(w, "process")
  /\ UNCHANGED <<kernelVars, signalVars, loopVars, ev, timerVars, m_user_count,
                 connVars, load, idle>>

\* process_read() needs more of the request.
NeedsMore(w) ==
  /\ mpc # "stopped"
  /\ wpc[w] = "process"
  /\ Goto(w, "modin")
  /\ UNCHANGED <<kernelVars, signalVars, loopVars, ev, timerVars, m_user_count,
                 connVars, poolVars, load, idle>>

\* process_read() and process_write() leave a response to send.
Respond(w) ==
  /\ mpc # "stopped"
  /\ wpc[w] = "process"
  /\ \E r \in {"close", "keep-alive"} :
       response' = [response EXCEPT ![running[w]] = r]
  /\ Goto(w, "modout")
  /\ UNCHANGED <<kernelVars, signalVars, loopVars, ev, timerVars, m_user_count,
                 m_sockfd, poolVars, load, idle>>

\* process_write() fails: close_conn() unless the connection is closed already.
RespondFails(w) ==
  /\ mpc # "stopped"
  /\ wpc[w] = "process"
  /\ ServesEmptyFile
  /\ Goto(w, IF m_sockfd[running[w]] = None THEN "modout" ELSE "removefd")
  /\ UNCHANGED <<kernelVars, signalVars, loopVars, ev, timerVars, m_user_count,
                 connVars, poolVars, load, idle>>

\* close_conn(): removefd().  The connection's timer stays in the list.
Removefd(w) ==
  LET fd == running[w] IN
  /\ mpc # "stopped"
  /\ wpc[w] = "removefd"
  /\ IF m_sockfd[fd] = None THEN UNCHANGED kernelVars
     ELSE open' = open \ {fd} /\ epoll' = [epoll EXCEPT ![fd] = "none"]
  /\ IF m_sockfd[fd] = None THEN UNCHANGED idle ELSE ForgetIdle({fd})
  /\ Goto(w, "clear")
  /\ UNCHANGED <<signalVars, loopVars, ev, timerVars, m_user_count, connVars,
                 poolVars, load>>

\* 'm_sockfd = -1', and the load of m_user_count
Clear(w) ==
  /\ mpc # "stopped"
  /\ wpc[w] = "clear"
  /\ m_sockfd' = [m_sockfd EXCEPT ![running[w]] = None]
  /\ load' = [load EXCEPT ![w] = m_user_count]
  /\ Goto(w, "count")
  /\ UNCHANGED <<kernelVars, signalVars, loopVars, ev, timerVars, m_user_count,
                 response, poolVars, idle>>

\* The store of m_user_count, which is not atomic: it undoes what the others stored
\* since the load, or is itself undone.
Count(w) ==
  /\ mpc # "stopped"
  /\ wpc[w] = "count"
  /\ m_user_count' \in {load[w] - 1, m_user_count}
  /\ load' = [load EXCEPT ![w] = 0]
  /\ Goto(w, "modout")
  /\ UNCHANGED <<kernelVars, signalVars, loopVars, ev, timerVars, connVars, poolVars,
                 idle>>

\* modfd(), the last step of process()
Rearm(w) ==
  /\ mpc # "stopped"
  /\ wpc[w] \in {"modin", "modout"}
  /\ Modfd(running[w], IF wpc[w] = "modin" THEN "in" ELSE "out")
  /\ Pool!Finish(w)
  /\ Goto(w, "idle")
  /\ UNCHANGED <<open, signalVars, loopVars, ev, timerVars, m_user_count, connVars,
                 load, idle>>

-----------------------------------------------------------------------------
Environment == ClockTick \/ SigAlarm \/ SigTerm

Handler ==
  \/ \E fd \in Fd, t \in Timer : Accept(fd, t)
  \/ AcceptNone
  \/ \E fd \in Fd :
       \/ HandleHup(fd)
       \/ HandleRead(fd) \/ HandleReadFails(fd)
       \/ HandleWriteNothing(fd) \/ HandleWriteBlocked(fd)
       \/ HandleWriteKeepAlive(fd) \/ HandleWriteClose(fd)
  \/ HandleSignal
  \/ EndBatch
  \/ TimerHandler

Process(w) ==
  \/ Take(w)
  \/ NeedsMore(w) \/ Respond(w) \/ RespondFails(w)
  \/ Removefd(w) \/ Clear(w) \/ Count(w)
  \/ Rearm(w)

Step ==
  \/ Environment
  \/ EpollWait
  \/ Handler
  \/ \E w \in Worker : Process(w)

Next == Step /\ UNCHANGED timely

Spec == Init /\ [][Next]_vars

(***************************************************************************)
(* Fairness: time passes, a pending alarm is delivered, epoll_wait()       *)
(* returns when the signal pipe is readable (it is level-triggered), and   *)
(* the event loop's thread keeps running its handlers.  Nothing is asked   *)
(* of the peers, nor of the workers.                                       *)
(***************************************************************************)
LiveSpec ==
  /\ Spec
  /\ WF_vars(ClockTick /\ UNCHANGED timely)
  /\ WF_vars(SigAlarm /\ UNCHANGED timely)
  /\ WF_vars(sigpipe # {} /\ EpollWait /\ UNCHANGED timely)
  /\ WF_vars(Handler /\ UNCHANGED timely)

-----------------------------------------------------------------------------
(* Properties *)

HasTimer(fd) == timerOf[fd] \in DOMAIN due /\ fdOf[timerOf[fd]] = fd

\* Every open connection has a timer in the list that will close it, whatever the
\* workers close behind the event loop's back and whatever descriptor is reused:
\* a connection that is never heard of again cannot leak.
TimerCoverage == \A fd \in open : HasTimer(fd)

\* users_timer[fd].timer is never reset when the timer is freed, and every handler
\* dereferences it: while an event of fd waits in the batch, the timer it will find
\* there is allocated and is fd's.
BatchTimerLive == \A fd \in Fd : ev[fd] # "none" => HasTimer(fd)

\* m_user_count, which dealclientdata() compares with MAX_FD, is the number of open
\* connections, although connections are closed in four places.
UserCountExact == m_user_count = Cardinality(open)

\* EPOLLONESHOT at work: a connection is with the kernel or in the batch, or queued,
\* or with one worker, and in one of these places only, so no two threads ever use
\* its http_conn at once, as long as requests are answered before their timers expire.
Holders(fd) ==
  Cardinality({w \in Worker : running[w] = fd})
  + Cardinality({i \in DOMAIN backlog : backlog[i] = fd})
  + (IF epoll[fd] \in Armed \/ ev[fd] # "none" THEN 1 ELSE 0)
ExclusiveConnection == timely => \A fd \in Fd : Holders(fd) <= 1

\* The timer's callback closes inactive connections: one that tick() closes has had
\* no event for its whole lifetime.
TimerClosesOnlyInactive ==
  [][TimerHandler => \A fd \in open \ open' : idle[fd] >= Lifetime]_vars

\* A connection with no event is closed in the end, also when its request was
\* dropped by a full pool and its one-shot registration will never fire again.
IdleConnectionsReaped ==
  \A fd \in Fd :
    fd \in open ~> \/ fd \notin open
                   \/ ev[fd] # "none"
                   \/ mpc = "stopped"
=============================================================================
