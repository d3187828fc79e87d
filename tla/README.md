# A TLA+ model of hxqWebserver

The server is one C++ process: an event loop on epoll, a pool of worker threads, a sorted list of
timers that closes idle connections, a log that may be written by a thread of its own, and MySQL
for users. This directory holds TLA+ modules translated from its source, the TLC configurations
that check them on small instances, and TLAPS proofs of what matters most for every value of the
constants. `PROJECT.json` maps every definition to the lines it models and lists the runs, the
hazards, the findings and the theorems.

## 1. The system

| Component | Source | State | Operations |
|---|---|---|---|
| Event loop | `webserver.cpp` | `users_timer[]`, `timeout`, `stop_server`, epoll registrations, the batch of events | `eventLoop`, `dealclientdata`, `dealwithread`, `dealwithwrite`, `dealwithsignal`, `timer`, `adjust_timer`, `deal_timer` |
| Connection | `http_conn/` | `m_sockfd`, buffers and indexes, `m_check_state`, `m_iv`, `bytes_to_send`, `m_file_address`, static `m_user_count` | `init`, `read`, `process` (`process_read`, `do_request`, `process_write`), `write`, `close_conn` |
| Thread pool | `threadpool/`, `locker/` | `m_workqueue`, mutex, semaphore | `append`, `run` |
| Timer list | `timer/lst_timer` | `head`, `tail`, links, `expire` | `add_timer`, `adjust_timer`, `del_timer`, `tick` |
| Signals | `timer/lst_timer` (`Utils`) | the alarm, the pipe | `sig_handler`, `timer_handler` |
| Blocking queue | `log/block_queue.h` | circular array, mutex, condition variable | `push`, two `pop`s, `clear`, `full` |
| Log | `log/log` | `m_count`, `m_today`, `m_fp`, the queue | `write_log`, `async_write_log` |
| User registry | `http_conn.cpp` | `users` map, `m_lock` | `initmysql_result`; login and registration in `do_request` |
| Database pool | `mysql/` | `connList`, mutex, semaphore, `m_FreeConn`, `m_CurConn` | `init`, `GetConnection`, `ReleaseConnection`, `connectionRAII` |
| Start-up | `main.cpp`, `config/` | – | parses arguments, calls the initialisers |

How they interact. The event loop reads a request into the `http_conn` of the descriptor and
appends a pointer to it to the pool's queue. A worker runs `process()` on it and re-arms the
descriptor in epoll, for reading or for writing, or closes it. The event loop writes the
response. The event loop alone touches the timer list; the workers alone call `close_conn()`.
`EPOLLONESHOT` is meant to keep an `http_conn` with one thread at a time. Signals reach the loop
through a socket pair, and the timers are handled at the end of a batch of events. `main()` fills
the database pool and borrows one of its connections to read the users; the workers never take
one: the INSERT of a registration goes over `http_conn::mysql`, which is always NULL.

What is hard, and what correctness is, component by component:

* *Event loop and connections*: workers close descriptors and re-arm them while the loop closes,
  accepts and reinitialises the same ones. Correct: every open connection has a timer that will
  close it, no handler follows a freed timer, one thread per connection, the count of users is
  right, the timer closes idle connections and only those.
* *Thread pool*: the `post()` comes after the unlock, a wait can be interrupted by a signal, and
  `append()` may refuse. Correct: a FIFO dispatcher without lost
  wakeups, with a queue that stays near its limit.
* *Timer list*: pointer surgery, a clock that may go backwards. Correct: a sorted, well linked list
  that is the set of timers it should be.
* *Parser*: TCP cuts a request anywhere. Correct: the result does not depend on the cuts.
* *Writer*: `writev()` takes any part. Correct: the client receives the response and nothing else.
* *Both*: `init()` readies the same object, field by field, for the next request and the next
  connection. Correct: nothing of one is seen in the next, and a file is mapped as long as it is
  sent and no longer; a file that cannot be opened or mapped must not put foreign bytes in its place.
* *Users and database pool*: a map looked up without the lock that guards its insertions, a
  semaphore beside an unlocked test. Correct: no password changes, only registered users get in,
  connections come back, the server does not serve before it has the users.
* *Queue and log*: broadcast and waiting, check-then-act on the queue, the file changing between
  the count and the write, midnight. Correct: no line doubled, and none lost but for a queue that filled up.

## 2. Modules

| Module | Models | Composes or implements |
|---|---|---|
| `JobDispatch` | what the pool promises: a bounded FIFO of jobs, each taken by one worker | |
| `ThreadPool` | `append()` and `run()`, one step per access to shared state | implements `JobDispatch` |
| `TimerService` | what the list promises: a set of timers, `tick()` takes the expired | |
| `TimerList` | the linked list, pointer by pointer | implements `TimerService` |
| `Reactor` | the server: loop, epoll, connections, workers, signals | takes the pool and the timers as `JobDispatch` and `TimerService` promise them |
| `RequestParser` | `read()` and `process_read()` | |
| `ResponseWriter` | the layout of `m_iv`, `write()`, `unmap()`, `init()` | extends `RequestParser` |
| `HttpConn` | one `http_conn`, request by request and connection by connection | composes the two |
| `ConnectionPool` | the pool of database connections | |
| `Accounts` | start-up, and login and registration in `do_request()`, with deaths and restarts | uses `ConnectionPool` |
| `BoundedFifo` | what the queue promises | |
| `BlockQueue` | the circular array with its condition variable | implements `BoundedFifo` |
| `Log` | `write_log()` and the writing thread | takes the queue as `BoundedFifo` promises it |
| `...Proofs` | theorems about `ThreadPool`, `TimerList`, `Reactor`, `HttpConn`, `ConnectionPool`, `Accounts`, `BlockQueue`, `Log` | |
| `MC...` | symmetry sets and input sets for TLC | |

State carries the source's names (`m_workqueue`, `m_user_count`, `m_checked_idx`, `m_iv`, ...).
The definitions that begin with "A bug to catch" are variants of the one after them with a
plausible mistake. No specification uses them; each shows that a property can fail.

**ThreadPool.** `m_queuelocker` is the holder of the mutex, `m_queuestat` the semaphore's value,
`pc` and `request` the threads' program counters and locals. `append()` is `AppendLock`,
`AppendReject` or `AppendPush`, `AppendPost`; the loop of `run()` is `Wait`, `Lock`, `FoundEmpty`
or `Front`, `PopFront`, `Process`. The limit is tested with `>` (`OverLimit`), so the queue
holds one job more, which `TypeOK` bounds. `WaitInterrupted` is `sem_wait` failing with `EINTR`: the
handlers of `SIGALRM` and `SIGTERM` are installed without `SA_RESTART` and `run()` does not look
at the result. A holder of the mutex takes several steps, so that a missing lock would show.

**TimerList.** `list` is the record of `head`, `tail`, `prev` and `next`; the members of
`sort_timer_lst` are functions from links to links. The `while` loops are `Walk`: `Visits` is the
recursive function of the nodes that such a loop visits, and it stays at the first node that the loop stops at. Only the loop's thread calls them, so a call is one step. The clock is a variable of the
model, in slots of `TIMESLOT`. `Clock` may set it back; `ExtendOnly` restricts `adjust_timer()` to
what its own comment says it expects.

**Reactor.** A handler of the loop is one step. A worker takes one step per access to shared
state: `Take`, then `NeedsMore`, `Respond` or `RespondFails`, then `Removefd`, `Clear`, `Count` (the
three lines of `close_conn()`), then `Rearm`. `Count` makes `m_user_count--` the race it is: the
store overwrites what others stored since the load, or is overwritten. All of the interleavings of
`close_conn()` with closing, accepting and reinitialising the same descriptor are there. `epoll` is
the registration of each descriptor, "off" once the one-shot event was delivered; `ev` is the batch
not handled yet, in any order. `timerOf` is `users_timer[fd].timer`, which keeps pointing at freed
timers; `due` is the timer list with the slots each timer has left. `idle` is a history variable: the
slots since the last event handled on a connection. The only processing that can fail is
`process_write()` of an empty file, which falls through to `default` and returns false;
`ServesEmptyFile` says whether there is one. `timely` tells whether the workers answer before the
timers expire; an instance starts with any value of `Paces`, which is environment, not code.

**RequestParser, ResponseWriter, HttpConn.** A byte of a request is CR, LF, or a letter for a text
without line ends: a good or a bad request line, a header, `Connection: keep-alive`, the
Content-Length header, a byte of the body. `Read(n)` lets the first n bytes have arrived, so every
way to cut the request is explored; there is no `Read` past `READ_BUFFER_SIZE`, only `Abort`. `ParseLine`
is `parse_line()`, both of its branches; `NoLine` ends `process_read()`; `Content` is
`parse_content()` with the `LINE_OPEN` that follows it. A block of `m_iv` is an offset and a length; a
byte of a response is its position, and 0 is memory that belongs to nothing. `Writev(k)` takes the
first k bytes offered and `Advance` is the code's arithmetic on the blocks. `WholeHeader` is the assumption
that `writev()` never splits the header, which is usual (it is short) and not guaranteed. `InitConn` is
`init()`, with what it forgets to reset; `AddResponse` appends at `m_write_idx`, so an index that is not reset would show.
`MapFile` is the unchecked `open()` and `mmap()` of `do_request()`: they may fail (`EMFILE`, `ENOMEM`), and the response then
promises a file whose address is `MAP_FAILED`; `writev()` sends no more than the header of it (`Readable`) and then
fails with `EFAULT`, one of the `WritevErrors`, which like every other re-arms the descriptor for `EPOLLOUT`.
That the kernel may refuse such a call before it takes the header is the other choice of the model. `HttpConn` goes round: `Request`, `Parse`, `Send`, then `init()`
and the next request, or the close, and `Reopen` for the next connection that gets the descriptor.
`ProperRequest` is a request as a browser sends it: in its head lines end with CR LF and with nothing else, and
a body is announced by Content-Length; the proofs about whole requests suppose it, and TLC evaluates it for the
requests of `conn`.
`Abort` closes at any point at which another handler may; `stale` remembers that an
aborted response left its file mapped.

**ConnectionPool, Accounts.** `GetConnection()` is `FindsSome` or `FindsNone` (the test of the list
without the mutex), `Wait`, `Enter`, `Pop`; `ReleaseConnection()` is `Enter`, `Push`, `Post`. `Thread` is a
parameter; the server has one such thread, `main()`. `Accounts` has `phase` for `main()`'s calls up to the
event loop and `wpc` for where each worker is in `do_request()`. A request is a form with a name and a password,
and the character of its URL that says log in or register; `m_url` is the page that the form is answered with. The
other requests, and the name of the file of each page, touch no state of this module and are left out. Every failure that the code meets with
`exit(1)`, an assertion or a NULL pointer is `Die`, which empties the memory and leaves the `table` of the
database; `Restart` begins again. `Raced` is a lookup beside an `insert()`, undefined behaviour: it may
miss the name, or end the process. `Query` gives the database what `mysql` is; if it is
given NULL the query fails or the process dies.

**BlockQueue.** A method is one critical section and so one action; `pop()` gives the mutex up
when it waits and starts again when woken, by a broadcast or for no reason. The `pop()` with a
timeout and `clear()` are modelled though the server does not call them.

**Log.** A line is <<thread, number>>. `write_log()` is `Call` (the time), `LocalTime` and `CopyTime`
(`localtime()`'s buffer is shared by all threads), `CountLine` (first critical section), `TestFull`
and `Push`, or `Fputs`. `m_is_async` is chosen once, as `init()` does. The writer is `WriterPop`,
`WriterFputs`. `Midnight` is the environment.

## 3. Runs

Every run finishes in well under five minutes on two workers.

| Run | Configuration | Instance | Distinct states | Shows |
|---|---|---|---|---|
| `pool` | `ThreadPool.cfg` | 3 workers, 2 callers, 2 jobs, limit 1 | 42 142 | `TypeOK`, `LockHeldIffInside`, `NoLostWakeup`, the refinement `DispatchesInOrder`, the liveness `EveryJobRuns` |
| `timers` | `MCTimerList.cfg` | 4 timers, clock 0..4, lifetime 2 | 635 | `TypeOK`, `WellLinked`, `SortedByExpiry`, the refinement `ServesTimers` |
| `reactor` | `MCReactor.cfg` | 1 descriptor, 1 worker, 2 timers, an empty file | 491 890 | `TypeOK`, `TimerCoverage`, `BatchTimerLive`, the liveness `IdleConnectionsReaped` |
| `reactor_files` | `MCReactorFiles.cfg` | 2 descriptors, 1 worker, no empty file, edge-triggered listening, both `Paces` | 2 379 828 | `UserCountExact`, `ExclusiveConnection`, the action property `TimerClosesOnlyInactive` |
| `reactor_orphan` | `MCReactorOrphan.cfg` | 1 descriptor, an empty file, workers faster than the timers | | **violated** `TimerClosesOnlyInactive` |
| `conn` | `MCHttpConn.cfg` | 7 requests, a buffer of 12, headers of 1 and 3 bytes, files of 1 and 4 | 206 140 | `TypeOK`, `AcceptsWholeRequest`, `LineStartsAfterLine`, `AnswersWithoutBody`, `SentIsPrefix`, `IdleMeansComplete`, `FileMapped`, `MappingReleased`, the action property `KeptOnlyIfAsked` |
| `parser_body` | `MCHttpConnBody.cfg` | the same | | **violated** `AnswersWithBody` |
| `writer_partial` | `MCHttpConnPartial.cfg` | the same, the header may be split | | **violated** `SentIsPrefix` |
| `accounts` | `MCAccounts.cfg` | `main()`, 1 connection, 2 workers, 2 names, 2 passwords | 19 784 | `AccountsTypeOK`, `StartedMeansLoaded`, `WelcomeIsRegistered`, `ConnectionsReturned`, the action property `PasswordsKept`, the liveness `EveryRequestAnswered` |
| `accounts_stored` | `MCAccountsStored.cfg` | the same | | **violated** `NewNamesAreAdded` |
| `queue` | `BlockQueue.cfg` | 2 consumers, 2 items, 3 places | 14 247 | `TypeOK`, `NoSleepOverItem`, the refinement `QueueIsFifo`, the liveness `QueueServed` |
| `log` | `MCLog.cfg` | 2 threads of 3 lines, a queue of 1, 2 lines a file, 2 days, both modes | 1 607 984 | `TypeOK`, `NoLineTwice`, `NoLineLost`, `FilesNearSplit` |

**Bounds, and why they are enough.** The pool needs two workers to race for a job, a third for one
that arrives late, two callers to race, and more jobs in the queue than the limit allows. `MaxPermits`
stops interrupted waits only when permits are plenty already. Four timers give every position of the
list (first, last, two in the middle). In `reactor` one descriptor is enough for the hard case, its reuse
while a worker, an event and an old timer still refer to it, and two timers are the old and the
new; `reactor_files` has two connections in a batch and closed by the same `tick()`. `MaxFd` and
`MinCount` keep the user count, which drifts when updates are lost, within a range in which connections
are accepted. Of the seven requests of `conn` one is bad, four have a body, one of these a stray LF in it, and
one is longer than the buffer (and one fills it exactly); some of each kind ask to keep the connection, so that
any request comes after them. The responses are blocks of one byte and of several, with cuts at the first, last and middle ones. Two workers
and two names give every race on the map; the name that the table does not have yet is the other's
or the same. `log` has lines for three files; the bound of `FilesNearSplit` is reached: one less is
violated.

**Deadlock.** It is checked except where the system really may stop: `Reactor` (SIGTERM ends the
loop) and `Log` (the threads have no more to log, by the bound `MaxLines`).

**Fairness.** `ThreadPool!LiveSpec`: a thread that can go on goes on; strong fairness for `Lock`, since a
mutex free again and again is obtained. `Reactor!LiveSpec`: time passes, the alarm is delivered,
`epoll_wait()` reports the signal pipe, which is registered level-triggered, and the loop goes on. Nothing is
assumed of peers or workers: the loop never waits for a worker. `Accounts!LiveSpec`: a worker in
`do_request()` goes on unless it waits for `m_lock`, which it obtains if it is free again and again; nothing is assumed of
clients, of the database or of `main()`. `BlockQueue!LiveSpec`: a consumer loops round one of the
`pop()`s, as the writing thread of the log does.

## 4. Findings

Four runs show the code doing what its comments say it does not:

* `reactor_orphan`: `close_conn()` in a worker (`http_conn.cpp:86`) leaves the connection's timer in
  the list; it closes the next connection of that descriptor, active or not (`lst_timer.cpp:189`).
* `parser_body`: a body that arrives after the headers, in two pieces, is never complete, because
  `parse_line()` (`http_conn.cpp:298`) runs over the first piece, and the length is counted from
  where it stopped (`http_conn.cpp:282`).
* `writer_partial`: after a partial header the length that is left goes to the wrong block
  (`http_conn.cpp:519`).
* `accounts_stored`: a registration is sent to the database over a NULL connection
  (`http_conn.cpp:391`): the new name is in the map, and gone after a restart.

The modules follow the code in these departures too, and the properties are stated around them:

* a clock that is set back makes `adjust_timer()` shorten a timer, which its comment excludes; the
  constant `ExtendOnly` keeps `TimerList` to what the comment asks for;
* `errno = EAGAIN` assigns, so that after any error the connection waits for `EPOLLOUT` (`FailedWritev`);
* a file that could not be opened or mapped is promised all the same, and its response never completes: each `EPOLLOUT` finds
  `EFAULT` again. `FileMapped` says that the file is mapped or that nothing but the header is sent;
* a response that is aborted leaves its file mapped, which `MappingReleased` excepts (`stale`);
* workers slower than the timers do share an `http_conn` with the next connection:
  `ExclusiveConnection` is stated for `timely` ones;
* an error page for a name that could not be inserted has a name without '/', so that no file is found (`Query`);
* a line is lost when the queue fills up between `full()` and `push()`, which `NoLineLost` names as the only way to lose one;
* a line may be written to the file after the one it was counted for, so a file exceeds
  `m_split_lines` by as many lines as `FilesNearSplit` says;
* around midnight a thread that took the time before it sets `m_today` back and reopens yesterday's
  file, which `FilesNearSplit` excludes and `NoLineLost` does not.

## 5. Proofs

Everything is proved for every value of the constants that satisfies the modules' assumptions (finite sets of
threads, descriptors and timers, limits that are numbers, lifetimes of at least a slot, `None` being
nobody). Each module of proofs has one inductive invariant or a chain of them, checked by TLC before
it was proved, and one step for each action.

**ThreadPoolProofs**: `TypeCorrect`, `MutexDiscipline`, `NoWakeupIsLost`, `PoolDispatchesInOrder`. The
invariant is `PoolInv`: the types; that the mutex is held exactly by the thread inside; that locals are
set where they are used (`LocalsHeld`); that between `front()` and `pop_front()` the worker's `request`
is still the head of the queue (`HeadPinned`), which holds because of the mutex and is what makes the two
calls one step of `JobDispatch`. `NoLostWakeup` needs the mutex, to know that the worker that unlinks a job is
one of those counted as on its way. The refinement maps the queue to the backlog and a worker in
`process()` to a running one; `PopFront` is `Take`, `Process` is `Finish`, `AppendPush` is `Submit`, all
else stutters. `TypeCorrect` includes the bound of the queue: its length is tested under the mutex that
`AppendPush` still holds, and one job is added.

**ReactorProofs**: `ReactorTypeCorrect`, `NoConnectionLeaks` (`TimerCoverage`), `NoDanglingTimer`
(`BatchTimerLive`), and without an empty file to serve `UserCountIsExact`, `OnlyIdleConnectionsAreClosed`
and `OneThreadPerConnection`. `TimerCoverage` is not inductive: `epoll_wait()` puts a connection into
the batch because it is registered, so registration must imply that it is open (`RegisteredIsOpen`),
and a handler deletes `users_timer[fd].timer`, which must be in the list and be the descriptor's own
even if a worker closed it after the event was reported (`BatchTimerLive`); `BusyWorkers` says that
a worker in `process()` has a connection. These with the types are `TimerInv`. Without empty files no
worker closes (`NoWorkerCloses`), so the timers in the list are those of the open connections and no other
(`TimersOfOpen`); then the set that `tick()` closes is as large as the drop of the count, which is
`CountInv`, and what a timer has left is what its connection was not idle. `PlaceInv` says that a connection is
registered, in the batch, in the queue or with a worker, in one of these at once (`OnePlace`), and that what is
in the queue is open (`PoolHasOpen`), as long as the workers are timely.

**TimerListProofs**: `ListTypeCorrect` and `ListIsWellLinked` for any calls and any clock;
`ListStaysSorted` and the refinement `ListServesTimers` if `ExtendOnly \/ ~ClockSetBack`, because an expiry that is
brought forward is left where it was by `adjust_timer()`, which looks at the next timer only. A list is described
by its chain (`IsChain(l, s, k)`): the sequence `s` of its `k` nodes from `head` to `tail`, with the links
that these imply, NULL at both ends. One lemma for each member function says what it makes of a chain: a node
inserted at a place, one removed, the first ones dropped by `tick()`. Where a loop along `next` stops (`Walk`) needs an
induction along the list; the library's induction theorems cannot be used (see below), so it is done by hand from one fact,
that a nonempty set of numbers has a least member (`LeastNumber`, from the well-foundedness of <). The invariant `ListInv` says
that there is a chain of exactly the allocated timers (`Chained`), sorted under the condition above, and that without
set-back no expiry is later than a lifetime from now: that is why `add_timer()` with a fresh lifetime is at
home at the end and `adjust_timer()` may skip the nodes before. The refinement maps the list to its
set of nodes and their expiries; `TickLeaves` shows that the loop of `tick()`, which stops at the first timer that is
not due, has passed all that are.

**HttpConnProofs**, for any set of requests, sizes of files, headers and buffer. The invariants come in three layers.

The parser's (`ParserInv`) has the indexes in order, and what `init()` must have reset when the connection is idle. It
needs no hypothesis, and nor does `MappingInv`: `EveryLineStartsAfterALine`, `KeptForThisRequest`,
`EveryMappingIsReleased`.

`RequestInv` adds where in the head the parser is, for proper requests (`ProperRequests`): `OnlyWholeRequestsAreAccepted`
(`AcceptsWholeRequest`) and `RequestWithoutBodyIsAnswered` (`AnswersWithoutBody`). The line being read starts before the
empty line and no line ends in what was looked at (`InLine`), so that `parse_line()` finds the next CR LF or all that was read
(`NextLineEnd`, `NextLine`), whatever the cut; the one line that is empty is the last of the head (`LineTaken`); the
Content-Length header was read or is still ahead (`LengthAhead`), so that at the empty line the length is the body's.
In the body the line never starts before the end of the head, so that `parse_content()` cannot be satisfied early. That it
may not be satisfied at all is the finding `parser_body`.

The writer's layer, where `writev()` does not split the header (`WholeHeader`): `ConnTypeCorrect`, `ClientReceivesPrefix`,
`IdleOwesNothing`, `FileStaysMapped` (whose other case, the mapping that failed, is that what was sent is at most the header:
`MappedOrUnsent`). It is `Sending(have, left)`: what was sent is the first `have` bytes, and the
two blocks are either the untouched header and file, or an empty header and `left` bytes of the file from
`have - m_write_idx` on. `OfferedIsLeft` concludes that what `writev()` is given is just the rest of the response, and
`Taken` that `Advance` keeps it so whatever part is taken. Without `WholeHeader` the same property is
the finding `writer_partial`.

**ConnectionPoolProofs**, for any number of threads and connections, though the server has one such thread:
`NobodySharesAConnection`, `FrontIsThere` (`front()` is not called on an empty list although the list is
tested without the mutex) and `PoolComesToRest`. The invariant counts: the permits, the threads that have one and are not
at the list yet, and the length of the list agree (`Promised`), and so do the counters and the
connections that are out (`Lent`).

**AccountsProofs**: `AccountsTypeCorrect`, `StartUpReturnsConnections`, `ServesOnlyWhenLoaded`, `KnownUsersKeepPasswords`,
`OnlyRegisteredUsersAreWelcome`. Every step of `Accounts` is a step of the pool, none, or the end of the
process, which leaves the pool as it began, so the pool's invariant carries over. `RegistryInv` says that nobody
is in `do_request()` before the server serves and that only registrations go past the lookup, so that
`insert()` is the one change of the map and leaves names that it finds alone; `m_lock` is not needed for that.

**BlockQueueProofs**: `QueueTypeCorrect`, `NobodySleepsOverAnItem`, `QueueImplementsFifo`. `Ring` ties
`m_front`, `m_back` and `m_size` together modulo the size of the array; the refinement reads the items
from behind `m_front`, and the lemmas about `%` show that a push appends there and a pop removes the first.

**LogProofs**, for any threads, lines, days and sizes: `LogTypeCorrect`, `EachLineOnce` (`NoLineTwice`),
`LinesAreKept` (`NoLineLost`), `FilesStayNearSplit` (`FilesNearSplit`). The invariant `LogInv` says where a line may be: in the files,
in the queue or with the writing thread, once and in one of these only (`FilesOnce`, `Apart`), and then its
`write_log()` has returned. So the line that a thread is about to hand on is nowhere yet (`CurrentIsNew`).
`m_count` is bounded by the lines that were counted (`Counted`), so the file that is opened has a name.
A file is only appended to, a line that leaves the queue is with the writer, and what the writer has
goes to a file before it takes another, so no step drops what was handed on; a call of `write_log()` returns from `Push` or `Fputs`, and only
the `Push` to a full queue keeps nothing. The queue is used by what `BoundedFifo`
promises, which `QueueImplementsFifo` proves of the array. `FilesNearSplit` is not inductive: how long a file gets depends on what
is still on its way to it. `FirstDay` says that before the first midnight `m_count` names the open file, that the ones
after it are empty, and that the lines in it and on their way to it (threads past the count, the queue, the writer) are no
more than those counted since it was opened and the `Late` ones that were on their way then.

Every invariant and action property that a passing run checks is stated by a theorem. Only model-checked are the four
liveness properties (`EveryJobRuns`, `IdleConnectionsReaped`, `EveryRequestAnswered`, `QueueServed`): fairness and
`ENABLED` are beyond the prover. So are the induction theorems of the library, which take an operator as a
parameter. No module of the project has a RECURSIVE operator. What the theorems suppose beyond the modules' assumptions is
named in each: no empty file for three of `Reactor`'s, `ExtendOnly \/ ~ClockSetBack`, `ProperRequests`,
`WholeHeader`.

## 6. Not modelled

* `webbench-1.5/` is a vendored benchmark client, `timer/heap_timer.*` are empty files, pages and build files have no logic.
* Start-up: the parsing of the options (a choice of their values stands for it), the trigger mode that is passed where
  `close_log` should be, and `m_close_log`, which nothing initialises.
* Event loop: the backlog of the listening socket and with it the edge that may not come, the limits of
  the arrays that descriptors index, a bound on the drift of `m_user_count` when workers close, and what detached workers do after SIGTERM while `users[]` is being freed
  (undefined; `Accounts` ends the process in one step).
* Connection: pipelined requests, whose second half `init()` throws away; the texts of requests and responses; the
  zero that `parse_content()` stores after the body; how long a connection whose peer is gone is kept, which the code does not bound.
* Users: the value that a lookup beside an `insert()` may tear; the table that gives each digit of a URL its page.
* Log: stdio's buffer and `flush()`, a failing `fopen()`, the end of the process, the texts and with them a wrong time in a line.

`PROJECT.json` says for each hazard without a property why there is none.

## 7. Plan

Done: all of the modules above, in the order of the table of section 2, and the proofs of section 5.

Left:

1. What remains true of `Reactor` with an empty file to serve: by how much `m_user_count` may drift when a worker closes,
   and that a connection is shared only with a worker that is closing it.
2. The list with a clock that is set back and timers brought forward: which timers `tick()` then misses, and that
   the next call finds them.
3. The writer's types without `WholeHeader`.
4. `Listener`: the backlog of an edge-triggered listening socket, the limit on the user count and
   the descriptors that index `users[]`.
