------------------------------ MODULE Accounts ------------------------------
(***************************************************************************)
(* From start-up to answer: main() fills the pool of database connections  *)
(* and reads the table of users into the map users (http_conn.cpp:16), and *)
(* the workers' do_request() log users in and register them.  The process  *)
(* may die on the way and be started again.                                *)
(*                                                                         *)
(* The database is external.  A request is a form that was posted: "digit",*)
(* the character after the last '/' of its URL, says what is asked, 2 to   *)
(* log in and 3 to register.  All other requests leave this state alone.   *)
(***************************************************************************)
EXTENDS ConnectionPool

CONSTANTS
  Main,       \* the thread of main()
  Worker,     \* the threads of the pool of workers
  Name, Password

ASSUME AccountsAssumption ==
  /\ Thread = {Main}
  /\ Worker # {} /\ None \notin Worker

VARIABLES
  phase,      \* of main(): "connect", "select", "listen", "serve" or "dead"
  sql_num,    \* the option -s
  table,      \* the table user of the database
  users, m_lock,
  wpc,        \* where each worker is in do_request()
  request,    \* the request of each worker
  m_url       \* the page do_request() has put in its place

registry == <<users, m_lock>>
workers == <<wpc, request, m_url>>
vars == <<poolVars, phase, sql_num, table, registry, workers>>

Request == [digit : {"2", "3"}, name : Name, password : Password]
Page == {"/welcome.html", "/logError.html",
         "/log.html", "registerError.html", "/registerError.html"}
Account == UNION {[S -> Password] : S \in SUBSET Name}
NoAccount == [n \in {} |-> None]

AccountsTypeOK ==
  /\ PoolTypeOK
  /\ phase \in {"connect", "select", "listen", "serve", "dead"}
  /\ sql_num \in 0..Cardinality(Conn)
  /\ table \in Account /\ users \in Account
  /\ m_lock \in Worker \cup {None}
  /\ wpc \in [Worker -> {"idle", "find", "lock", "query", "insert", "answer"}]
  /\ request \in [Worker -> Request \cup {None}]
  /\ m_url \in [Worker -> Page \cup {None}]

Init ==
  /\ PoolInit
  /\ phase = "connect"
  /\ sql_num \in 0..Cardinality(Conn)
  /\ table \in Account
  /\ users = NoAccount /\ m_lock = None
  /\ wpc = [w \in Worker |-> "idle"]
  /\ request = [w \in Worker |-> None]
  /\ m_url = [w \in Worker |-> None]

\* The process ends, and its memory with it.
Die ==
  /\ phase' = "dead"
  /\ connList' = <<>> /\ m_FreeConn' = 0 /\ m_CurConn' = 0
  /\ lock' = None /\ reserve' = 0 /\ ready' = FALSE
  /\ tpc' = [t \in Thread |-> "out"] /\ con' = [t \in Thread |-> None]
  /\ users' = NoAccount /\ m_lock' = None
  /\ wpc' = [w \in Worker |-> "idle"]
  /\ request' = [w \in Worker |-> None]
  /\ m_url' = [w \in Worker |-> None]
  /\ UNCHANGED <<sql_num, table>>

-----------------------------------------------------------------------------
(* main(): WebServer::sql_pool(), thread_pool(), eventListen() *)

Phase(p) == phase' = p /\ UNCHANGED <<sql_num, table, m_lock, workers>>

\* connection_pool::init()
Connect ==
  /\ phase = "connect"
  /\ m_FreeConn < sql_num
  /\ \E c \in Conn : AddConnection(c)
  /\ UNCHANGED <<phase, sql_num, table, registry, workers>>

\* mysql_init() or mysql_real_connect() returns NULL: exit(1).
ConnectFails == phase = "connect" /\ m_FreeConn < sql_num /\ Die

PoolReady ==
  /\ phase = "connect"
  /\ m_FreeConn >= sql_num
  /\ SetReserve
  /\ Phase("select") /\ UNCHANGED users

\* http_conn::initmysql_result(): the constructor of connectionRAII
GetConnection ==
  /\ phase = "select"
  /\ Get(Main)
  /\ UNCHANGED <<phase, sql_num, table, registry, workers>>

\* No connection was made: the query is given NULL.
NoConnection == phase = "select" /\ FindsNone(Main) /\ Die

\* The query and the loop over its result; users may hold nothing else yet.
Select ==
  /\ phase = "select"
  /\ tpc[Main] = "in"
  /\ users' = table
  /\ Phase("listen") /\ UNCHANGED poolVars

\* A bug to catch: the server starts without the users it could not read.
SelectFails_GoesOn ==
  /\ phase = "select"
  /\ tpc[Main] = "in"
  /\ Phase("listen") /\ UNCHANGED <<poolVars, users>>

\* The error is logged and ignored, and the next call is given a NULL result.
SelectFails == phase = "select" /\ tpc[Main] = "in" /\ Die

\* The destructor of connectionRAII, at the end of initmysql_result()
ReleaseConnection ==
  /\ phase = "listen"
  /\ Release(Main)
  /\ UNCHANGED <<phase, sql_num, table, registry, workers>>

\* thread_pool() and eventListen()
Listen ==
  /\ phase = "listen" /\ tpc[Main] = "out"
  /\ Phase("serve") /\ UNCHANGED <<poolVars, users>>

\* An assertion of eventListen() fails.
ListenFails == phase = "listen" /\ tpc[Main] = "out" /\ Die

\* SIGTERM: main() returns under the workers.
Stop == phase = "serve" /\ Die

Restart == phase = "dead" /\ Phase("connect") /\ UNCHANGED <<poolVars, users>>

-----------------------------------------------------------------------------
(* do_request(), in worker w *)

Goto(w, label) ==
  wpc' = [wpc EXCEPT ![w] = label] /\ UNCHANGED <<poolVars, phase, sql_num, request>>
SetUrl(w, url) == m_url' = [m_url EXCEPT ![w] = url]

\* process_read() has a form with a name and a password.
Begin(w, r) ==
  /\ phase = "serve" /\ wpc[w] = "idle"
  /\ wpc' = [wpc EXCEPT ![w] = "find"]
  /\ request' = [request EXCEPT ![w] = r]
  /\ UNCHANGED <<poolVars, phase, sql_num, table, registry, m_url>>

Known(w) == request[w].name \in DOMAIN users
Correct(w) == Known(w) /\ users[request[w].name] = request[w].password

\* A lookup takes no lock.  Against an insert() that moves the tree's links it may miss
\* a name that is there.
Raced(w) == \E v \in Worker \ {w} : wpc[v] = "insert"

RegisterKnown(w) ==
  /\ wpc[w] = "find" /\ request[w].digit = "3"
  /\ Known(w)
  /\ SetUrl(w, "/registerError.html")
  /\ Goto(w, "answer")
  /\ UNCHANGED <<table, registry>>

RegisterNew(w) ==
  /\ wpc[w] = "find" /\ request[w].digit = "3"
  /\ ~Known(w) \/ Raced(w)
  /\ Goto(w, "lock")
  /\ UNCHANGED <<table, registry, m_url>>

\* A bug to catch: it is enough to be registered.
Welcome_Known(w) == Known(w)

Welcome(w) == Correct(w)

Login(w) ==
  /\ wpc[w] = "find" /\ request[w].digit = "2"
  /\ \/ Welcome(w) /\ SetUrl(w, "/welcome.html")
     \/ (~Welcome(w) \/ Raced(w)) /\ SetUrl(w, "/logError.html")
  /\ Goto(w, "answer")
  /\ UNCHANGED <<table, registry>>

LockUsers(w) ==
  /\ wpc[w] = "lock"
  /\ m_lock = None
  /\ m_lock' = w
  /\ Goto(w, "query")
  /\ UNCHANGED <<table, users, m_url>>

\* http_conn::mysql: init() sets it to NULL, and nothing sets it to a connection.
mysql == None

\* The row that an INSERT adds
Added(map, r) ==
  [n \in DOMAIN map \cup {r.name} |-> IF n \in DOMAIN map THEN map[n] ELSE r.password]

\* A bug to catch: a second registration replaces the password.
Insert_Overwrites(w) ==
  [n \in DOMAIN users \cup {request[w].name} |->
     IF n = request[w].name THEN request[w].password ELSE users[n]]

\* map::insert() leaves a name that it finds alone.
Inserted(w) == Added(users, request[w])

\* mysql_query() of the INSERT: an error, if it is given NULL.  The name of the error
\* page has no '/'.
Query(w) ==
  /\ wpc[w] = "query"
  /\ \E res \in BOOLEAN :
       /\ mysql = None => ~res
       /\ table' = IF res THEN Added(table, request[w]) ELSE table
       /\ SetUrl(w, IF res THEN "/log.html" ELSE "registerError.html")
  /\ Goto(w, "insert")
  /\ UNCHANGED <<registry>>

\* A bug to catch: the lock is not given back.
Unlocked_Not == m_lock

Unlocked == None

\* Whatever the database said, the name is added to the map.
Insert(w) ==
  /\ wpc[w] = "insert"
  /\ users' = Inserted(w)
  /\ m_lock' = Unlocked
  /\ Goto(w, "answer")
  /\ UNCHANGED <<table, m_url>>

\* The query of a NULL connection, or a lookup that follows a link being moved
RequestDies(w) ==
  /\ (wpc[w] = "query" /\ mysql = None) \/ (wpc[w] = "find" /\ Raced(w))
  /\ Die

\* The answer goes to process_write(), and after it init() forgets the request.
Answer(w) ==
  /\ wpc[w] = "answer"
  /\ wpc' = [wpc EXCEPT ![w] = "idle"]
  /\ request' = [request EXCEPT ![w] = None]
  /\ SetUrl(w, None)
  /\ UNCHANGED <<poolVars, phase, sql_num, table, registry>>

DoRequest(w) ==
  \/ RegisterKnown(w) \/ RegisterNew(w) \/ Login(w)
  \/ LockUsers(w) \/ Query(w) \/ Insert(w)
  \/ Answer(w)

Next ==
  \/ Connect \/ ConnectFails \/ PoolReady
  \/ GetConnection \/ NoConnection
  \/ Select \/ SelectFails
  \/ ReleaseConnection
  \/ Listen \/ ListenFails
  \/ Stop \/ Restart
  \/ \E w \in Worker :
       \/ \E r \in Request : Begin(w, r)
       \/ DoRequest(w)
       \/ RequestDies(w)

Spec == Init /\ [][Next]_vars

(***************************************************************************)
(* A worker goes on unless it waits for m_lock, and a mutex that is free   *)
(* again and again is obtained.                                            *)
(***************************************************************************)
LiveSpec ==
  Spec /\ \A w \in Worker : WF_vars(DoRequest(w)) /\ SF_vars(LockUsers(w))

-----------------------------------------------------------------------------
(* Properties *)

\* The server listens only once the map holds every user of the database: a start-up
\* without connections, or whose query fails, does not get that far.
StartedMeansLoaded ==
  phase \in {"listen", "serve"} =>
    \A n \in DOMAIN table : n \in DOMAIN users /\ users[n] = table[n]

\* As long as the process lives, the password of a known name stays what it is, although
\* workers may look the name up before they lock the map, and all find it new.
PasswordsKept ==
  [][phase' = "serve" => \A n \in DOMAIN users : n \in DOMAIN users' /\ users'[n] = users[n]]_vars

\* Who logs in to welcome.html is registered with that password, whatever was
\* registered in the meantime.
WelcomeIsRegistered ==
  \A w \in Worker : wpc[w] = "answer" /\ m_url[w] = "/welcome.html" => Correct(w)

\* Every request is answered, or dies with the process.
EveryRequestAnswered == \A w \in Worker : wpc[w] # "idle" ~> wpc[w] = "idle"

\* A name that is not in the table yet is added to it: one that a worker found new, and
\* whose INSERT was tried, is there.
NewNamesAreAdded ==
  \A w \in Worker : wpc[w] = "insert" => request[w].name \in DOMAIN table
=============================================================================
