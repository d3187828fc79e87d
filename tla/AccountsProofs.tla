--------------------------- MODULE AccountsProofs ----------------------------
(***************************************************************************)
(* Proofs about Accounts for every set of workers, names, passwords and    *)
(* connections.  The argument for the registry: between its lookup and its *)
(* insert() a worker may have been overtaken, but insert() itself, under   *)
(* m_lock, looks again and leaves a name that it finds alone.              *)
(***************************************************************************)
EXTENDS Accounts, ConnectionPoolProofs

\* The types of what belongs to this module alone, and whose request may reach insert()
RegistryTypes ==
  /\ phase \in {"connect", "select", "listen", "serve", "dead"}
  /\ sql_num \in 0..Cardinality(Conn)
  /\ table \in Account /\ users \in Account
  /\ m_lock \in Worker \cup {None}
  /\ wpc \in [Worker -> {"idle", "find", "lock", "query", "insert", "answer"}]
  /\ request \in [Worker -> Request \cup {None}]
  /\ m_url \in [Worker -> Page \cup {None}]
  /\ \A w \in Worker : wpc[w] \in {"find", "lock", "query", "insert"} => request[w] \in Request

\* A worker works only while the server serves, and one at its insert() has the page of a
\* registration.
RegistryInv ==
  /\ RegistryTypes
  /\ phase # "serve" => \A w \in Worker : wpc[w] = "idle"
  /\ \A w \in Worker : wpc[w] = "insert" => m_url[w] # "/welcome.html"
  /\ WelcomeIsRegistered

-----------------------------------------------------------------------------
(* The pool of connections *)

\* A process that starts is as good as the first one.
LEMMA FreshPool == PoolInit' => Inv'
  BY PoolInitInv, PTL

LEMMA DeathResetsPool == Die => PoolInit'
  BY DEF Die, PoolInit

\* A step of this module is a step of the pool, or none, or the end of the process.
LEMMA PoolStepOrDeath == [Next]_vars => [PoolNext]_poolVars \/ Die
<1> SUFFICES ASSUME [Next]_vars
             PROVE  [PoolNext]_poolVars \/ Die
  OBVIOUS
<1> USE AccountsAssumption DEF AccountsAssumption
<1>1. CASE Connect \/ PoolReady
  BY <1>1 DEF Connect, PoolReady, PoolNext
<1>2. CASE GetConnection \/ ReleaseConnection
  BY <1>2 DEF GetConnection, ReleaseConnection, PoolNext
<1>3. CASE ConnectFails \/ NoConnection \/ SelectFails \/ ListenFails \/ Stop
  BY <1>3 DEF ConnectFails, NoConnection, SelectFails, ListenFails, Stop
<1>4. CASE Select \/ Listen \/ Restart
  BY <1>4 DEF Select, Listen, Restart
<1>5. ASSUME NEW w \in Worker, NEW r \in Request, Begin(w, r)
      PROVE  UNCHANGED poolVars
  BY <1>5 DEF Begin
<1>6. ASSUME NEW w \in Worker, DoRequest(w)
      PROVE  UNCHANGED poolVars
  BY <1>6 DEF DoRequest, RegisterKnown, RegisterNew, Login, LockUsers, Query, Insert, Answer, Goto
<1>7. ASSUME NEW w \in Worker, RequestDies(w)
      PROVE  Die
  BY <1>7 DEF RequestDies
<1>8. CASE UNCHANGED vars
  BY <1>8 DEF vars
<1>9. QED
  BY <1>1, <1>2, <1>3, <1>4, <1>5, <1>6, <1>7, <1>8 DEF Next

LEMMA PoolKeepsInv == Spec => []Inv
<1>1. Init => Inv
  BY PoolInitInv DEF Init
<1>2. Inv /\ [Next]_vars => Inv'
  <2> SUFFICES ASSUME Inv, [Next]_vars
               PROVE  Inv'
    OBVIOUS
  <2>1. CASE Die
    BY <2>1, DeathResetsPool, FreshPool
  <2>2. CASE [PoolNext]_poolVars
    BY <2>2, InvStep
  <2>3. QED
    BY <2>1, <2>2, PoolStepOrDeath
<1>3. QED
  BY <1>1, <1>2, PTL DEF Spec

(* The one connection that start-up takes goes back, and with it the counters*)
(* and the semaphore come to rest, through any number of deaths and restarts.*)
THEOREM StartUpReturnsConnections == Spec => []ConnectionsReturned
  BY PoolKeepsInv, InvImpliesReturned, PTL

-----------------------------------------------------------------------------
(* The types *)

\* A row more is still a table of accounts.
LEMMA AddedIsAccount ==
  ASSUME NEW map \in Account, NEW r \in Request
  PROVE  Added(map, r) \in Account
<1>1. PICK S \in SUBSET Name : map \in [S -> Password]
  BY DEF Account
<1>2. r.name \in Name /\ r.password \in Password
  BY DEF Request
<1>3. Added(map, r) \in [S \cup {r.name} -> Password]
  BY <1>1, <1>2 DEF Added
<1>4. S \cup {r.name} \in SUBSET Name
  BY <1>2
<1>5. QED
  BY <1>3, <1>4 DEF Account

LEMMA NoAccountIsAccount == NoAccount \in Account
<1>1. NoAccount \in [{} -> Password] /\ {} \in SUBSET Name
  BY DEF NoAccount
<1>2. QED
  BY <1>1 DEF Account

LEMMA DeathKeepsTypes == RegistryTypes /\ Die => RegistryTypes'
  BY NoAccountIsAccount DEF Die, RegistryTypes

LEMMA MainKeepsTypes ==
  ASSUME RegistryTypes,
         Connect \/ PoolReady \/ GetConnection \/ Select \/ ReleaseConnection \/ Listen
           \/ Restart \/ UNCHANGED vars
  PROVE  RegistryTypes'
<1>1. UNCHANGED <<sql_num, table, m_lock, wpc, request, m_url>>
  BY DEF Connect, PoolReady, GetConnection, Select, ReleaseConnection, Listen, Restart, Phase,
         vars, workers, registry
<1>2. users' \in {users, table}
  BY DEF Connect, PoolReady, GetConnection, Select, ReleaseConnection, Listen, Restart,
         vars, registry
<1>3. phase' \in {phase, "connect", "select", "listen", "serve"}
  BY DEF Connect, PoolReady, GetConnection, Select, ReleaseConnection, Listen, Restart, Phase,
         vars
<1>4. QED
  BY <1>1, <1>2, <1>3 DEF RegistryTypes

LEMMA WorkerKeepsTypes ==
  ASSUME RegistryTypes, NEW w \in Worker,
         (\E r \in Request : Begin(w, r)) \/ DoRequest(w)
  PROVE  RegistryTypes'
<1>1. phase' = phase /\ sql_num' = sql_num
  BY DEF Begin, DoRequest, RegisterKnown, RegisterNew, Login, LockUsers, Query, Insert, Answer,
         Goto
<1>2. /\ wpc' \in [Worker -> {"idle", "find", "lock", "query", "insert", "answer"}]
      /\ request' \in [Worker -> Request \cup {None}]
      /\ m_url' \in [Worker -> Page \cup {None}]
      /\ \A v \in Worker \ {w} : wpc'[v] = wpc[v] /\ request'[v] = request[v]
  BY DEF RegistryTypes, Begin, DoRequest, RegisterKnown, RegisterNew, Login, LockUsers, Query,
         Insert, Answer, Goto, SetUrl, Page
<1>3. wpc'[w] \in {"find", "lock", "query", "insert"} => request'[w] \in Request
  <2>1. ASSUME NEW r \in Request, Begin(w, r)
        PROVE  wpc'[w] \in {"find", "lock", "query", "insert"} => request'[w] \in Request
    BY <2>1 DEF Begin, RegistryTypes
  <2>2. CASE DoRequest(w)
    BY <2>2 DEF RegistryTypes, DoRequest, RegisterKnown, RegisterNew, Login, LockUsers, Query,
                Insert, Answer, Goto
  <2>3. QED
    BY <2>1, <2>2
<1>4. table' \in Account
  <2>1. CASE Query(w)
    <3>1. request[w] \in Request
      BY <2>1 DEF Query, RegistryTypes
    <3>2. QED
      BY <2>1, <3>1, AddedIsAccount DEF Query, RegistryTypes
  <2>2. CASE ~Query(w)
    BY <2>2 DEF RegistryTypes, Begin, DoRequest, RegisterKnown, RegisterNew, Login, LockUsers,
                Insert, Answer
  <2>3. QED
    BY <2>1, <2>2
<1>5. users' \in Account /\ m_lock' \in Worker \cup {None}
  <2>1. CASE Insert(w)
    <3>1. request[w] \in Request
      BY <2>1 DEF Insert, RegistryTypes
    <3>2. QED
      BY <2>1, <3>1, AddedIsAccount DEF Insert, Inserted, Unlocked, RegistryTypes
  <2>2. CASE LockUsers(w)
    BY <2>2 DEF LockUsers, RegistryTypes
  <2>3. CASE ~Insert(w) /\ ~LockUsers(w)
    BY <2>3 DEF RegistryTypes, Begin, DoRequest, RegisterKnown, RegisterNew, Login, Query,
                Answer, registry
  <2>4. QED
    BY <2>1, <2>2, <2>3
<1>6. QED
  BY <1>1, <1>2, <1>3, <1>4, <1>5 DEF RegistryTypes

\* The variables keep their types, through any number of deaths and restarts: in
\* particular the map and the table only ever hold passwords under names.
THEOREM AccountsTypeCorrect == Spec => []AccountsTypeOK
<1>1. Init => RegistryTypes
  BY NoAccountIsAccount DEF Init, RegistryTypes
<1>2. RegistryTypes /\ [Next]_vars => RegistryTypes'
  <2> SUFFICES ASSUME RegistryTypes, [Next]_vars
               PROVE  RegistryTypes'
    OBVIOUS
  <2>1. CASE ConnectFails \/ NoConnection \/ SelectFails \/ ListenFails \/ Stop
               \/ \E w \in Worker : RequestDies(w)
    BY <2>1, DeathKeepsTypes
       DEF ConnectFails, NoConnection, SelectFails, ListenFails, Stop, RequestDies
  <2>2. QED
    BY <2>1, MainKeepsTypes, WorkerKeepsTypes DEF Next
<1>3. Inv /\ RegistryTypes => AccountsTypeOK
  BY DEF Inv, RegistryTypes, AccountsTypeOK
<1>4. QED
  BY <1>1, <1>2, <1>3, PoolKeepsInv, PTL DEF Spec

-----------------------------------------------------------------------------
(* The registry *)

\* insert() adds at most one name.
LEMMA InsertedKeeps ==
  ASSUME NEW w \in Worker, NEW n \in DOMAIN users
  PROVE  n \in DOMAIN Inserted(w) /\ Inserted(w)[n] = users[n]
  BY DEF Inserted, Added

\* Unless the process starts or ends, no name is lost and no password changes.
LEMMA UsersGrow ==
  ASSUME [Next]_vars, phase' # "dead", ~Select
  PROVE  \A n \in DOMAIN users : n \in DOMAIN users' /\ users'[n] = users[n]
<1>1. CASE Connect \/ PoolReady \/ GetConnection \/ ReleaseConnection \/ Listen \/ Restart
  BY <1>1 DEF Connect, PoolReady, GetConnection, ReleaseConnection, Listen, Restart, registry
<1>2. CASE ConnectFails \/ NoConnection \/ SelectFails \/ ListenFails \/ Stop
  BY <1>2 DEF ConnectFails, NoConnection, SelectFails, ListenFails, Stop, Die
<1>3. ASSUME NEW w \in Worker, NEW r \in Request, Begin(w, r)
      PROVE  users' = users
  BY <1>3 DEF Begin, registry
<1>4. ASSUME NEW w \in Worker,
             RegisterKnown(w) \/ RegisterNew(w) \/ Login(w) \/ LockUsers(w) \/ Query(w) \/ Answer(w)
      PROVE  users' = users
  BY <1>4 DEF RegisterKnown, RegisterNew, Login, LockUsers, Query, Answer, registry
<1>5. ASSUME NEW w \in Worker, Insert(w)
      PROVE  users' = Inserted(w)
  BY <1>5 DEF Insert
<1>6. ASSUME NEW w \in Worker, RequestDies(w)
      PROVE  FALSE
  BY <1>6 DEF RequestDies, Die
<1>7. CASE UNCHANGED vars
  BY <1>7 DEF vars, registry
<1>8. QED
  BY <1>1, <1>2, <1>3, <1>4, <1>5, <1>6, <1>7, InsertedKeeps DEF Next, DoRequest

(* As long as the process lives, a known name keeps its password, although   *)
(* any number of workers may have looked it up in vain before they lock.     *)
THEOREM KnownUsersKeepPasswords == Spec => PasswordsKept
<1>1. [Next]_vars =>
        [phase' = "serve" =>
           \A n \in DOMAIN users : n \in DOMAIN users' /\ users'[n] = users[n]]_vars
  <2> SUFFICES ASSUME [Next]_vars, phase' = "serve"
               PROVE  \A n \in DOMAIN users : n \in DOMAIN users' /\ users'[n] = users[n]
    OBVIOUS
  <2>1. ~Select
    BY DEF Select, Phase
  <2>2. QED
    BY <2>1, UsersGrow
<1>2. QED
  BY <1>1, PTL DEF Spec, PasswordsKept

\* Nothing gets into the table: mysql is NULL.
LEMMA TableStays == [Next]_vars => table' = table
<1> SUFFICES ASSUME [Next]_vars
             PROVE  table' = table
  OBVIOUS
<1>1. CASE Connect \/ PoolReady \/ GetConnection \/ Select \/ ReleaseConnection \/ Listen \/ Restart
  BY <1>1 DEF Connect, PoolReady, GetConnection, Select, ReleaseConnection, Listen, Restart, Phase
<1>2. CASE ConnectFails \/ NoConnection \/ SelectFails \/ ListenFails \/ Stop
  BY <1>2 DEF ConnectFails, NoConnection, SelectFails, ListenFails, Stop, Die
<1>3. ASSUME NEW w \in Worker, (\E r \in Request : Begin(w, r)) \/ RequestDies(w)
      PROVE  table' = table
  BY <1>3 DEF Begin, RequestDies, Die
<1>4. ASSUME NEW w \in Worker,
             RegisterKnown(w) \/ RegisterNew(w) \/ Login(w) \/ LockUsers(w) \/ Insert(w) \/ Answer(w)
      PROVE  table' = table
  BY <1>4 DEF RegisterKnown, RegisterNew, Login, LockUsers, Insert, Answer
<1>5. ASSUME NEW w \in Worker, Query(w)
      PROVE  table' = table
  BY <1>5 DEF Query, mysql
<1>6. CASE UNCHANGED vars
  BY <1>6 DEF vars
<1>7. QED
  BY <1>1, <1>2, <1>3, <1>4, <1>5, <1>6 DEF Next, DoRequest

\* The server gets to listen by its query of the users only.
LEMMA ListensAfterSelect ==
  ASSUME [Next]_vars, ~Select, phase' \in {"listen", "serve"}
  PROVE  phase \in {"listen", "serve"}
<1>1. CASE Connect \/ PoolReady \/ GetConnection \/ ReleaseConnection \/ Listen \/ Restart
  BY <1>1 DEF Connect, PoolReady, GetConnection, ReleaseConnection, Listen, Restart, Phase
<1>2. CASE ConnectFails \/ NoConnection \/ SelectFails \/ ListenFails \/ Stop
  BY <1>2 DEF ConnectFails, NoConnection, SelectFails, ListenFails, Stop, Die
<1>3. ASSUME NEW w \in Worker, (\E r \in Request : Begin(w, r)) \/ RequestDies(w)
      PROVE  phase \in {"listen", "serve"}
  BY <1>3 DEF Begin, RequestDies, Die
<1>4. ASSUME NEW w \in Worker, DoRequest(w)
      PROVE  phase' = phase
  BY <1>4 DEF DoRequest, RegisterKnown, RegisterNew, Login, LockUsers, Query, Insert, Answer, Goto
<1>5. CASE UNCHANGED vars
  BY <1>5 DEF vars
<1>6. QED
  BY <1>1, <1>2, <1>3, <1>4, <1>5 DEF Next

(* The server never listens with a user of the database missing from its map:*)
(* without a connection, or when the query fails, it does not get that far.  *)
THEOREM ServesOnlyWhenLoaded == Spec => []StartedMeansLoaded
<1>1. Init => StartedMeansLoaded
  BY DEF Init, StartedMeansLoaded
<1>2. StartedMeansLoaded /\ [Next]_vars => StartedMeansLoaded'
  <2> SUFFICES ASSUME StartedMeansLoaded, [Next]_vars, phase' \in {"listen", "serve"}
               PROVE  \A n \in DOMAIN table' : n \in DOMAIN users' /\ users'[n] = table'[n]
    BY DEF StartedMeansLoaded
  <2>1. CASE Select
    BY <2>1, TableStays DEF Select
  <2>2. CASE ~Select
    <3>1. \A n \in DOMAIN table : n \in DOMAIN users /\ users[n] = table[n]
      BY <2>2, ListensAfterSelect DEF StartedMeansLoaded
    <3>2. \A n \in DOMAIN users : n \in DOMAIN users' /\ users'[n] = users[n]
      BY <2>2, UsersGrow
    <3>3. QED
      BY <3>1, <3>2, TableStays
  <2>3. QED
    BY <2>1, <2>2
<1>3. QED
  BY <1>1, <1>2, PTL DEF Spec

\* The end of the process leaves no worker at work.
LEMMA DeathKeepsRegistry == RegistryInv /\ Die => RegistryInv'
  BY DeathKeepsTypes DEF Die, RegistryInv, WelcomeIsRegistered

\* While main() starts the server, the workers' variables do not change.
LEMMA MainKeepsRegistry ==
  ASSUME RegistryInv, [Next]_vars,
         Connect \/ PoolReady \/ GetConnection \/ Select \/ ReleaseConnection \/ Listen
           \/ Restart \/ UNCHANGED vars
  PROVE  RegistryInv'
<1>1. UNCHANGED workers
  BY DEF Connect, PoolReady, GetConnection, Select, ReleaseConnection, Listen, Restart, Phase,
         vars
<1>a. RegistryTypes'
  BY MainKeepsTypes DEF RegistryInv
<1>2. CASE UNCHANGED vars
  BY <1>a, <1>2 DEF vars, registry, workers, RegistryInv, WelcomeIsRegistered, Correct, Known
<1>3. CASE ~UNCHANGED vars
  <2>1. phase # "serve"
    BY <1>3 DEF Connect, PoolReady, GetConnection, Select, ReleaseConnection, Listen, Restart
  <2>2. QED
    BY <1>a, <1>1, <2>1 DEF workers, RegistryInv, WelcomeIsRegistered
<1>4. QED
  BY <1>2, <1>3

\* A step of one worker leaves the variables of the others alone, and every name keeps
\* its password.
LEMMA WorkerKeepsRegistry ==
  ASSUME RegistryInv, [Next]_vars, NEW w \in Worker,
         (\E r \in Request : Begin(w, r)) \/ DoRequest(w)
  PROVE  RegistryInv'
<1>1. phase = "serve" /\ phase' = "serve"
  BY DEF RegistryInv, Begin, DoRequest, RegisterKnown, RegisterNew, Login, LockUsers, Query,
         Insert, Answer, Goto
<1>2. \A n \in DOMAIN users : n \in DOMAIN users' /\ users'[n] = users[n]
  BY <1>1, UsersGrow DEF Select
<1>3. RegistryTypes /\ RegistryTypes'
  BY WorkerKeepsTypes DEF RegistryInv
<1>4. ASSUME NEW v \in Worker, v # w
      PROVE  wpc'[v] = wpc[v] /\ request'[v] = request[v] /\ m_url'[v] = m_url[v]
  BY <1>3, <1>4 DEF RegistryTypes, Begin, DoRequest, RegisterKnown, RegisterNew, Login,
                    LockUsers, Query, Insert, Answer, Goto, SetUrl
<1>5. wpc'[w] = "insert" => m_url'[w] # "/welcome.html"
  BY <1>3 DEF RegistryTypes, Begin, DoRequest, RegisterKnown, RegisterNew, Login, LockUsers,
              Query, Insert, Answer, Goto, SetUrl
<1>6. ASSUME wpc'[w] = "answer", m_url'[w] = "/welcome.html"
      PROVE  Correct(w)'
  <2>1. ASSUME NEW r \in Request, Begin(w, r)
        PROVE  FALSE
    BY <1>3, <1>6, <2>1 DEF Begin, RegistryTypes
  <2>2. CASE RegisterKnown(w)
    BY <1>3, <1>6, <2>2 DEF RegisterKnown, SetUrl, RegistryTypes
  <2>3. CASE Insert(w)
    BY <1>6, <2>3 DEF Insert, RegistryInv
  <2>4. CASE RegisterNew(w) \/ LockUsers(w) \/ Query(w) \/ Answer(w)
    BY <1>3, <1>6, <2>4 DEF RegisterNew, LockUsers, Query, Answer, Goto, RegistryTypes
  <2>5. CASE Login(w)
    BY <1>3, <1>6, <2>5 DEF Login, Welcome, Correct, Known, SetUrl, Goto, registry, RegistryTypes
  <2>6. QED
    BY <2>1, <2>2, <2>3, <2>4, <2>5 DEF DoRequest
<1>7. WelcomeIsRegistered'
  BY <1>2, <1>4, <1>6 DEF RegistryInv, WelcomeIsRegistered, Correct, Known
<1>8. QED
  BY <1>1, <1>3, <1>4, <1>5, <1>7 DEF RegistryInv

(* Whoever is welcomed is registered with the password given: the lookups of *)
(* the login take no lock, and still no registration in between spoils them. *)
THEOREM OnlyRegisteredUsersAreWelcome == Spec => []WelcomeIsRegistered
<1>1. Init => RegistryInv
  BY NoAccountIsAccount DEF Init, RegistryInv, RegistryTypes, WelcomeIsRegistered
<1>2. RegistryInv /\ [Next]_vars => RegistryInv'
  <2> SUFFICES ASSUME RegistryInv, [Next]_vars
               PROVE  RegistryInv'
    OBVIOUS
  <2>1. CASE ConnectFails \/ NoConnection \/ SelectFails \/ ListenFails \/ Stop
               \/ \E w \in Worker : RequestDies(w)
    BY <2>1, DeathKeepsRegistry
       DEF ConnectFails, NoConnection, SelectFails, ListenFails, Stop, RequestDies
  <2>2. QED
    BY <2>1, MainKeepsRegistry, WorkerKeepsRegistry DEF Next
<1>3. RegistryInv => WelcomeIsRegistered
  BY DEF RegistryInv
<1>4. QED
  BY <1>1, <1>2, <1>3, PTL DEF Spec
=============================================================================
