------------------------ MODULE ConnectionPoolProofs -------------------------
(***************************************************************************)
(* Proofs about ConnectionPool for every set of threads and connections.   *)
(* The test of GetConnection() that takes no lock plays no part in them:   *)
(* it is the semaphore that keeps pop_front() from an empty list, so the   *)
(* invariant counts what the semaphore promises.                           *)
(***************************************************************************)
EXTENDS ConnectionPool, FiniteSetTheorems, TLAPS

\* Threads that have a permit and no connection yet, and threads whose connection is
\* back in the list while the semaphore does not know.
Entitled == {t \in Thread : tpc[t] \in {"enter", "pop"}}
Posting == {t \in Thread : tpc[t] = "post"}
Holding == {t \in Thread : tpc[t] \in {"in", "push"}}

\* The mutex is held by the thread in a critical section, a thread has a connection
\* exactly between its two critical sections, and nobody is inside before init() returns.
Discipline ==
  /\ m_FreeConn = Len(connList)
  /\ \A t \in Thread : tpc[t] \in {"pop", "push"} <=> lock = t
  /\ \A t \in Thread : tpc[t] \in {"in", "push"} <=> con[t] # None
  /\ ~ready => \A t \in Thread : tpc[t] = "out"

\* What the semaphore promises.
Promised == ready => Len(connList) = reserve + Cardinality(Entitled) + Cardinality(Posting)
Lent == m_CurConn = Cardinality(Holding)

Inv == PoolTypeOK /\ Discipline /\ ConnectionExclusive /\ Promised /\ Lent

LEMMA Counts ==
  /\ IsFiniteSet(Entitled) /\ Cardinality(Entitled) \in Nat
  /\ IsFiniteSet(Posting) /\ Cardinality(Posting) \in Nat
  /\ IsFiniteSet(Holding) /\ Cardinality(Holding) \in Nat
<1>1. Entitled \in SUBSET Thread /\ Posting \in SUBSET Thread /\ Holding \in SUBSET Thread
  BY DEF Entitled, Posting, Holding
<1>2. IsFiniteSet(Entitled) /\ IsFiniteSet(Posting) /\ IsFiniteSet(Holding)
  BY <1>1, PoolAssumption, FS_Subset DEF PoolAssumption
<1>3. QED
  BY <1>2, FS_CardinalityType

LEMMA OneMore ==
  ASSUME NEW S, NEW x, IsFiniteSet(S), x \notin S
  PROVE  Cardinality(S \cup {x}) = Cardinality(S) + 1
  BY FS_AddElement

LEMMA OneLess ==
  ASSUME NEW S, NEW x, IsFiniteSet(S), x \in S
  PROVE  Cardinality(S \ {x}) = Cardinality(S) - 1 /\ Cardinality(S) # 0
<1>1. Cardinality(S \ {x}) = Cardinality(S) - 1
  BY FS_RemoveElement
<1>2. IsFiniteSet(S \ {x}) /\ Cardinality(S \ {x}) \in Nat /\ Cardinality(S) \in Nat
  BY FS_RemoveElement, FS_CardinalityType
<1>3. QED
  BY <1>1, <1>2

\* While somebody is entitled to a connection there is one in the list.
LEMMA PromiseKept == Inv => PopsFromSome
<1> SUFFICES ASSUME Inv, NEW t \in Thread, tpc[t] = "pop"
             PROVE  connList # <<>>
  BY DEF PopsFromSome
<1>1. t \in Entitled /\ ready
  BY DEF Entitled, Inv, Discipline
<1>2. Cardinality(Entitled) # 0
  BY <1>1, Counts, OneLess
<1>3. reserve \in Nat /\ connList \in Seq(Conn)
  BY DEF Inv, PoolTypeOK
<1>4. Len(connList) > 0
  BY <1>1, <1>2, <1>3, Counts DEF Inv, Promised
<1>5. QED
  BY <1>4

(* ConnectionExclusive without sets, for the solver's sake. *)
PlacesApart ==
  /\ \A i, j \in 1..Len(connList) : connList[i] = connList[j] => i = j
  /\ \A i \in 1..Len(connList), t \in Thread : connList[i] # con[t]
  /\ \A t, u \in Thread : con[t] = con[u] /\ con[t] # None => t = u

LEMMA ExclusiveIsPlacesApart == PoolTypeOK => (ConnectionExclusive <=> PlacesApart)
<1> SUFFICES ASSUME PoolTypeOK
             PROVE  ConnectionExclusive <=> PlacesApart
  OBVIOUS
<1>1. /\ connList \in Seq(Conn) /\ DOMAIN connList = 1..Len(connList)
      /\ \A i \in DOMAIN connList : connList[i] \in Conn
      /\ None \notin Conn
  BY PoolAssumption DEF PoolTypeOK, PoolAssumption
<1>2. Listed \cap Held = {} <=>
        \A i \in DOMAIN connList, t \in Thread : connList[i] # con[t]
  <2>1. ASSUME Listed \cap Held = {}, NEW i \in DOMAIN connList, NEW t \in Thread
        PROVE  connList[i] # con[t]
    <3>1. connList[i] \in Listed /\ connList[i] # None
      BY <1>1 DEF Listed
    <3>2. con[t] # None => con[t] \in Held
      BY DEF Held
    <3>3. QED
      BY <2>1, <3>1, <3>2
  <2>2. ASSUME \A i \in DOMAIN connList, t \in Thread : connList[i] # con[t]
        PROVE  Listed \cap Held = {}
    BY <2>2, Zenon DEF Listed, Held
  <2>3. QED
    BY <2>1, <2>2
<1>3. QED
  BY <1>1, <1>2 DEF ConnectionExclusive, PlacesApart

LEMMA PoolInitInv == PoolInit => Inv
<1> SUFFICES ASSUME PoolInit
             PROVE  Inv
  OBVIOUS
<1>1. PoolTypeOK
  <2>1. <<>> \in Seq(Conn)
    OBVIOUS
  <2>2. tpc \in [Thread -> {"out", "wait", "enter", "pop", "in", "push", "post"}]
    BY DEF PoolInit
  <2>3. con \in [Thread -> Conn \cup {None}]
    BY DEF PoolInit
  <2>4. QED
    BY <2>1, <2>2, <2>3 DEF PoolInit, PoolTypeOK
<1>2. Len(connList) = 0
  BY DEF PoolInit
<1>3. Discipline
  BY <1>2, PoolAssumption DEF PoolInit, Discipline, PoolAssumption
<1>4. PlacesApart
  BY <1>2 DEF PoolInit, PlacesApart
<1>5. Promised
  BY DEF PoolInit, Promised
<1>6. Holding = {}
  BY DEF PoolInit, Holding
<1>7. Lent
  BY <1>6, FS_EmptySet DEF PoolInit, Lent
<1>8. QED
  BY <1>1, <1>3, <1>4, <1>5, <1>7, ExclusiveIsPlacesApart DEF Inv

-----------------------------------------------------------------------------
(* Types, the mutex and what is where *)

LEMMA PlacesStep ==
  Inv /\ [PoolNext]_poolVars => PoolTypeOK' /\ Discipline' /\ PlacesApart'
<1> SUFFICES ASSUME Inv, [PoolNext]_poolVars
             PROVE  PoolTypeOK' /\ Discipline' /\ PlacesApart'
  OBVIOUS
<1>0. PlacesApart /\ PopsFromSome /\ PoolTypeOK /\ Discipline
  BY ExclusiveIsPlacesApart, PromiseKept DEF Inv
<1> USE <1>0, PoolAssumption DEF PoolAssumption
<1>1. ASSUME NEW c \in Conn, AddConnection(c)
      PROVE  PoolTypeOK' /\ Discipline' /\ PlacesApart'
  <2>1. Len(connList') = Len(connList) + 1
    BY <1>1 DEF AddConnection, PoolTypeOK
  <2>2. \A i \in 1..Len(connList') :
          connList'[i] = IF i = Len(connList') THEN c ELSE connList[i]
    BY <1>1, <2>1 DEF AddConnection, PoolTypeOK
  <2>3. \A i \in 1..Len(connList) : connList[i] # c
    BY <1>1 DEF AddConnection, Listed, PoolTypeOK
  <2>4. \A t \in Thread : con[t] = None
    BY <1>1 DEF AddConnection, Discipline
  <2>5. PoolTypeOK' /\ Discipline'
    BY <1>1, <2>1 DEF AddConnection, PoolTypeOK, Discipline
  <2>6. PlacesApart'
    BY <1>1, <2>1, <2>2, <2>3, <2>4 DEF AddConnection, PlacesApart, PoolTypeOK
  <2>7. QED
    BY <2>5, <2>6
<1>2. CASE SetReserve
  BY <1>2 DEF SetReserve, PoolTypeOK, Discipline, PlacesApart
<1>3. ASSUME NEW t \in Thread, FindsSome(t) \/ Wait(t) \/ Enter(t) \/ Post(t)
      PROVE  PoolTypeOK' /\ Discipline' /\ PlacesApart'
  <2>1. UNCHANGED <<connList, con, m_FreeConn>>
    BY <1>3 DEF FindsSome, Wait, Enter, Post
  <2>2. PoolTypeOK' /\ Discipline'
    BY <1>3 DEF FindsSome, Wait, Enter, Post, PoolGoto, PoolTypeOK, Discipline
  <2>3. QED
    BY <2>1, <2>2 DEF PlacesApart
<1>4. ASSUME NEW t \in Thread, Pop(t)
      PROVE  PoolTypeOK' /\ Discipline' /\ PlacesApart'
  <2>1. connList # <<>> /\ connList \in Seq(Conn) /\ Len(connList) > 0
    BY <1>4 DEF Pop, PopsFromSome, PoolTypeOK
  <2>2. /\ Len(connList') = Len(connList) - 1
        /\ \A i \in 1..Len(connList') : connList'[i] = connList[i + 1]
    BY <1>4, <2>1 DEF Pop
  <2>3. \A u \in Thread : con'[u] = IF u = t THEN connList[1] ELSE con[u]
    BY <1>4 DEF Pop, PoolTypeOK
  <2>4. connList[1] \in Conn /\ connList' \in Seq(Conn)
    BY <1>4, <2>1 DEF Pop
  <2>5. PoolTypeOK'
    BY <1>4, <2>1, <2>4 DEF Pop, CountTaken, PoolGoto, PoolTypeOK, Discipline
  <2>6. Discipline'
    BY <1>4, <2>2, <2>3, <2>4 DEF Pop, CountTaken, PoolGoto, PoolTypeOK, Discipline
  <2>7. PlacesApart'
    BY <2>1, <2>2, <2>3, <2>4 DEF PlacesApart
  <2>8. QED
    BY <2>5, <2>6, <2>7
<1>5. ASSUME NEW t \in Thread, Push(t)
      PROVE  PoolTypeOK' /\ Discipline' /\ PlacesApart'
  <2>1. con[t] \in Conn /\ t \in Holding
    BY <1>5 DEF Push, Discipline, PoolTypeOK, Holding
  <2>2. Len(connList') = Len(connList) + 1
    BY <1>5, <2>1 DEF Push, PoolTypeOK
  <2>3. \A i \in 1..Len(connList') :
          connList'[i] = IF i = Len(connList') THEN con[t] ELSE connList[i]
    BY <1>5, <2>1, <2>2 DEF Push, PoolTypeOK
  <2>4. \A u \in Thread : con'[u] = IF u = t THEN None ELSE con[u]
    BY <1>5 DEF Push, PoolTypeOK
  <2>5. m_CurConn # 0
    BY <2>1, Counts, OneLess DEF Inv, Lent
  <2>6. PoolTypeOK'
    BY <1>5, <2>1, <2>5 DEF Push, AfterPush, PoolGoto, PoolTypeOK
  <2>7. Discipline'
    BY <1>5, <2>2, <2>4 DEF Push, AfterPush, PoolGoto, PoolTypeOK, Discipline
  <2>8. \A u \in Thread : u # t => con[u] # con[t]
    BY <2>1 DEF PlacesApart
  <2>9. \A i \in 1..Len(connList) : connList[i] # con[t]
    BY DEF PlacesApart
  <2>10. Len(connList) \in Nat /\ \A i \in 1..Len(connList') : connList'[i] # None
    BY <2>1, <2>2, <2>3 DEF PoolTypeOK
  <2>11. PlacesApart'
    BY <2>1, <2>2, <2>3, <2>4, <2>8, <2>9, <2>10 DEF PlacesApart
  <2>12. QED
    BY <2>6, <2>7, <2>11
<1>6. CASE UNCHANGED poolVars
  BY <1>6 DEF poolVars, PoolTypeOK, Discipline, PlacesApart
<1>7. QED
  BY <1>1, <1>2, <1>3, <1>4, <1>5, <1>6 DEF PoolNext, Get, Release

-----------------------------------------------------------------------------
(* What the semaphore counts *)

LEMMA PromiseStep ==
  Inv /\ [PoolNext]_poolVars => Promised' /\ Lent'
<1> SUFFICES ASSUME Inv, [PoolNext]_poolVars
             PROVE  Promised' /\ Lent'
  OBVIOUS
<1>0. /\ PoolTypeOK /\ Discipline /\ Promised /\ Lent /\ PopsFromSome
      /\ reserve \in Nat /\ m_CurConn \in Nat /\ Len(connList) \in Nat
  BY PromiseKept DEF Inv, PoolTypeOK
<1> USE <1>0, Counts
<1>1. ASSUME NEW c \in Conn, AddConnection(c)
      PROVE  Promised' /\ Lent'
  <2>1. Holding' = Holding /\ ~ready'
    BY <1>1 DEF AddConnection, Holding
  <2>2. QED
    BY <1>1, <2>1 DEF AddConnection, Promised, Lent
<1>2. CASE SetReserve
  <2>1. Holding' = Holding /\ Entitled' = {} /\ Posting' = {}
    BY <1>2 DEF SetReserve, Holding, Entitled, Posting, Discipline
  <2>2. Cardinality(Entitled') = 0 /\ Cardinality(Posting') = 0
    BY <2>1, FS_EmptySet
  <2>3. QED
    BY <1>2, <2>1, <2>2 DEF SetReserve, Promised, Lent, Discipline
<1>3. ASSUME NEW t \in Thread, FindsSome(t) \/ Enter(t)
      PROVE  Promised' /\ Lent'
  <2>1. Holding' = Holding /\ Entitled' = Entitled /\ Posting' = Posting
    BY <1>3 DEF FindsSome, Enter, PoolGoto, PoolTypeOK, Holding, Entitled, Posting
  <2>2. QED
    BY <1>3, <2>1 DEF FindsSome, Enter, Promised, Lent
<1>4. ASSUME NEW t \in Thread, Wait(t)
      PROVE  Promised' /\ Lent'
  <2>1. /\ Holding' = Holding /\ Posting' = Posting
        /\ Entitled' = Entitled \cup {t} /\ t \notin Entitled
    BY <1>4 DEF Wait, PoolGoto, PoolTypeOK, Holding, Entitled, Posting
  <2>2. Cardinality(Entitled') = Cardinality(Entitled) + 1
    BY <2>1, OneMore
  <2>3. UNCHANGED <<connList, m_CurConn, ready>> /\ reserve' = reserve - 1
    BY <1>4 DEF Wait
  <2>4. QED
    BY <2>1, <2>2, <2>3 DEF Promised, Lent
<1>5. ASSUME NEW t \in Thread, Pop(t)
      PROVE  Promised' /\ Lent'
  <2>1. /\ Posting' = Posting
        /\ Entitled' = Entitled \ {t} /\ t \in Entitled
        /\ Holding' = Holding \cup {t} /\ t \notin Holding
    BY <1>5 DEF Pop, PoolGoto, PoolTypeOK, Holding, Entitled, Posting
  <2>2. /\ Cardinality(Entitled') = Cardinality(Entitled) - 1
        /\ Cardinality(Holding') = Cardinality(Holding) + 1
    BY <2>1, OneMore, OneLess
  <2>3. Len(connList') = Len(connList) - 1
    BY <1>5 DEF Pop, PopsFromSome, PoolTypeOK
  <2>4. UNCHANGED <<reserve, ready>> /\ m_CurConn' = m_CurConn + 1
    BY <1>5 DEF Pop, CountTaken
  <2>5. QED
    BY <2>1, <2>2, <2>3, <2>4 DEF Promised, Lent
<1>6. ASSUME NEW t \in Thread, Push(t)
      PROVE  Promised' /\ Lent'
  <2>1. /\ Posting' = Posting \cup {t} /\ t \notin Posting
        /\ Entitled' = Entitled
        /\ Holding' = Holding \ {t} /\ t \in Holding
    BY <1>6 DEF Push, AfterPush, PoolGoto, PoolTypeOK, Holding, Entitled, Posting
  <2>2. /\ Cardinality(Posting') = Cardinality(Posting) + 1
        /\ Cardinality(Holding') = Cardinality(Holding) - 1
    BY <2>1, OneMore, OneLess
  <2>3. con[t] \in Conn
    BY <1>6 DEF Push, Discipline, PoolTypeOK
  <2>4. Len(connList') = Len(connList) + 1
    BY <1>6, <2>3 DEF Push, PoolTypeOK
  <2>5. UNCHANGED <<reserve, ready>> /\ m_CurConn' = m_CurConn - 1
    BY <1>6 DEF Push
  <2>6. Promised'
    BY <2>1, <2>2, <2>4, <2>5 DEF Promised
  <2>7. Lent'
    BY <2>2, <2>5 DEF Lent
  <2>8. QED
    BY <2>6, <2>7
<1>7. ASSUME NEW t \in Thread, Post(t)
      PROVE  Promised' /\ Lent'
  <2>1. /\ Holding' = Holding /\ Entitled' = Entitled
        /\ Posting' = Posting \ {t} /\ t \in Posting
    BY <1>7 DEF Post, PoolGoto, PoolTypeOK, Holding, Entitled, Posting
  <2>2. Cardinality(Posting') = Cardinality(Posting) - 1
    BY <2>1, OneLess
  <2>3. UNCHANGED <<connList, m_CurConn, ready>> /\ reserve' = reserve + 1
    BY <1>7 DEF Post
  <2>4. QED
    BY <2>1, <2>2, <2>3 DEF Promised, Lent
<1>8. CASE UNCHANGED poolVars
  <2>1. Holding' = Holding /\ Entitled' = Entitled /\ Posting' = Posting
    BY <1>8 DEF poolVars, Holding, Entitled, Posting
  <2>2. QED
    BY <1>8, <2>1 DEF poolVars, Promised, Lent
<1>9. QED
  BY <1>1, <1>2, <1>3, <1>4, <1>5, <1>6, <1>7, <1>8 DEF PoolNext, Get, Release

LEMMA InvStep == Inv /\ [PoolNext]_poolVars => Inv'
<1> SUFFICES ASSUME Inv, [PoolNext]_poolVars
             PROVE  Inv'
  OBVIOUS
<1>1. PoolTypeOK' /\ Discipline' /\ PlacesApart' /\ Promised' /\ Lent'
  BY PlacesStep, PromiseStep
<1>2. PoolTypeOK' => (ConnectionExclusive' <=> PlacesApart')
  BY ExclusiveIsPlacesApart, PTL
<1>3. QED
  BY <1>1, <1>2 DEF Inv

LEMMA PoolInvariant == PoolSpec => []Inv
  BY PoolInitInv, InvStep, PTL DEF PoolSpec

LEMMA InvImpliesReturned == Inv => ConnectionsReturned
<1> SUFFICES ASSUME Inv, ready, \A t \in Thread : tpc[t] = "out"
             PROVE  /\ m_FreeConn = Len(connList) /\ m_CurConn = 0
                    /\ reserve = m_FreeConn
  BY DEF ConnectionsReturned
<1>1. Entitled = {} /\ Posting = {} /\ Holding = {}
  BY DEF Entitled, Posting, Holding
<1>2. Cardinality(Entitled) = 0 /\ Cardinality(Posting) = 0 /\ Cardinality(Holding) = 0
  BY <1>1, FS_EmptySet
<1>3. reserve \in Nat
  BY DEF Inv, PoolTypeOK
<1>4. QED
  BY <1>2, <1>3 DEF Inv, Discipline, Promised, Lent

-----------------------------------------------------------------------------
(* What the pool promises *)

(* Every connection is in the list or with one thread, and in one place only,*)
(* however many threads call GetConnection() and ReleaseConnection() at once.*)
THEOREM NobodySharesAConnection == PoolSpec => []ConnectionExclusive
<1>1. Inv => ConnectionExclusive
  BY DEF Inv
<1>2. QED
  BY <1>1, PoolInvariant, PTL

(* GetConnection() looked at the list without the mutex, and looks no more   *)
(* before it takes the front: a permit guarantees that it is there.          *)
THEOREM FrontIsThere == PoolSpec => []PopsFromSome
  BY PoolInvariant, PromiseKept, PTL

(* When no thread is inside the pool or has a connection, the list, the two  *)
(* counters and the semaphore agree.                                         *)
THEOREM PoolComesToRest == PoolSpec => []ConnectionsReturned
  BY PoolInvariant, InvImpliesReturned, PTL
=============================================================================
