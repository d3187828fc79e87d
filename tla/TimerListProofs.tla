-------------------------- MODULE TimerListProofs ---------------------------
(***************************************************************************)
(* Theorems about TimerList for any number of timers, any lifetime and any *)
(* clock.  A list is described by its chain: the sequence s of its k nodes *)
(* from head to tail, whose links are what IsChain says.  Each member of   *)
(* sort_timer_lst turns a chain into another, with one node inserted, one  *)
(* removed or the first ones dropped, and the loops along 'next' end where *)
(* the chain says.  That needs an induction along the list, which rests on *)
(* one fact: a nonempty set of numbers has a least one.                    *)
(***************************************************************************)
EXTENDS TimerList, FunctionTheorems, WellFoundedInduction, FiniteSetTheorems, TLAPS

-----------------------------------------------------------------------------
(* Induction *)

\* A nonempty set of numbers has a least one.
LEMMA LeastNumber ==
  ASSUME NEW S \in SUBSET Nat, S # {}
  PROVE  \E n \in S : \A m \in S : n <= m
<1>1. PICK n \in S : \A m \in S : ~(<<m, n>> \in OpToRel(<, Nat))
  BY WFMin, NatLessThanWellFounded
<1>2. \A m \in S : ~(m < n)
  BY <1>1 DEF OpToRel
<1>3. QED
  BY <1>2

\* Induction, for a set in place of a predicate
LEMMA SetInduction ==
  ASSUME NEW S, 0 \in S, \A n \in S \cap Nat : n + 1 \in S
  PROVE  Nat \subseteq S
<1>1. ASSUME Nat \ S # {} PROVE FALSE
  <2>1. PICK n \in Nat \ S : \A m \in Nat \ S : n <= m
    <3>1. Nat \ S \in SUBSET Nat
      OBVIOUS
    <3>2. QED
      BY <1>1, <3>1, LeastNumber
  <2>2. n \in Nat /\ n \notin S /\ n # 0 /\ n - 1 \in Nat /\ ~(n <= n - 1) /\ (n - 1) + 1 = n
    BY <2>1
  <2>3. n - 1 \in S
    BY <2>1, <2>2
  <2>4. QED
    BY <2>2, <2>3
<1>2. QED
  BY <1>1

\* The recursion that Visits chooses a function for has a solution, which is the loop
\* round by round.
LEMMA VisitsDefined ==
  ASSUME NEW l, NEW p, NEW stop
  PROVE  LET at == Visits(l, p, stop) IN
         /\ at[0] = p
         /\ \A n \in 1..Cardinality(Timer) :
              at[n] = IF at[n-1] \in stop THEN at[n-1] ELSE l.next[at[n-1]]
<1> DEFINE Round(v) == IF v \in stop THEN v ELSE l.next[v]
           Walked(g, n) == g = [i \in 0..n |-> IF i = 0 THEN p ELSE Round(g[i-1])]
           S == {n \in Nat : \E g : Walked(g, n)}
           N == Cardinality(Timer)
<1>1. 0 \in S
  <2>1. Walked([i \in 0..0 |-> p], 0)
    OBVIOUS
  <2>2. QED
    BY <2>1
<1>2. ASSUME NEW n \in S
      PROVE  n + 1 \in S
  <2>1. PICK g : Walked(g, n)
    BY <1>2
  <2> DEFINE h == [i \in 0..(n+1) |-> IF i = 0 THEN p ELSE Round(g[i-1])]
  <2> HIDE DEF Round
  <2>2. \A i \in 0..n : h[i] = g[i]
    BY <2>1
  <2>3. \A i \in 0..(n+1) : i # 0 => i - 1 \in 0..n
    OBVIOUS
  <2>4. Walked(h, n + 1)
    BY <2>2, <2>3
  <2> HIDE DEF h
  <2>5. QED
    BY <2>4
<1>3. N \in S
  <2>1. N \in Nat
    BY ListAssumption, FS_CardinalityType DEF ListAssumption
  <2>2. Nat \subseteq S
    <3> HIDE DEF S
    <3>1. QED
      BY <1>1, <1>2, SetInduction
  <2>3. QED
    BY <2>1, <2>2
<1>4. Visits(l, p, stop) = CHOOSE g : Walked(g, N)
  BY DEF Visits
<1>5. Walked(Visits(l, p, stop), N)
  BY <1>3, <1>4
<1> HIDE DEF Round
<1>6. N \in Nat
  BY ListAssumption, FS_CardinalityType DEF ListAssumption
<1>7. QED
  BY <1>5, <1>6 DEF Round

-----------------------------------------------------------------------------
(* Chains: the list l has the nodes s[1], ..., s[k] in this order. *)

At(s, k, i) == IF i \in 1..k THEN s[i] ELSE NULL
Image(s, k) == {s[i] : i \in 1..k}

IsChain(l, s, k) ==
  /\ l \in Links
  /\ k \in Nat /\ s \in [1..k -> Timer]
  /\ \A i, j \in 1..k : s[i] = s[j] => i = j
  /\ l.head = At(s, k, 1)
  /\ k > 0 => l.tail = s[k]
  /\ \A i \in 1..k : l.next[s[i]] = At(s, k, i + 1) /\ l.prev[s[i]] = At(s, k, i - 1)

Inserted(s, k, p, t) ==
  [i \in 1..(k+1) |-> IF i <= p THEN s[i] ELSE IF i = p + 1 THEN t ELSE s[i-1]]
Removed(s, k, p) == [i \in 1..(k-1) |-> IF i < p THEN s[i] ELSE s[i+1]]
Dropped(s, k, p) == [i \in 1..(k-p) |-> s[i+p]]

LEMMA TimersAreMany == Cardinality(Timer) \in Nat
  BY ListAssumption, FS_CardinalityType DEF ListAssumption

\* No chain is longer than there are timers.
LEMMA ChainLength ==
  ASSUME NEW l, NEW s, NEW k, IsChain(l, s, k)
  PROVE  k \in Nat /\ k <= Cardinality(Timer)
<1>1. /\ k \in Nat /\ s \in [1..k -> Timer]
      /\ \A i, j \in 1..k : s[i] = s[j] => i = j
  BY DEF IsChain
<1>2. s \in Injection(1..k, Timer)
  BY <1>1 DEF Injection, IsInjective
<1>3. IsFiniteSet(1..k) /\ Cardinality(1..k) = k
  BY <1>1, FS_Interval
<1>4. Cardinality(1..k) <= Cardinality(Timer)
  BY <1>2, <1>3, FS_Injection, ListAssumption DEF ListAssumption
<1>5. QED
  BY <1>1, <1>3, <1>4

\* A loop goes along the chain one node a round, and stays where it meets stop.
LEMMA VisitsChain ==
  ASSUME NEW l, NEW s, NEW k, IsChain(l, s, k), NEW stop,
         NEW i \in 1..(k+1), NEW j \in i..(k+1), At(s, k, j) \in stop,
         \A m \in i..(j-1) : At(s, k, m) \notin stop
  PROVE  \A n \in 0..Cardinality(Timer) :
           Visits(l, At(s, k, i), stop)[n] = At(s, k, IF i + n <= j THEN i + n ELSE j)
<1> DEFINE N == Cardinality(Timer)
           at == Visits(l, At(s, k, i), stop)
           Place(n) == IF i + n <= j THEN i + n ELSE j
           S == {n \in Nat : n <= N => at[n] = At(s, k, Place(n))}
<1>1. N \in Nat /\ k \in Nat /\ i \in Nat /\ j \in Nat /\ i <= j
  BY TimersAreMany DEF IsChain
<1>2. /\ at[0] = At(s, k, i)
      /\ \A n \in 1..N : at[n] = IF at[n-1] \in stop THEN at[n-1] ELSE l.next[at[n-1]]
  BY VisitsDefined
<1> HIDE DEF at, N
<1>3. 0 \in S
  BY <1>1, <1>2
<1>4. ASSUME NEW n \in S \cap Nat
      PROVE  n + 1 \in S
  <2> SUFFICES ASSUME n + 1 <= N
               PROVE  at[n+1] = At(s, k, Place(n + 1))
    OBVIOUS
  <2>1. n <= N /\ n + 1 \in 1..N /\ (n + 1) - 1 = n
    BY <1>1
  <2>2. at[n] = At(s, k, Place(n))
    BY <2>1
  <2>3. at[n+1] = IF at[n] \in stop THEN at[n] ELSE l.next[at[n]]
    BY <1>2, <2>1
  <2>4. CASE i + n < j
    <3>1. Place(n) = i + n /\ i + n \in i..(j-1) /\ i + n \in 1..k /\ Place(n + 1) = (i + n) + 1
      BY <1>1, <2>4
    <3>2. at[n] \notin stop /\ at[n] = s[i+n]
      BY <2>2, <3>1 DEF At
    <3>3. at[n+1] = At(s, k, (i + n) + 1)
      BY <2>3, <3>1, <3>2 DEF IsChain
    <3>4. QED
      BY <3>1, <3>3
  <2>5. CASE ~(i + n < j)
    <3>1. Place(n) = j /\ Place(n + 1) = j
      BY <1>1, <2>5
    <3>2. QED
      BY <2>2, <2>3, <3>1
  <2>6. QED
    BY <2>4, <2>5
<1>5. Nat \subseteq S
  <2> HIDE DEF S
  <2>1. QED
    BY <1>3, <1>4, SetInduction
<1>6. QED
  BY <1>1, <1>5 DEF N, at

\* A loop ends at the first node of stop.
LEMMA WalkEnds ==
  ASSUME NEW l, NEW s, NEW k, IsChain(l, s, k), NEW stop,
         NEW i \in 1..(k+1), NEW j \in i..(k+1), At(s, k, j) \in stop,
         \A m \in i..(j-1) : At(s, k, m) \notin stop
  PROVE  Walk(l, At(s, k, i), stop) = At(s, k, j)
<1>1. k \in Nat /\ k <= Cardinality(Timer) /\ Cardinality(Timer) \in Nat
  BY ChainLength, TimersAreMany
<1>2. Walk(l, At(s, k, i), stop)
        = At(s, k, IF i + Cardinality(Timer) <= j THEN i + Cardinality(Timer) ELSE j)
  BY <1>1, VisitsChain DEF Walk
<1>3. ~(i + Cardinality(Timer) < j)
  BY <1>1
<1>4. QED
  BY <1>1, <1>2, <1>3

\* If a loop meets a node of stop at all, there is a first one.
LEMMA FirstStop ==
  ASSUME NEW s, NEW k \in Nat, NEW stop,
         NEW i \in 1..(k+1), NEW e \in i..(k+1), At(s, k, e) \in stop
  PROVE  \E j \in i..e : /\ At(s, k, j) \in stop
                         /\ \A m \in i..(j-1) : At(s, k, m) \notin stop
<1> DEFINE S == {m \in i..e : At(s, k, m) \in stop}
<1>1. S \in SUBSET Nat /\ S # {}
  OBVIOUS
<1>2. PICK j \in S : \A m \in S : j <= m
  <2> HIDE DEF S
  <2>1. QED
    BY <1>1, LeastNumber
<1>3. \A m \in i..(j-1) : m \in i..e /\ ~(j <= m)
  BY <1>2
<1>4. QED
  BY <1>2, <1>3

\* The nodes from the i-th on are the rest of the chain.
LEMMA ChainNodes ==
  ASSUME NEW l, NEW s, NEW k, IsChain(l, s, k), NEW i \in 1..(k+1)
  PROVE  Nodes(l, At(s, k, i)) = {s[m] : m \in i..k}
<1>1. k \in Nat /\ k <= Cardinality(Timer) /\ Cardinality(Timer) \in Nat
  BY ChainLength, TimersAreMany
<1>2. /\ k + 1 \in i..(k+1) /\ At(s, k, k + 1) = NULL
      /\ \A m \in 1..k : s[m] \in Timer /\ s[m] # NULL
  BY <1>1, ListAssumption DEF IsChain, At, ListAssumption
<1>3. \A m \in i..((k+1)-1) : At(s, k, m) \notin {NULL}
  BY <1>1, <1>2 DEF At
<1> DEFINE at == Visits(l, At(s, k, i), {NULL})
<1>4. \A n \in 0..Cardinality(Timer) : at[n] = At(s, k, IF i + n <= k + 1 THEN i + n ELSE k + 1)
  BY <1>2, <1>3, VisitsChain
<1> HIDE DEF at
<1>5. ASSUME NEW m \in i..k
      PROVE  \E n \in 0..Cardinality(Timer) : at[n] = s[m]
  <2>1. m - i \in 0..Cardinality(Timer) /\ i + (m - i) = m /\ m <= k + 1 /\ m \in 1..k
    BY <1>1
  <2>2. QED
    BY <1>4, <2>1 DEF At
<1>6. ASSUME NEW n \in 0..Cardinality(Timer), at[n] # NULL
      PROVE  \E m \in i..k : at[n] = s[m]
  <2>1. CASE i + n <= k
    BY <1>1, <1>4, <2>1 DEF At
  <2>2. CASE ~(i + n <= k)
    BY <1>1, <1>4, <1>6, <2>2 DEF At
  <2>3. QED
    BY <2>1, <2>2
<1>7. Nodes(l, At(s, k, i)) = {at[n] : n \in 0..Cardinality(Timer)} \ {NULL}
  BY DEF Nodes, at
<1>8. \A m \in i..k : s[m] # NULL
  BY <1>1, <1>2
<1>9. QED
  BY <1>5, <1>6, <1>7, <1>8

-----------------------------------------------------------------------------
(* What each member of sort_timer_lst does to a chain *)

\* l holds the timers of S, and the links of the others are as 'new' sets them.
Holds(l, s, k, S) ==
  /\ IsChain(l, s, k) /\ Image(s, k) = S
  /\ \A t \in Timer \ S : l.next[t] = NULL /\ l.prev[t] = NULL

Sorted(ex, s, k) == \A i, j \in 1..k : i <= j => ex[s[i]] <= ex[s[j]]

\* The links but for those of t
SameOutside(l, m, S) ==
  \A t \in Timer \ S : m.next[t] = l.next[t] /\ m.prev[t] = l.prev[t]

\* What a chain says of its nodes and of the links
LEMMA NodesAreTimers ==
  ASSUME NEW l, NEW s, NEW k, IsChain(l, s, k)
  PROVE  /\ k \in Nat /\ \A i \in 1..k : s[i] \in Timer /\ s[i] # NULL /\ At(s, k, i) = s[i]
         /\ At(s, k, 0) = NULL /\ At(s, k, k + 1) = NULL
         /\ l.next \in [Timer -> Ptr] /\ l.prev \in [Timer -> Ptr]
         /\ l.head \in Ptr /\ l.tail \in Ptr
         /\ l = [head |-> l.head, tail |-> l.tail, prev |-> l.prev, next |-> l.next]
  BY ListAssumption DEF IsChain, At, ListAssumption, Links

\* A sequence with t after its p-th element
LEMMA InsertedInto ==
  ASSUME NEW k \in Nat, NEW s \in [1..k -> Timer], NEW p \in 0..k, NEW t \in Timer,
         \A i, j \in 1..k : s[i] = s[j] => i = j, t \notin Image(s, k),
         NEW r, r = Inserted(s, k, p, t)
  PROVE  /\ r \in [1..(k+1) -> Timer]
         /\ \A i, j \in 1..(k+1) : r[i] = r[j] => i = j
         /\ Image(r, k + 1) = Image(s, k) \cup {t}
<1>1. \A i \in 1..(k+1) : /\ i <= p => i \in 1..k
                          /\ ~(i <= p) /\ i # p + 1 => i - 1 \in 1..k
  OBVIOUS
<1>2. \A i \in 1..k : s[i] # t
  BY DEF Image
<1>3. /\ r \in [1..(k+1) -> Timer]
      /\ \A i \in 1..(k+1) : r[i] = IF i <= p THEN s[i] ELSE IF i = p + 1 THEN t ELSE s[i-1]
  BY <1>1 DEF Inserted
<1>4. \A i, j \in 1..(k+1) : r[i] = r[j] => i = j
  BY <1>1, <1>2, <1>3
<1>5. Image(r, k + 1) \subseteq Image(s, k) \cup {t}
  BY <1>1, <1>3 DEF Image
<1>6. t \in Image(r, k + 1)
  <2>1. p + 1 \in 1..(k+1) /\ r[p+1] = t
    BY <1>3
  <2>2. QED
    BY <2>1 DEF Image
<1>7. \A i \in 1..k : s[i] \in Image(r, k + 1)
  <2> TAKE i \in 1..k
  <2>1. CASE i <= p
    <3>1. i \in 1..(k+1) /\ r[i] = s[i]
      BY <1>3, <2>1
    <3>2. QED
      BY <3>1 DEF Image
  <2>2. CASE ~(i <= p)
    <3>1. i + 1 \in 1..(k+1) /\ ~(i + 1 <= p) /\ i + 1 # p + 1 /\ (i + 1) - 1 = i
      BY <2>2
    <3>2. r[i+1] = s[i]
      BY <1>3, <3>1
    <3>3. QED
      BY <3>1, <3>2 DEF Image
  <2>3. QED
    BY <2>1, <2>2
<1>8. Image(r, k + 1) = Image(s, k) \cup {t}
  <2>1. Image(s, k) \subseteq Image(r, k + 1)
    BY <1>7 DEF Image
  <2>2. QED
    BY <1>5, <1>6, <2>1
<1>9. QED
  BY <1>3, <1>4, <1>8

\* The nodes that the private add_timer() does not go past
Bounds(l, ex, t) == {q \in Timer : GoesAfter(l, ex, t, q)}

\* The private add_timer() inserts t after the last node that does not expire later,
\* where it starts from s[i].
LEMMA AddAfterChain ==
  ASSUME NEW l, NEW s, NEW k, IsChain(l, s, k), NEW ex, NEW i \in 1..k,
         NEW t \in Timer, t \notin Image(s, k)
  PROVE  \E j \in i..k :
           /\ IsChain(AddAfter(l, ex, t, s[i]), Inserted(s, k, j, t), k + 1)
           /\ SameOutside(l, AddAfter(l, ex, t, s[i]), Image(s, k) \cup {t})
           /\ \A m \in (i+1)..j : ~(ex[t] < ex[s[m]])
           /\ j < k => ex[t] < ex[s[j+1]]
<1>1. /\ k \in Nat /\ s \in [1..k -> Timer] /\ l \in Links
      /\ \A u, v \in 1..k : s[u] = s[v] => u = v
      /\ \A u \in 1..k : l.next[s[u]] = At(s, k, u + 1) /\ l.prev[s[u]] = At(s, k, u - 1)
  BY DEF IsChain
<1>0. /\ \A u \in 1..k : s[u] \in Timer /\ s[u] # NULL /\ At(s, k, u) = s[u]
      /\ At(s, k, k + 1) = NULL
  BY NodesAreTimers
<1> DEFINE stop == Bounds(l, ex, t)
<1>2. \A m \in 1..k : s[m] \in stop <=> m = k \/ ex[t] < ex[s[m+1]]
  <2> TAKE m \in 1..k
  <2>1. CASE m = k
    BY <1>0, <1>1, <2>1 DEF Bounds, GoesAfter
  <2>2. CASE m # k
    <3>1. m + 1 \in 1..k /\ l.next[s[m]] = s[m+1] /\ s[m+1] # NULL /\ s[m] \in Timer
      BY <1>0, <1>1, <2>2
    <3>2. QED
      BY <2>2, <3>1 DEF Bounds, GoesAfter
  <2>3. QED
    BY <2>1, <2>2
<1> HIDE DEF stop
<1>3. \A m \in 1..k : At(s, k, m) = s[m]
  BY DEF At
<1>4. PICK j \in i..k : /\ At(s, k, j) \in stop
                        /\ \A m \in i..(j-1) : At(s, k, m) \notin stop
  <2>1. i \in 1..(k+1) /\ k \in i..(k+1) /\ At(s, k, k) \in stop
    BY <1>1, <1>2, <1>3
  <2>2. QED
    BY <1>1, <2>1, FirstStop
<1>5. j \in 1..k /\ s[j] \in Timer /\ j + 1 \in 1..(k+1)
  BY <1>1
<1>6. Walk(l, s[i], stop) = s[j]
  <2>1. i \in 1..(k+1) /\ j \in i..(k+1)
    BY <1>1
  <2>2. Walk(l, At(s, k, i), stop) = At(s, k, j)
    BY <1>4, <2>1, WalkEnds
  <2>3. QED
    BY <1>3, <1>5, <2>2
<1>7. /\ \A m \in (i+1)..j : ~(ex[t] < ex[s[m]])
      /\ j < k => ex[t] < ex[s[j+1]]
  <2>1. ASSUME NEW m \in (i+1)..j
        PROVE  ~(ex[t] < ex[s[m]])
    <3>1. m - 1 \in i..(j-1) /\ m - 1 \in 1..k /\ (m - 1) + 1 = m
      BY <1>1
    <3>2. QED
      BY <1>2, <1>3, <1>4, <3>1
  <2>2. j < k => ex[t] < ex[s[j+1]]
    BY <1>1, <1>2, <1>3, <1>4, <1>5
  <2>3. QED
    BY <2>1, <2>2
<1> DEFINE r == Inserted(s, k, j, t)
           tmp == l.next[s[j]]
           linked == [l EXCEPT !.next[s[j]] = t, !.next[t] = tmp, !.prev[t] = s[j]]
           m == AddAfter(l, ex, t, s[i])
<1>8. m = IF tmp = NULL THEN [linked EXCEPT !.tail = t] ELSE [linked EXCEPT !.prev[tmp] = t]
  BY <1>6 DEF AddAfter, NewTail, stop, Bounds
<1>9. /\ tmp = At(s, k, j + 1) /\ tmp \in Ptr
      /\ tmp = NULL <=> j = k
      /\ j < k => tmp = s[j+1] /\ tmp \in Timer
  <2>1. tmp = At(s, k, j + 1)
    BY <1>1, <1>5
  <2>2. j < k => j + 1 \in 1..k
    BY <1>1, <1>5
  <2>3. QED
    BY <1>0, <1>1, <1>5, <2>1, <2>2 DEF Ptr
<1>10. \A u \in 1..k : s[u] # t
  BY DEF Image
<1>11. /\ linked \in Links /\ linked.head = l.head /\ linked.tail = l.tail
       /\ linked.next = [l.next EXCEPT ![s[j]] = t, ![t] = tmp]
       /\ linked.prev = [l.prev EXCEPT ![t] = s[j]]
  BY <1>1, <1>5, <1>9 DEF Links, Ptr
<1> HIDE DEF linked, m, tmp
<1>12. /\ m \in Links /\ m.head = l.head
       /\ m.tail = IF j = k THEN t ELSE l.tail
       /\ m.next = [l.next EXCEPT ![s[j]] = t, ![t] = tmp]
       /\ m.prev = IF j = k THEN [l.prev EXCEPT ![t] = s[j]]
                            ELSE [l.prev EXCEPT ![t] = s[j], ![tmp] = t]
  <2>1. CASE j = k
    <3>1. m = [linked EXCEPT !.tail = t]
      BY <1>8, <1>9, <2>1
    <3>2. QED
      BY <1>11, <2>1, <3>1 DEF Links, Ptr
  <2>2. CASE j # k
    <3>1. m = [linked EXCEPT !.prev[tmp] = t] /\ tmp \in Timer
      BY <1>1, <1>5, <1>8, <1>9, <2>2
    <3>2. QED
      BY <1>11, <2>2, <3>1 DEF Links, Ptr
  <2>3. QED
    BY <2>1, <2>2
<1>13. /\ r \in [1..(k+1) -> Timer]
       /\ \A u, v \in 1..(k+1) : r[u] = r[v] => u = v
  <2>1. /\ k \in Nat /\ s \in [1..k -> Timer] /\ j \in 0..k /\ t \in Timer
        /\ t \notin Image(s, k) /\ \A u, v \in 1..k : s[u] = s[v] => u = v
    BY <1>1
  <2>2. r = Inserted(s, k, j, t)
    OBVIOUS
  <2> HIDE DEF r
  <2>3. QED
    BY <2>1, <2>2, InsertedInto
<1>14. \A u \in 1..(k+1) : r[u] = IF u <= j THEN s[u] ELSE IF u = j + 1 THEN t ELSE s[u-1]
  BY DEF Inserted
<1>15. /\ l.next \in [Timer -> Ptr] /\ l.prev \in [Timer -> Ptr]
       /\ \A u \in Timer : m.next[u] = IF u = t THEN tmp ELSE IF u = s[j] THEN t ELSE l.next[u]
       /\ \A u \in Timer : m.prev[u] = IF j < k /\ u = tmp THEN t
                                       ELSE IF u = t THEN s[j] ELSE l.prev[u]
  <2>1. l.next \in [Timer -> Ptr] /\ l.prev \in [Timer -> Ptr]
    BY <1>1 DEF Links
  <2>2. QED
    BY <1>1, <1>5, <1>9, <1>10, <1>12, <2>1
<1> HIDE DEF r
<1>16. \A u \in 1..(k+1) : m.next[r[u]] = At(r, k + 1, u + 1)
  <2> TAKE u \in 1..(k+1)
  <2>1. CASE u < j
    <3>1. /\ u \in 1..k /\ u + 1 \in 1..k /\ u + 1 \in 1..(k+1) /\ u # j
          /\ r[u] = s[u] /\ r[u+1] = s[u+1]
      BY <1>1, <1>5, <1>14, <2>1
    <3>2. l.next[s[u]] = s[u+1] /\ s[u] # s[j] /\ s[u] # t /\ s[u] \in Timer
      BY <1>1, <1>5, <1>10, <3>1 DEF IsChain, At
    <3>3. QED
      BY <1>15, <3>1, <3>2 DEF At
  <2>2. CASE u = j
    <3>1. r[u] = s[j] /\ r[u+1] = t /\ u + 1 \in 1..(k+1) /\ s[j] # t
      BY <1>1, <1>5, <1>10, <1>14, <2>2
    <3>2. QED
      BY <1>5, <1>15, <3>1 DEF At
  <2>3. CASE u = j + 1
    <3>1. r[u] = t
      BY <1>1, <1>5, <1>14, <2>3
    <3>2. m.next[t] = tmp
      BY <1>15
    <3>3. CASE j = k
      BY <1>1, <1>9, <2>3, <3>1, <3>2, <3>3 DEF At
    <3>4. CASE j < k
      <4>1. u + 1 \in 1..(k+1) /\ r[u+1] = s[j+1]
        BY <1>1, <1>5, <1>14, <2>3, <3>4
      <4>2. QED
        BY <1>9, <3>1, <3>2, <3>4, <4>1 DEF At
    <3>5. QED
      BY <1>1, <1>5, <3>3, <3>4
  <2>4. CASE u > j + 1
    <3>1. /\ u - 1 \in 1..k /\ u - 1 # j /\ (u - 1) + 1 = u /\ r[u] = s[u-1]
          /\ u <= k => u \in 1..k /\ u + 1 \in 1..(k+1) /\ r[u+1] = s[u]
          /\ u > k => u = k + 1 /\ u \notin 1..k /\ u + 1 \notin 1..(k+1)
      BY <1>1, <1>5, <1>14, <2>4
    <3>2. s[u-1] # s[j] /\ s[u-1] # t /\ s[u-1] \in Timer /\ l.next[s[u-1]] = At(s, k, u)
      BY <1>1, <1>5, <1>10, <3>1 DEF IsChain
    <3>3. m.next[r[u]] = At(s, k, u)
      BY <1>15, <3>1, <3>2
    <3>4. QED
      BY <1>1, <3>1, <3>3 DEF At
  <2>5. QED
    BY <1>1, <1>5, <2>1, <2>2, <2>3, <2>4
<1>17. \A u \in 1..(k+1) : m.prev[r[u]] = At(r, k + 1, u - 1)
  <2> TAKE u \in 1..(k+1)
  <2>1. CASE u <= j
    <3>1. /\ u \in 1..k /\ r[u] = s[u] /\ u # j + 1
          /\ u > 1 => u - 1 \in 1..k /\ u - 1 \in 1..(k+1) /\ r[u-1] = s[u-1]
          /\ ~(u > 1) => u - 1 \notin 1..k /\ u - 1 \notin 1..(k+1)
      <4>1. k \in Nat
        BY <1>1
      <4>2. /\ u \in 1..k /\ u # j + 1
            /\ u > 1 => u - 1 \in 1..k /\ u - 1 \in 1..(k+1) /\ u - 1 <= j
            /\ ~(u > 1) => u - 1 \notin 1..k /\ u - 1 \notin 1..(k+1)
        BY <1>5, <2>1, <4>1
      <4>3. r[u] = s[u]
        BY <1>14, <2>1
      <4>4. u > 1 => r[u-1] = s[u-1]
        BY <1>14, <4>2
      <4>5. QED
        BY <4>2, <4>3, <4>4
    <3>2. l.prev[s[u]] = At(s, k, u - 1) /\ s[u] # t /\ s[u] \in Timer
          /\ (j < k => j + 1 \in 1..k /\ s[u] # s[j+1])
      BY <1>1, <1>5, <1>10, <3>1 DEF IsChain
    <3>3. m.prev[r[u]] = At(s, k, u - 1)
      BY <1>9, <1>15, <3>1, <3>2
    <3>4. QED
      BY <3>1, <3>3 DEF At
  <2>2. CASE u = j + 1
    <3>1. r[u] = t /\ u - 1 \in 1..(k+1) /\ r[u-1] = s[j]
      BY <1>1, <1>5, <1>14, <2>2
    <3>2. j < k => tmp # t
      BY <1>1, <1>5, <1>9, <1>10
    <3>3. m.prev[t] = s[j]
      BY <1>15, <3>2
    <3>4. QED
      BY <3>1, <3>3 DEF At
  <2>3. CASE u = j + 2
    <3>1. /\ j < k /\ r[u] = s[j+1] /\ u - 1 \in 1..(k+1) /\ r[u-1] = t
          /\ tmp = s[j+1] /\ tmp \in Timer
      <4>1. k \in Nat
        BY <1>1
      <4>2. /\ j < k /\ u - 1 = j + 1 /\ u - 1 \in 1..(k+1)
            /\ ~(u <= j) /\ u # j + 1 /\ ~(u - 1 <= j)
        BY <1>5, <2>3, <4>1
      <4>3. r[u] = s[u-1] /\ r[u-1] = t
        BY <1>14, <4>2
      <4>4. QED
        BY <1>9, <4>2, <4>3
    <3>2. m.prev[tmp] = t
      BY <1>15, <3>1
    <3>3. QED
      BY <3>1, <3>2 DEF At
  <2>4. CASE u > j + 2
    <3>1. /\ j < k /\ u - 1 \in 1..k /\ u - 1 # j + 1 /\ r[u] = s[u-1]
          /\ u - 2 \in 1..k /\ (u - 1) - 1 = u - 2
          /\ u - 1 \in 1..(k+1) /\ r[u-1] = s[u-2] /\ j + 1 \in 1..k
      <4>1. k \in Nat
        BY <1>1
      <4>2. /\ j < k /\ u - 1 \in 1..k /\ u - 1 # j + 1 /\ u - 2 \in 1..k
            /\ (u - 1) - 1 = u - 2 /\ u - 1 \in 1..(k+1) /\ j + 1 \in 1..k
        BY <1>5, <2>4, <4>1
      <4>3. ~(u <= j) /\ u # j + 1 /\ ~(u - 1 <= j) /\ u - 1 # j + 1
        BY <1>5, <2>4, <4>1
      <4>4. r[u] = s[u-1] /\ r[u-1] = s[u-2]
        BY <1>14, <4>2, <4>3
      <4>5. QED
        BY <4>2, <4>4
    <3>2. /\ l.prev[s[u-1]] = s[u-2] /\ s[u-1] # t /\ s[u-1] \in Timer /\ s[u-1] # s[j+1]
      BY <1>1, <1>5, <1>10, <3>1 DEF IsChain, At
    <3>3. QED
      BY <1>9, <1>15, <3>1, <3>2 DEF At
  <2>5. QED
    BY <1>1, <1>5, <2>1, <2>2, <2>3, <2>4
<1>18. m.head = At(r, k + 1, 1) /\ m.tail = r[k+1]
  <2>1. 1 \in 1..k /\ 1 \in 1..(k+1) /\ k + 1 \in 1..(k+1) /\ r[1] = s[1] /\ l.head = s[1]
    BY <1>1, <1>5, <1>14 DEF IsChain, At
  <2>2. r[k+1] = IF j = k THEN t ELSE s[k]
    BY <1>1, <1>5, <1>14, <2>1
  <2>3. l.tail = s[k]
    BY <1>1, <1>5 DEF IsChain
  <2>4. QED
    BY <1>12, <2>1, <2>2, <2>3 DEF At
<1>19. IsChain(m, r, k + 1)
  <2>1. m \in Links /\ k + 1 \in Nat
    BY <1>1, <1>12
  <2>2. QED
    BY <1>13, <1>16, <1>17, <1>18, <2>1 DEF IsChain
<1>20. SameOutside(l, m, Image(s, k) \cup {t})
  <2>1. s[j] \in Image(s, k) /\ (j < k => tmp \in Image(s, k))
    BY <1>1, <1>5, <1>9 DEF Image
  <2>2. QED
    BY <1>15, <2>1 DEF SameOutside
<1>21. QED
  BY <1>7, <1>19, <1>20 DEF m, r

\* A chain does not depend on the links of other timers.
LEMMA SameChain ==
  ASSUME NEW l, NEW s, NEW k, IsChain(l, s, k), NEW m \in Links,
         m.head = l.head, k > 0 => m.tail = l.tail,
         \A u \in Image(s, k) : m.next[u] = l.next[u] /\ m.prev[u] = l.prev[u]
  PROVE  IsChain(m, s, k)
<1>1. \A i \in 1..k : s[i] \in Image(s, k)
  BY DEF Image
<1>2. QED
  BY <1>1 DEF IsChain

\* A sorted chain stays sorted when t goes where it belongs.
LEMMA InsertedSorted ==
  ASSUME NEW k \in Nat, NEW s \in [1..k -> Timer], NEW p \in 0..k, NEW t \in Timer,
         NEW ex \in [Timer -> Nat], Sorted(ex, s, k),
         \A m \in 1..p : ex[s[m]] <= ex[t], \A m \in (p+1)..k : ex[t] <= ex[s[m]]
  PROVE  Sorted(ex, Inserted(s, k, p, t), k + 1)
<1> DEFINE r == Inserted(s, k, p, t)
<1>1. \A i \in 1..(k+1) : r[i] = IF i <= p THEN s[i] ELSE IF i = p + 1 THEN t ELSE s[i-1]
  BY DEF Inserted
<1>2. \A i \in 1..(k+1) : /\ i <= p => i \in 1..p /\ i \in 1..k
                          /\ i > p + 1 => i - 1 \in (p+1)..k /\ i - 1 \in 1..k
  OBVIOUS
<1>3. \A i \in 1..k : ex[s[i]] \in Nat
  OBVIOUS
<1> HIDE DEF r
<1> SUFFICES ASSUME NEW i \in 1..(k+1), NEW j \in 1..(k+1), i <= j
             PROVE  ex[r[i]] <= ex[r[j]]
  BY DEF Sorted, r
<1>4. CASE j <= p
  <2>1. i <= p
    BY <1>4
  <2>2. QED
    BY <1>1, <1>2, <1>4, <2>1 DEF Sorted
<1>5. CASE i <= p /\ ~(j <= p)
  <2>1. r[i] = s[i] /\ ex[s[i]] <= ex[t] /\ ex[s[i]] \in Nat /\ ex[t] \in Nat
    BY <1>1, <1>2, <1>3, <1>5
  <2>2. r[j] = t \/ (j - 1 \in 1..k /\ r[j] = s[j-1] /\ ex[t] <= ex[s[j-1]])
    BY <1>1, <1>2, <1>5
  <2>3. QED
    BY <1>3, <2>1, <2>2
<1>6. CASE i = p + 1
  <2>1. r[i] = t /\ ex[t] \in Nat
    BY <1>1, <1>6
  <2>2. r[j] = t \/ ex[t] <= ex[r[j]]
    BY <1>1, <1>2, <1>6
  <2>3. QED
    BY <2>1, <2>2
<1>7. CASE i > p + 1
  <2>1. /\ r[i] = s[i-1] /\ r[j] = s[j-1] /\ i - 1 \in 1..k /\ j - 1 \in 1..k
        /\ i - 1 <= j - 1
    BY <1>1, <1>2, <1>7
  <2>2. QED
    BY <2>1 DEF Sorted
<1>8. QED
  BY <1>4, <1>5, <1>6, <1>7

\* add_timer() at the head of the list
LEMMA FrontChain ==
  ASSUME NEW l, NEW s, NEW k, IsChain(l, s, k), NEW t \in Timer, t \notin Image(s, k),
         l.prev[t] = NULL, k > 0
  PROVE  LET m == [l EXCEPT !.next[t] = l.head, !.prev[l.head] = t, !.head = t] IN
         /\ IsChain(m, Inserted(s, k, 0, t), k + 1)
         /\ SameOutside(l, m, Image(s, k) \cup {t})
<1> DEFINE m == [l EXCEPT !.next[t] = l.head, !.prev[l.head] = t, !.head = t]
           r == Inserted(s, k, 0, t)
<1>1. /\ k \in Nat /\ s \in [1..k -> Timer] /\ l \in Links
      /\ \A u, v \in 1..k : s[u] = s[v] => u = v
      /\ \A u \in 1..k : l.next[s[u]] = At(s, k, u + 1) /\ l.prev[s[u]] = At(s, k, u - 1)
      /\ l.tail = s[k] /\ l.head = At(s, k, 1)
  BY DEF IsChain
<1>2. /\ \A u \in 1..k : s[u] \in Timer /\ s[u] # NULL /\ At(s, k, u) = s[u] /\ s[u] # t
      /\ At(s, k, k + 1) = NULL
  BY NodesAreTimers DEF Image
<1>3. l.head = s[1] /\ 1 \in 1..k
  BY <1>1, <1>2
<1>4. /\ m \in Links /\ m.head = t /\ m.tail = l.tail
      /\ m.next = [l.next EXCEPT ![t] = s[1]] /\ m.prev = [l.prev EXCEPT ![s[1]] = t]
  BY <1>1, <1>2, <1>3 DEF Links, Ptr
<1> HIDE DEF m
<1>5. /\ l.next \in [Timer -> Ptr] /\ l.prev \in [Timer -> Ptr]
  BY <1>1 DEF Links
<1>6. \A u \in Timer : /\ m.next[u] = IF u = t THEN s[1] ELSE l.next[u]
                       /\ m.prev[u] = IF u = s[1] THEN t ELSE l.prev[u]
  BY <1>4, <1>5
<1>7. /\ r \in [1..(k+1) -> Timer]
      /\ \A u, v \in 1..(k+1) : r[u] = r[v] => u = v
  <2>1. /\ k \in Nat /\ s \in [1..k -> Timer] /\ t \in Timer
        /\ t \notin Image(s, k) /\ \A u, v \in 1..k : s[u] = s[v] => u = v
    BY <1>1
  <2>2. PICK p \in 0..k : p = 0
    BY <2>1
  <2>3. r = Inserted(s, k, p, t)
    BY <2>2
  <2> HIDE DEF r
  <2>4. /\ r \in [1..(k+1) -> Timer]
        /\ \A u, v \in 1..(k+1) : r[u] = r[v] => u = v
        /\ Image(r, k + 1) = Image(s, k) \cup {t}
    BY <2>1, <2>3, InsertedInto
  <2>5. QED
    BY <2>4
<1>8. /\ r[1] = t /\ \A u \in 2..(k+1) : r[u] = s[u-1] /\ u - 1 \in 1..k
  BY <1>1 DEF Inserted
<1> HIDE DEF r
<1>9. ASSUME NEW u \in 1..(k+1)
      PROVE  m.next[r[u]] = At(r, k + 1, u + 1) /\ m.prev[r[u]] = At(r, k + 1, u - 1)
  <2>1. CASE u = 1
    <3>1. u + 1 \in 2..(k+1) /\ r[u+1] = s[1] /\ u + 1 \in 1..(k+1) /\ u - 1 \notin 1..(k+1)
      BY <1>1, <1>8, <2>1
    <3>2. QED
      BY <1>2, <1>3, <1>6, <1>8, <2>1, <3>1 DEF At
  <2>2. CASE u # 1
    <3>1. /\ r[u] = s[u-1] /\ u - 1 \in 1..k /\ u - 1 \in 1..(k+1) /\ (u - 1) + 1 = u
      BY <1>1, <1>8, <2>2
    <3>2. m.next[r[u]] = At(s, k, u)
      BY <1>1, <1>2, <1>6, <3>1
    <3>3. At(s, k, u) = At(r, k + 1, u + 1)
      <4>1. u <= k => u \in 1..k /\ u + 1 \in 2..(k+1) /\ u + 1 \in 1..(k+1) /\ (u + 1) - 1 = u
        BY <1>1
      <4>2. ~(u <= k) => u \notin 1..k /\ u + 1 \notin 1..(k+1)
        BY <1>1
      <4>3. QED
        BY <1>8, <4>1, <4>2 DEF At
    <3>4. m.prev[r[u]] = r[u-1]
      <4>1. CASE u = 2
        BY <1>2, <1>3, <1>6, <1>8, <3>1, <4>1
      <4>2. CASE u # 2
        <5>1. u - 1 \in 2..(k+1) /\ (u - 1) - 1 \in 1..k /\ u - 1 # 1
          BY <1>1, <2>2, <4>2
        <5>2. r[u-1] = s[(u-1)-1] /\ s[u-1] # s[1]
          BY <1>1, <1>3, <1>8, <3>1, <5>1
        <5>3. QED
          BY <1>1, <1>2, <1>6, <3>1, <5>1, <5>2
      <4>3. QED
        BY <4>1, <4>2
    <3>5. QED
      BY <3>1, <3>2, <3>3, <3>4 DEF At
  <2>3. QED
    BY <2>1, <2>2
<1>10. m.head = At(r, k + 1, 1) /\ m.tail = r[k+1] /\ k + 1 \in Nat
  <2>1. 1 \in 1..(k+1) /\ k + 1 \in 2..(k+1) /\ (k + 1) - 1 = k
    BY <1>1
  <2>2. r[k+1] = s[k]
    BY <1>8, <2>1
  <2>3. QED
    BY <1>1, <1>4, <1>8, <2>1, <2>2 DEF At
<1>11. IsChain(m, r, k + 1)
  BY <1>4, <1>7, <1>9, <1>10 DEF IsChain
<1>12. SameOutside(l, m, Image(s, k) \cup {t})
  <2>1. s[1] \in Image(s, k)
    BY <1>3 DEF Image
  <2>2. QED
    BY <1>6, <2>1 DEF SameOutside
<1>13. QED
  BY <1>11, <1>12 DEF m, r

\* Once t is linked in, the list holds one timer more.
LEMMA HoldsInserted ==
  ASSUME NEW l, NEW s, NEW k, NEW S, IsChain(l, s, k), Image(s, k) = S,
         NEW t \in Timer, t \notin S,
         \A u \in Timer \ (S \cup {t}) : l.next[u] = NULL /\ l.prev[u] = NULL,
         NEW j \in 0..k, NEW m, IsChain(m, Inserted(s, k, j, t), k + 1),
         SameOutside(l, m, Image(s, k) \cup {t})
  PROVE  Holds(m, Inserted(s, k, j, t), k + 1, S \cup {t})
<1>1. /\ k \in Nat /\ s \in [1..k -> Timer] /\ t \notin Image(s, k)
      /\ \A u, v \in 1..k : s[u] = s[v] => u = v
  BY DEF IsChain
<1>2. PICK r : r = Inserted(s, k, j, t)
  OBVIOUS
<1>3. Image(r, k + 1) = Image(s, k) \cup {t}
  <2>1. /\ k \in Nat /\ s \in [1..k -> Timer] /\ j \in 0..k /\ t \in Timer
        /\ \A u, v \in 1..k : s[u] = s[v] => u = v
        /\ t \notin Image(s, k) /\ r = Inserted(s, k, j, t)
    BY <1>1, <1>2
  <2>2. /\ r \in [1..(k+1) -> Timer]
        /\ \A u, v \in 1..(k+1) : r[u] = r[v] => u = v
        /\ Image(r, k + 1) = Image(s, k) \cup {t}
    BY <2>1, InsertedInto
  <2>3. QED
    BY <2>2
<1>4. QED
  BY <1>1, <1>2, <1>3 DEF Holds, SameOutside

\* add_timer() of a timer that is not in the list
LEMMA AddTimerHolds ==
  ASSUME NEW l, NEW s, NEW k, NEW S, Holds(l, s, k, S), NEW ex \in [Timer -> Nat],
         NEW t \in Timer \ S
  PROVE  \E r : /\ Holds(AddTimer(l, ex, t), r, k + 1, S \cup {t})
                /\ Sorted(ex, s, k) => Sorted(ex, r, k + 1)
<1> DEFINE m == AddTimer(l, ex, t)
<1>1. /\ IsChain(l, s, k) /\ Image(s, k) = S /\ t \notin Image(s, k)
      /\ l.next[t] = NULL /\ l.prev[t] = NULL
      /\ \A u \in Timer \ S : l.next[u] = NULL /\ l.prev[u] = NULL
  BY DEF Holds
<1>2. /\ k \in Nat /\ s \in [1..k -> Timer] /\ l \in Links
      /\ \A u, v \in 1..k : s[u] = s[v] => u = v
      /\ l.head = At(s, k, 1)
  BY <1>1 DEF IsChain
<1>3. \A u \in 1..k : s[u] \in Timer /\ s[u] # NULL /\ At(s, k, u) = s[u]
  BY <1>1, NodesAreTimers
<1>4. ASSUME NEW j \in 0..k, IsChain(m, Inserted(s, k, j, t), k + 1),
             SameOutside(l, m, Image(s, k) \cup {t}),
             \A u \in 1..j : ~(ex[t] < ex[s[u]]), j < k => ex[t] < ex[s[j+1]]
      PROVE  /\ Holds(m, Inserted(s, k, j, t), k + 1, S \cup {t})
             /\ Sorted(ex, s, k) => Sorted(ex, Inserted(s, k, j, t), k + 1)
  <2>1. Holds(m, Inserted(s, k, j, t), k + 1, S \cup {t})
    BY <1>1, <1>4, HoldsInserted
  <2>2. ASSUME Sorted(ex, s, k)
        PROVE  Sorted(ex, Inserted(s, k, j, t), k + 1)
    <3>1. \A u \in 1..j : ex[s[u]] <= ex[t]
      <4> TAKE u \in 1..j
      <4>1. ex[s[u]] \in Nat /\ ex[t] \in Nat
        BY <1>2
      <4>2. QED
        BY <1>4, <4>1
    <3>2. \A u \in (j+1)..k : ex[t] <= ex[s[u]]
      <4> TAKE u \in (j+1)..k
      <4>1. /\ j + 1 \in 1..k /\ u \in 1..k /\ j < k
            /\ ex[s[u]] \in Nat /\ ex[t] \in Nat /\ ex[s[j+1]] \in Nat
        BY <1>2
      <4>2. ex[s[j+1]] <= ex[s[u]]
        BY <2>2, <4>1 DEF Sorted
      <4>3. QED
        BY <1>4, <4>1, <4>2
    <3>3. QED
      BY <1>2, <2>2, <3>1, <3>2, InsertedSorted
  <2>3. QED
    BY <2>1, <2>2
<1>5. CASE k = 0
  <2>1. l.head = NULL
    BY <1>2, <1>5 DEF At
  <2>2. m = [l EXCEPT !.head = t, !.tail = t]
    BY <2>1 DEF AddTimer
  <2>3. /\ m \in Links /\ m.head = t /\ m.tail = t /\ m.next = l.next /\ m.prev = l.prev
    BY <1>2, <2>2 DEF Links, Ptr
  <2> DEFINE r == Inserted(s, k, 0, t)
  <2>4. r[1] = t /\ k + 1 = 1 /\ r \in [1..1 -> Timer]
    BY <1>5 DEF Inserted
  <2> HIDE DEF r, m
  <2>5. IsChain(m, r, 1)
    BY <1>1, <2>3, <2>4 DEF IsChain, At
  <2>6. SameOutside(l, m, Image(s, k) \cup {t})
    BY <2>3 DEF SameOutside
  <2>7. QED
    BY <1>4, <1>5, <2>4, <2>5, <2>6 DEF r, m
<1>6. CASE k > 0 /\ ex[t] < ex[s[1]]
  <2>1. l.head = s[1] /\ s[1] # NULL
    BY <1>2, <1>3, <1>6
  <2>2. m = [l EXCEPT !.next[t] = l.head, !.prev[l.head] = t, !.head = t]
    BY <1>6, <2>1 DEF AddTimer
  <2> HIDE DEF m
  <2>3. IsChain(m, Inserted(s, k, 0, t), k + 1) /\ SameOutside(l, m, Image(s, k) \cup {t})
    BY <1>1, <1>6, <2>2, FrontChain
  <2>4. 0 \in 0..k /\ (\A u \in 1..0 : ~(ex[t] < ex[s[u]])) /\ 0 + 1 = 1
    BY <1>2
  <2>5. QED
    BY <1>4, <1>6, <2>3, <2>4 DEF m
<1>7. CASE k > 0 /\ ~(ex[t] < ex[s[1]])
  <2>1. l.head = s[1] /\ s[1] # NULL /\ 1 \in 1..k
    BY <1>2, <1>3, <1>7
  <2>2. m = AddAfter(l, ex, t, s[1])
    BY <1>7, <2>1 DEF AddTimer
  <2> HIDE DEF m
  <2>3. PICK j \in 1..k : /\ IsChain(m, Inserted(s, k, j, t), k + 1)
                          /\ SameOutside(l, m, Image(s, k) \cup {t})
                          /\ \A u \in 2..j : ~(ex[t] < ex[s[u]])
                          /\ j < k => ex[t] < ex[s[j+1]]
    <3>1. 1 + 1 = 2
      OBVIOUS
    <3>2. QED
      BY <1>1, <2>1, <2>2, <3>1, AddAfterChain
  <2>4. j \in 0..k /\ \A u \in 1..j : ~(ex[t] < ex[s[u]])
    BY <1>7, <2>3
  <2>5. QED
    BY <1>4, <2>3, <2>4 DEF m
<1>8. k = 0 \/ k > 0
  BY <1>2
<1> HIDE DEF m
<1>9. QED
  BY <1>5, <1>6, <1>7, <1>8, Zenon DEF m

\* A sequence without its p-th element
LEMMA RemovedFrom ==
  ASSUME NEW k \in Nat, NEW s \in [1..k -> Timer], NEW p \in 1..k,
         \A i, j \in 1..k : s[i] = s[j] => i = j,
         NEW r, r = Removed(s, k, p)
  PROVE  /\ r \in [1..(k-1) -> Timer]
         /\ \A i, j \in 1..(k-1) : r[i] = r[j] => i = j
         /\ Image(r, k - 1) = Image(s, k) \ {s[p]}
<1>1. \A i \in 1..(k-1) : i \in 1..k /\ i + 1 \in 1..k
  OBVIOUS
<1>2. /\ r \in [1..(k-1) -> Timer]
      /\ \A i \in 1..(k-1) : r[i] = IF i < p THEN s[i] ELSE s[i+1]
  BY <1>1 DEF Removed
<1>3. \A i, j \in 1..(k-1) : r[i] = r[j] => i = j
  BY <1>1, <1>2
<1>4. \A i \in 1..(k-1) : r[i] \in Image(s, k) /\ r[i] # s[p]
  BY <1>1, <1>2 DEF Image
<1>5. ASSUME NEW i \in 1..k, i # p
      PROVE  \E u \in 1..(k-1) : r[u] = s[i]
  <2>1. CASE i < p
    <3>1. i \in 1..(k-1) /\ r[i] = s[i]
      BY <1>2, <2>1
    <3>2. QED
      BY <3>1
  <2>2. CASE i > p
    <3>1. i - 1 \in 1..(k-1) /\ ~(i - 1 < p) /\ (i - 1) + 1 = i
      BY <2>2
    <3>2. QED
      BY <1>2, <3>1
  <2>3. QED
    BY <1>5, <2>1, <2>2
<1>6. Image(r, k - 1) = Image(s, k) \ {s[p]}
  BY <1>4, <1>5 DEF Image
<1>7. QED
  BY <1>2, <1>3, <1>6

\* A sorted chain stays sorted without its p-th node.
LEMMA RemovedSorted ==
  ASSUME NEW k \in Nat, NEW s \in [1..k -> Timer], NEW p \in 1..k,
         NEW ex, Sorted(ex, s, k)
  PROVE  Sorted(ex, Removed(s, k, p), k - 1)
<1> DEFINE r == Removed(s, k, p)
<1>1. \A i \in 1..(k-1) : r[i] = IF i < p THEN s[i] ELSE s[i+1]
  BY DEF Removed
<1> HIDE DEF r
<1> SUFFICES ASSUME NEW i \in 1..(k-1), NEW j \in 1..(k-1), i <= j
             PROVE  ex[r[i]] <= ex[r[j]]
  BY DEF Sorted, r
<1>2. PICK u, v \in 1..k : u <= v /\ r[i] = s[u] /\ r[j] = s[v]
  <2>1. /\ i \in 1..k /\ i + 1 \in 1..k /\ j \in 1..k /\ j + 1 \in 1..k
        /\ i <= j + 1 /\ i + 1 <= j + 1 /\ (j < p => i < p)
    OBVIOUS
  <2>2. QED
    BY <1>1, <2>1
<1>3. QED
  BY <1>2 DEF Sorted

\* Removing the links of p, seen from the chain without it
LEMMA RemovedChain ==
  ASSUME NEW l, NEW s, NEW k, IsChain(l, s, k), NEW p \in 1..k, NEW m \in Links,
         m.head = IF p = 1 THEN At(s, k, 2) ELSE l.head,
         k > 1 => m.tail = IF p = k THEN s[k-1] ELSE l.tail,
         \A u \in 1..k : u # p => /\ m.next[s[u]] = IF u + 1 = p THEN At(s, k, p + 1) ELSE l.next[s[u]]
                                  /\ m.prev[s[u]] = IF u = p + 1 THEN At(s, k, p - 1) ELSE l.prev[s[u]]
  PROVE  IsChain(m, Removed(s, k, p), k - 1)
<1> DEFINE r == Removed(s, k, p)
<1>1. /\ k \in Nat /\ s \in [1..k -> Timer]
      /\ \A u, v \in 1..k : s[u] = s[v] => u = v
      /\ l.head = At(s, k, 1) /\ l.tail = s[k]
      /\ \A u \in 1..k : l.next[s[u]] = At(s, k, u + 1) /\ l.prev[s[u]] = At(s, k, u - 1)
  BY DEF IsChain
<1>2. /\ r \in [1..(k-1) -> Timer]
      /\ \A u, v \in 1..(k-1) : r[u] = r[v] => u = v
  <2>1. /\ k \in Nat /\ s \in [1..k -> Timer] /\ p \in 1..k
        /\ \A u, v \in 1..k : s[u] = s[v] => u = v
    BY <1>1
  <2>2. r = Removed(s, k, p)
    OBVIOUS
  <2> HIDE DEF r
  <2>3. QED
    BY <2>1, <2>2, RemovedFrom
<1>3. \A u \in 1..(k-1) : r[u] = IF u < p THEN s[u] ELSE s[u+1]
  BY DEF Removed
<1> HIDE DEF r
<1>4. m.head = At(r, k - 1, 1)
  <2>1. CASE k = 1
    BY <1>1, <2>1 DEF At
  <2>2. CASE k > 1 /\ p = 1
    BY <1>1, <1>3, <2>2 DEF At
  <2>3. CASE k > 1 /\ p # 1
    BY <1>1, <1>3, <2>3 DEF At
  <2>4. QED
    BY <1>1, <2>1, <2>2, <2>3
<1>5. k - 1 > 0 => m.tail = r[k-1]
  BY <1>1, <1>3
<1>6. ASSUME NEW u \in 1..(k-1)
      PROVE  m.next[r[u]] = At(r, k - 1, u + 1) /\ m.prev[r[u]] = At(r, k - 1, u - 1)
  <2>1. CASE u < p
    <3>1. /\ u \in 1..k /\ u # p /\ u # p + 1 /\ r[u] = s[u]
          /\ m.next[s[u]] = IF u + 1 = p THEN At(s, k, p + 1) ELSE l.next[s[u]]
          /\ m.prev[s[u]] = l.prev[s[u]]
      BY <1>1, <1>3, <2>1
    <3>2. m.next[s[u]] = At(r, k - 1, u + 1)
      <4>1. CASE u + 1 = p /\ p < k
        <5>1. u + 1 \in 1..(k-1) /\ r[u+1] = s[p+1] /\ p + 1 \in 1..k
          BY <1>1, <1>3, <4>1
        <5>2. QED
          BY <3>1, <4>1, <5>1 DEF At
      <4>2. CASE u + 1 = p /\ p = k
        <5>1. u + 1 \notin 1..(k-1) /\ p + 1 \notin 1..k
          BY <1>1, <4>2
        <5>2. QED
          BY <3>1, <4>2, <5>1 DEF At
      <4>3. CASE u + 1 < p
        <5>1. u + 1 \in 1..(k-1) /\ r[u+1] = s[u+1] /\ u + 1 \in 1..k
          BY <1>1, <1>3, <4>3
        <5>2. QED
          BY <1>1, <3>1, <4>3, <5>1 DEF At
      <4>4. QED
        BY <1>1, <2>1, <4>1, <4>2, <4>3
    <3>3. l.prev[s[u]] = At(r, k - 1, u - 1)
      <4>1. u > 1 => u - 1 \in 1..(k-1) /\ r[u-1] = s[u-1] /\ u - 1 \in 1..k
        BY <1>1, <1>3, <2>1
      <4>2. u = 1 => u - 1 \notin 1..(k-1) /\ u - 1 \notin 1..k
        BY <1>1
      <4>3. QED
        BY <1>1, <3>1, <4>1, <4>2 DEF At
    <3>4. QED
      BY <3>1, <3>2, <3>3
  <2>2. CASE ~(u < p)
    <3>1. /\ u + 1 \in 1..k /\ u + 1 # p /\ (u + 1) + 1 # p /\ r[u] = s[u+1]
          /\ m.next[s[u+1]] = l.next[s[u+1]]
          /\ m.prev[s[u+1]] = IF u = p THEN At(s, k, p - 1) ELSE l.prev[s[u+1]]
      BY <1>1, <1>3, <2>2
    <3>2. l.next[s[u+1]] = At(r, k - 1, u + 1)
      <4>1. u + 1 <= k - 1 => /\ u + 1 \in 1..(k-1) /\ r[u+1] = s[(u+1)+1] /\ (u + 1) + 1 \in 1..k
        BY <1>1, <1>3, <2>2
      <4>2. ~(u + 1 <= k - 1) => u + 1 \notin 1..(k-1) /\ (u + 1) + 1 \notin 1..k
        BY <1>1
      <4>3. QED
        BY <1>1, <3>1, <4>1, <4>2 DEF At
    <3>3. m.prev[s[u+1]] = At(r, k - 1, u - 1)
      <4>1. CASE u = p
        <5>1. u > 1 => u - 1 \in 1..(k-1) /\ r[u-1] = s[u-1] /\ u - 1 \in 1..k
          <6>1. k \in Nat
            BY <1>1
          <6>2. u > 1 => u - 1 \in 1..(k-1) /\ u - 1 \in 1..k /\ u - 1 < p
            BY <4>1, <6>1
          <6>3. QED
            BY <1>3, <6>2
        <5>2. u = 1 => u - 1 \notin 1..(k-1) /\ u - 1 \notin 1..k
          BY <1>1
        <5>3. QED
          BY <1>1, <3>1, <4>1, <5>1, <5>2 DEF At
      <4>2. CASE u > p
        <5>1. /\ u - 1 \in 1..(k-1) /\ r[u-1] = s[u] /\ u \in 1..k /\ u # p
              /\ (u + 1) - 1 = u
          <6>1. k \in Nat
            BY <1>1
          <6>2. /\ u - 1 \in 1..(k-1) /\ ~(u - 1 < p) /\ (u - 1) + 1 = u
                /\ u \in 1..k /\ u # p /\ (u + 1) - 1 = u
            BY <4>2, <6>1
          <6>3. r[u-1] = s[(u-1)+1]
            BY <1>3, <6>2
          <6>4. QED
            BY <6>2, <6>3
        <5>2. QED
          BY <1>1, <3>1, <4>2, <5>1 DEF At
      <4>3. QED
        BY <2>2, <4>1, <4>2
    <3>4. QED
      BY <3>1, <3>2, <3>3
  <2>3. QED
    BY <2>1, <2>2
<1>7. k - 1 \in Nat
  BY <1>1
<1>8. IsChain(m, r, k - 1)
  BY <1>2, <1>4, <1>5, <1>6, <1>7 DEF IsChain
<1>9. QED
  BY <1>8 DEF r

\* A node between two others is taken out.
LEMMA UnlinkChain ==
  ASSUME NEW l, NEW s, NEW k, IsChain(l, s, k), NEW p \in 2..(k-1)
  PROVE  /\ IsChain(Unlink(l, s[p]), Removed(s, k, p), k - 1)
         /\ SameOutside(l, Unlink(l, s[p]), Image(s, k))
<1> DEFINE m == Unlink(l, s[p])
<1>1. /\ k \in Nat /\ s \in [1..k -> Timer] /\ l \in Links
      /\ \A u, v \in 1..k : s[u] = s[v] => u = v
      /\ \A u \in 1..k : l.next[s[u]] = At(s, k, u + 1) /\ l.prev[s[u]] = At(s, k, u - 1)
  BY DEF IsChain
<1>2. /\ p \in 1..k /\ p - 1 \in 1..k /\ p + 1 \in 1..k /\ p # 1 /\ p # k
  BY <1>1
<1>3. /\ l.prev[s[p]] = s[p-1] /\ l.next[s[p]] = s[p+1]
      /\ At(s, k, p - 1) = s[p-1] /\ At(s, k, p + 1) = s[p+1]
  BY <1>1, <1>2 DEF At
<1>4. s[p] \in Timer /\ s[p-1] \in Timer /\ s[p+1] \in Timer
  BY <1>1, <1>2
<1>5. m = [l EXCEPT !.next[s[p-1]] = s[p+1], !.prev[s[p+1]] = s[p-1]]
  BY <1>3 DEF Unlink
<1> HIDE DEF m
<1>6. /\ m \in Links /\ m.head = l.head /\ m.tail = l.tail
      /\ m.next = [l.next EXCEPT ![s[p-1]] = s[p+1]]
      /\ m.prev = [l.prev EXCEPT ![s[p+1]] = s[p-1]]
  BY <1>1, <1>4, <1>5 DEF Links, Ptr
<1>7. l.next \in [Timer -> Ptr] /\ l.prev \in [Timer -> Ptr]
  BY <1>1 DEF Links
<1>8. \A u \in Timer : /\ m.next[u] = IF u = s[p-1] THEN s[p+1] ELSE l.next[u]
                       /\ m.prev[u] = IF u = s[p+1] THEN s[p-1] ELSE l.prev[u]
  BY <1>6, <1>7
<1>9. \A u \in 1..k : /\ s[u] = s[p-1] <=> u + 1 = p
                      /\ s[u] = s[p+1] <=> u = p + 1
  <2> TAKE u \in 1..k
  <2>1. k \in Nat /\ p \in Nat
    BY <1>1, <1>2
  <2>2. (u = p - 1) <=> (u + 1 = p)
    BY <2>1
  <2>3. s[u] = s[p-1] <=> u = p - 1
    BY <1>1, <1>2
  <2>4. s[u] = s[p+1] <=> u = p + 1
    BY <1>1, <1>2
  <2>5. QED
    BY <2>2, <2>3, <2>4
<1>10. \A u \in 1..k : /\ m.next[s[u]] = IF u + 1 = p THEN At(s, k, p + 1) ELSE l.next[s[u]]
                       /\ m.prev[s[u]] = IF u = p + 1 THEN At(s, k, p - 1) ELSE l.prev[s[u]]
  BY <1>1, <1>3, <1>8, <1>9
<1>11. IsChain(m, Removed(s, k, p), k - 1)
  <2>1. m.head = (IF p = 1 THEN At(s, k, 2) ELSE l.head)
    BY <1>2, <1>6
  <2>2. m.tail = (IF p = k THEN s[k-1] ELSE l.tail)
    BY <1>2, <1>6
  <2>3. m \in Links /\ p \in 1..k
    BY <1>2, <1>6
  <2>4. QED
    BY <1>10, <2>1, <2>2, <2>3, RemovedChain
<1>12. s[p-1] \in Image(s, k) /\ s[p+1] \in Image(s, k)
  BY <1>2 DEF Image
<1>13. QED
  BY <1>8, <1>11, <1>12 DEF SameOutside, m

\* The first of several nodes is taken out.
LEMMA DropHeadChain ==
  ASSUME NEW l, NEW s, NEW k, IsChain(l, s, k), k > 1
  PROVE  /\ IsChain(DropHead(l), Removed(s, k, 1), k - 1)
         /\ SameOutside(l, DropHead(l), Image(s, k))
<1> DEFINE m == DropHead(l)
<1>1. /\ k \in Nat /\ s \in [1..k -> Timer] /\ l \in Links
      /\ \A u, v \in 1..k : s[u] = s[v] => u = v
      /\ \A u \in 1..k : l.next[s[u]] = At(s, k, u + 1) /\ l.prev[s[u]] = At(s, k, u - 1)
      /\ l.head = At(s, k, 1)
  BY DEF IsChain
<1>2. 1 \in 1..k /\ 2 \in 1..k /\ k # 1
  BY <1>1
<1>3. /\ l.head = s[1] /\ l.next[s[1]] = s[2] /\ At(s, k, 2) = s[2] /\ At(s, k, 0) = NULL
      /\ s[1] \in Timer /\ s[2] \in Timer
  BY <1>1, <1>2 DEF At
<1>4. m = [l EXCEPT !.head = s[2], !.prev[s[2]] = NULL]
  BY <1>3 DEF DropHead
<1> HIDE DEF m
<1>5. /\ m \in Links /\ m.head = s[2] /\ m.tail = l.tail /\ m.next = l.next
      /\ m.prev = [l.prev EXCEPT ![s[2]] = NULL]
  BY <1>1, <1>3, <1>4 DEF Links, Ptr
<1>6. l.prev \in [Timer -> Ptr]
  BY <1>1 DEF Links
<1>7. \A u \in Timer : m.prev[u] = IF u = s[2] THEN NULL ELSE l.prev[u]
  BY <1>5, <1>6
<1>8. \A u \in 1..k : u # 1 =>
        /\ m.next[s[u]] = IF u + 1 = 1 THEN At(s, k, 1 + 1) ELSE l.next[s[u]]
        /\ m.prev[s[u]] = IF u = 1 + 1 THEN At(s, k, 1 - 1) ELSE l.prev[s[u]]
  BY <1>1, <1>2, <1>3, <1>5, <1>7
<1>9. m.tail = IF 1 = k THEN s[k-1] ELSE l.tail
  BY <1>2, <1>5
<1>10. m.head = IF 1 = 1 THEN At(s, k, 2) ELSE l.head
  BY <1>3, <1>5
<1>11. IsChain(m, Removed(s, k, 1), k - 1)
  BY <1>2, <1>5, <1>8, <1>9, <1>10, RemovedChain
<1>12. s[2] \in Image(s, k)
  BY <1>2 DEF Image
<1>13. QED
  BY <1>5, <1>7, <1>11, <1>12 DEF SameOutside, m

\* The last of several nodes is taken out.
LEMMA DropTailChain ==
  ASSUME NEW l, NEW s, NEW k, IsChain(l, s, k), k > 1
  PROVE  LET m == [l EXCEPT !.tail = l.prev[s[k]], !.next[l.prev[s[k]]] = NULL] IN
         /\ IsChain(m, Removed(s, k, k), k - 1)
         /\ SameOutside(l, m, Image(s, k))
<1> DEFINE m == [l EXCEPT !.tail = l.prev[s[k]], !.next[l.prev[s[k]]] = NULL]
<1>1. /\ k \in Nat /\ s \in [1..k -> Timer] /\ l \in Links
      /\ \A u, v \in 1..k : s[u] = s[v] => u = v
      /\ \A u \in 1..k : l.next[s[u]] = At(s, k, u + 1) /\ l.prev[s[u]] = At(s, k, u - 1)
  BY DEF IsChain
<1>2. k \in 1..k /\ k - 1 \in 1..k /\ k # 1 /\ k + 1 \notin 1..k
  BY <1>1
<1>3. /\ l.prev[s[k]] = s[k-1] /\ At(s, k, k + 1) = NULL
      /\ s[k-1] \in Timer /\ s[k] \in Timer
  BY <1>1, <1>2 DEF At
<1>4. m = [l EXCEPT !.tail = s[k-1], !.next[s[k-1]] = NULL]
  BY <1>3
<1> HIDE DEF m
<1>5. /\ m \in Links /\ m.head = l.head /\ m.tail = s[k-1] /\ m.prev = l.prev
      /\ m.next = [l.next EXCEPT ![s[k-1]] = NULL]
  BY <1>1, <1>3, <1>4 DEF Links, Ptr
<1>6. l.next \in [Timer -> Ptr]
  BY <1>1 DEF Links
<1>7. \A u \in Timer : m.next[u] = IF u = s[k-1] THEN NULL ELSE l.next[u]
  BY <1>5, <1>6
<1>8. \A u \in 1..k : u # k =>
        /\ m.next[s[u]] = IF u + 1 = k THEN At(s, k, k + 1) ELSE l.next[s[u]]
        /\ m.prev[s[u]] = IF u = k + 1 THEN At(s, k, k - 1) ELSE l.prev[s[u]]
  BY <1>1, <1>2, <1>3, <1>5, <1>7
<1>9. m.tail = IF k = k THEN s[k-1] ELSE l.tail
  BY <1>5
<1>10. m.head = IF k = 1 THEN At(s, k, 2) ELSE l.head
  BY <1>2, <1>5
<1>11. IsChain(m, Removed(s, k, k), k - 1)
  BY <1>2, <1>5, <1>8, <1>9, <1>10, RemovedChain
<1>12. s[k-1] \in Image(s, k)
  BY <1>2 DEF Image
<1>13. QED
  BY <1>5, <1>7, <1>11, <1>12 DEF SameOutside, m

\* adjust_timer() first takes the timer, which is not the last, out of the list.
Cut(l, t) == IF t = l.head THEN [DropHead(l) EXCEPT !.next[t] = NULL] ELSE Unlink(l, t)

\* The list without the timer that is being adjusted, whose successor takes its place
LEMMA CutChain ==
  ASSUME NEW l, NEW s, NEW k, NEW S, Holds(l, s, k, S), NEW p \in 1..(k-1)
  PROVE  /\ IsChain(Cut(l, s[p]), Removed(s, k, p), k - 1)
         /\ Image(Removed(s, k, p), k - 1) = S \ {s[p]}
         /\ \A u \in Timer \ S : Cut(l, s[p]).next[u] = NULL /\ Cut(l, s[p]).prev[u] = NULL
         /\ Removed(s, k, p)[p] = s[p+1]
<1> DEFINE t == s[p]
           cut == Cut(l, t)
<1>1. /\ IsChain(l, s, k) /\ Image(s, k) = S
      /\ \A u \in Timer \ S : l.next[u] = NULL /\ l.prev[u] = NULL
      /\ k \in Nat /\ s \in [1..k -> Timer] /\ l.head = At(s, k, 1)
      /\ \A u, v \in 1..k : s[u] = s[v] => u = v
  BY DEF Holds, IsChain
<1>2. l.head = s[1] /\ p \in 1..k /\ p + 1 \in 1..k /\ k > 1 /\ t \in Timer /\ t \in S
  BY <1>1 DEF At, Image
<1>3. t = l.head <=> p = 1
  BY <1>1, <1>2
<1>4. PICK r : r = Removed(s, k, p)
  OBVIOUS
<1>5. r[p] = s[p+1]
  BY <1>4 DEF Removed
<1>6. Image(r, k - 1) = S \ {t}
  <2>1. Image(r, k - 1) = Image(s, k) \ {s[p]}
    BY <1>1, <1>2, <1>4, RemovedFrom
  <2>2. QED
    BY <1>1, <2>1
<1>7. /\ IsChain(cut, r, k - 1) /\ \A u \in Timer \ S : cut.next[u] = NULL /\ cut.prev[u] = NULL
  <2>1. CASE p = 1
    <3>1. PICK d : d = DropHead(l)
      OBVIOUS
    <3>2. IsChain(d, r, k - 1) /\ SameOutside(l, d, S)
      BY <1>1, <1>2, <1>4, <2>1, <3>1, DropHeadChain
    <3>3. d \in Links /\ cut = [d EXCEPT !.next[t] = NULL]
      BY <1>3, <2>1, <3>1, <3>2 DEF Cut, IsChain
    <3> HIDE DEF cut
    <3>4. /\ cut \in Links /\ cut.head = d.head /\ cut.tail = d.tail /\ cut.prev = d.prev
          /\ cut.next = [d.next EXCEPT ![t] = NULL]
      BY <1>2, <3>3 DEF Links, Ptr
    <3>5. d.next \in [Timer -> Ptr]
      BY <3>3 DEF Links
    <3>6. \A u \in Timer : u # t => cut.next[u] = d.next[u] /\ cut.prev[u] = d.prev[u]
      BY <3>4, <3>5
    <3>7. \A u \in Image(r, k - 1) : cut.next[u] = d.next[u] /\ cut.prev[u] = d.prev[u]
      <4>1. \A u \in S : u \in Timer
        BY <1>1 DEF Image
      <4>2. QED
        BY <1>6, <3>6, <4>1
    <3>8. IsChain(cut, r, k - 1)
      BY <3>2, <3>4, <3>7, SameChain
    <3>9. QED
      BY <1>1, <1>2, <3>2, <3>6, <3>8 DEF SameOutside
  <2>2. CASE p # 1
    <3>1. p \in 2..(k-1) /\ cut = Unlink(l, s[p])
      BY <1>3, <2>2 DEF Cut
    <3> HIDE DEF cut
    <3>2. IsChain(cut, r, k - 1) /\ SameOutside(l, cut, S)
      BY <1>1, <1>4, <3>1, UnlinkChain
    <3>3. QED
      BY <1>1, <3>2 DEF SameOutside
  <2>3. QED
    BY <2>1, <2>2
<1>8. QED
  BY <1>4, <1>5, <1>6, <1>7

\* adjust_timer() of the p-th timer, whose expiry ex may be another than old.
LEMMA AdjustTimerHolds ==
  ASSUME NEW l, NEW s, NEW k, NEW S, Holds(l, s, k, S), NEW p \in 1..k,
         NEW old \in [Timer -> Nat], NEW e \in Nat, NEW ex, ex = [old EXCEPT ![s[p]] = e]
  PROVE  \E r : /\ Holds(AdjustTimer(l, ex, s[p]), r, k, S)
                /\ Sorted(old, s, k) /\ old[s[p]] <= e => Sorted(ex, r, k)
<1> DEFINE t == s[p]
           m == AdjustTimer(l, ex, t)
<1>1. /\ IsChain(l, s, k) /\ Image(s, k) = S
      /\ \A u \in Timer \ S : l.next[u] = NULL /\ l.prev[u] = NULL
      /\ k \in Nat /\ s \in [1..k -> Timer] /\ l \in Links /\ l.head = At(s, k, 1)
      /\ \A u, v \in 1..k : s[u] = s[v] => u = v
      /\ \A u \in 1..k : l.next[s[u]] = At(s, k, u + 1)
  BY DEF Holds, IsChain
<1>2. /\ t \in Timer /\ ex \in [Timer -> Nat] /\ ex[t] = e
      /\ \A u \in Timer : u # t => ex[u] = old[u]
  BY <1>1
<1>3. l.head = s[1] /\ 1 \in 1..k
  BY <1>1 DEF At
<1>4. \A u \in 1..k : s[u] \in Timer /\ s[u] # NULL
  BY <1>1, NodesAreTimers
<1>5. CASE p = k \/ ex[t] < ex[s[p+1]]
  <2>1. m = l
    BY <1>1, <1>5 DEF AdjustTimer, At
  <2>2. ASSUME Sorted(old, s, k), old[t] <= e
        PROVE  Sorted(ex, s, k)
    <3> SUFFICES ASSUME NEW i \in 1..k, NEW j \in 1..k, i <= j
                 PROVE  ex[s[i]] <= ex[s[j]]
      BY DEF Sorted
    <3>1. old[s[i]] <= old[s[j]] /\ old[s[i]] \in Nat /\ old[s[j]] \in Nat /\ old[t] \in Nat
      BY <1>1, <1>2, <2>2 DEF Sorted
    <3>2. CASE i # p /\ j # p
      <4>1. s[i] # t /\ s[j] # t
        BY <1>1, <3>2
      <4>2. ex[s[i]] = old[s[i]] /\ ex[s[j]] = old[s[j]]
        BY <1>2, <1>4, <4>1
      <4>3. QED
        BY <3>1, <4>2
    <3>3. CASE i # p /\ j = p
      BY <1>1, <1>2, <1>4, <2>2, <3>1, <3>3
    <3>4. CASE i = p /\ j = p
      BY <1>2, <3>4
    <3>5. CASE i = p /\ j # p
      <4>1. p + 1 \in 1..k /\ p + 1 <= j /\ p + 1 # p /\ p # k
        BY <1>1, <3>5
      <4>2. ex[t] < ex[s[p+1]]
        BY <1>5, <4>1
      <4>3. ex[s[p+1]] = old[s[p+1]] /\ ex[s[j]] = old[s[j]]
        BY <1>1, <1>2, <1>4, <3>5, <4>1
      <4>4. old[s[p+1]] <= old[s[j]] /\ old[s[p+1]] \in Nat
        BY <1>4, <2>2, <4>1 DEF Sorted
      <4>5. QED
        BY <1>2, <3>1, <3>5, <4>2, <4>3, <4>4
    <3>6. QED
      BY <3>2, <3>3, <3>4, <3>5
  <2>3. QED
    BY <1>1, <2>1, <2>2 DEF m
<1>6. CASE p # k /\ ~(ex[t] < ex[s[p+1]])
  <2> DEFINE r == Removed(s, k, p)
             cut == Cut(l, t)
  <2>1. /\ p + 1 \in 1..k /\ p \in 1..(k-1) /\ k > 1 /\ (k - 1) + 1 = k
        /\ l.next[t] = s[p+1] /\ s[p+1] # NULL
    BY <1>1, <1>4, <1>6 DEF At
  <2>2. t = l.head <=> p = 1
    BY <1>1, <1>3
  <2>3. m = AddAfter(cut, ex, t, s[p+1])
    BY <1>6, <2>1, <2>2 DEF AdjustTimer, Cut
  <2>4. /\ IsChain(cut, r, k - 1) /\ Image(r, k - 1) = S \ {t} /\ r[p] = s[p+1]
        /\ \A u \in Timer \ S : cut.next[u] = NULL /\ cut.prev[u] = NULL
    BY <2>1, CutChain
  <2>5. r \in [1..(k-1) -> Timer]
    BY <2>4 DEF IsChain
  <2> HIDE DEF cut, r, m
  <2>6. t \notin Image(r, k - 1)
    BY <2>4
  <2>7. PICK j \in p..(k-1) :
           /\ IsChain(m, Inserted(r, k - 1, j, t), (k - 1) + 1)
           /\ SameOutside(cut, m, Image(r, k - 1) \cup {t})
           /\ \A u \in (p+1)..j : ~(ex[t] < ex[r[u]])
           /\ j < k - 1 => ex[t] < ex[r[j+1]]
    <3>1. m = AddAfter(cut, ex, t, r[p])
      BY <2>3, <2>4
    <3>2. IsChain(cut, r, k - 1) /\ p \in 1..(k-1) /\ t \in Timer
      BY <1>2, <2>1, <2>4
    <3>3. QED
      BY <2>6, <3>1, <3>2, AddAfterChain
  <2>8. k - 1 \in Nat /\ j \in 0..(k-1)
    BY <1>1, <2>1
  <2> DEFINE q == Inserted(r, k - 1, j, t)
  <2>9. Holds(m, q, k, S)
    <3>1. \A u \in Timer \ ((S \ {t}) \cup {t}) : cut.next[u] = NULL /\ cut.prev[u] = NULL
      BY <2>4
    <3>2. t \in Timer /\ t \notin S \ {t} /\ (S \ {t}) \cup {t} = S
      BY <1>1, <1>2 DEF Image
    <3>3. Holds(m, q, (k - 1) + 1, (S \ {t}) \cup {t})
      BY <2>4, <2>7, <2>8, <3>1, <3>2, HoldsInserted
    <3>4. QED
      BY <2>1, <3>2, <3>3
  <2>10. ASSUME Sorted(old, s, k), old[t] <= e
         PROVE  Sorted(ex, q, k)
    <3>1. Sorted(old, r, k - 1)
      BY <1>1, <2>10, RemovedSorted DEF r
    <3>2. \A u \in 1..(k-1) : r[u] \in Timer /\ r[u] # t
      BY <2>5, <2>6 DEF Image
    <3>3. \A u \in 1..(k-1) : ex[r[u]] = old[r[u]] /\ old[r[u]] \in Nat
      BY <1>2, <3>2
    <3>4. Sorted(ex, r, k - 1)
      BY <3>1, <3>3 DEF Sorted
    <3>5. ex[t] \in Nat /\ \A u \in 1..(k-1) : ex[r[u]] \in Nat
      BY <1>2, <3>2
    <3>6. \A u \in 1..j : ex[r[u]] <= ex[t]
      <4> TAKE u \in 1..j
      <4>1. u \in 1..(k-1) /\ p \in 1..(k-1) /\ ex[r[u]] \in Nat /\ ex[r[p]] \in Nat
        BY <2>1, <2>8, <3>5
      <4>2. ex[r[p]] <= ex[t]
        BY <1>6, <2>4, <3>5, <4>1
      <4>3. CASE u <= p
        <5>1. ex[r[u]] <= ex[r[p]]
          BY <3>4, <4>1, <4>3 DEF Sorted
        <5>2. QED
          BY <3>5, <4>1, <4>2, <5>1
      <4>4. CASE u > p
        <5>1. u \in (p+1)..j
          BY <1>1, <4>4
        <5>2. QED
          BY <2>7, <3>5, <4>1, <5>1
      <4>5. QED
        BY <1>1, <4>3, <4>4
    <3>7. \A u \in (j+1)..(k-1) : ex[t] <= ex[r[u]]
      <4> TAKE u \in (j+1)..(k-1)
      <4>1. /\ u \in 1..(k-1) /\ j + 1 \in 1..(k-1) /\ j + 1 <= u /\ j < k - 1
            /\ ex[r[u]] \in Nat /\ ex[r[j+1]] \in Nat
        BY <1>1, <2>8, <3>5
      <4>2. ex[r[j+1]] <= ex[r[u]]
        BY <3>4, <4>1 DEF Sorted
      <4>3. QED
        BY <2>7, <3>5, <4>1, <4>2
    <3>8. Sorted(ex, q, (k - 1) + 1)
      BY <1>2, <2>5, <2>8, <3>4, <3>6, <3>7, InsertedSorted
    <3>9. QED
      BY <2>1, <3>8
  <2>11. QED
    BY <2>9, <2>10 DEF m
<1>7. QED
  BY <1>5, <1>6


\* 'delete' of timers that are no longer in the list leaves the list alone.
LEMMA FreedHolds ==
  ASSUME NEW l, NEW r, NEW k, IsChain(l, r, k), NEW S, NEW D, Image(r, k) = S \ D,
         \A u \in Timer \ S : l.next[u] = NULL /\ l.prev[u] = NULL
  PROVE  Holds(Freed(l, D), r, k, S \ D)
<1> DEFINE m == Freed(l, D)
<1>1. l \in Links
  BY DEF IsChain
<1>2. /\ m \in Links /\ m.head = l.head /\ m.tail = l.tail
      /\ m.prev = [u \in Timer |-> IF u \in D THEN NULL ELSE l.prev[u]]
      /\ m.next = [u \in Timer |-> IF u \in D THEN NULL ELSE l.next[u]]
  BY <1>1 DEF Freed, Links, Ptr
<1> HIDE DEF m
<1>3. \A u \in Timer : /\ m.prev[u] = IF u \in D THEN NULL ELSE l.prev[u]
                       /\ m.next[u] = IF u \in D THEN NULL ELSE l.next[u]
  BY <1>2
<1>4. \A u \in Image(r, k) : u \in Timer
  BY DEF IsChain, Image
<1>5. \A u \in Image(r, k) : m.next[u] = l.next[u] /\ m.prev[u] = l.prev[u]
  BY <1>3, <1>4
<1>6. IsChain(m, r, k)
  BY <1>2, <1>5, SameChain
<1>7. \A u \in Timer \ (S \ D) : m.next[u] = NULL /\ m.prev[u] = NULL
  BY <1>3
<1>8. QED
  BY <1>6, <1>7 DEF Holds, m

\* del_timer() of the p-th timer
LEMMA DelTimerHolds ==
  ASSUME NEW l, NEW s, NEW k, NEW S, Holds(l, s, k, S), NEW p \in 1..k
  PROVE  Holds(Freed(DelTimer(l, s[p]), {s[p]}), Removed(s, k, p), k - 1, S \ {s[p]})
<1> DEFINE t == s[p]
           m == DelTimer(l, t)
<1>1. /\ IsChain(l, s, k) /\ Image(s, k) = S
      /\ \A u \in Timer \ S : l.next[u] = NULL /\ l.prev[u] = NULL
      /\ k \in Nat /\ s \in [1..k -> Timer] /\ l \in Links /\ l.head = At(s, k, 1)
      /\ k > 0 => l.tail = s[k]
      /\ \A u, v \in 1..k : s[u] = s[v] => u = v
  BY DEF Holds, IsChain
<1>2. /\ 1 \in 1..k /\ k \in 1..k /\ t \in Timer
      /\ l.head = s[1] /\ l.tail = s[k]
  BY <1>1 DEF At
<1>3. (t = l.head <=> p = 1) /\ (t = l.tail <=> p = k)
  BY <1>1, <1>2
<1>4. PICK r : r = Removed(s, k, p)
  OBVIOUS
<1>5. Image(r, k - 1) = S \ {t}
  <2>1. Image(r, k - 1) = Image(s, k) \ {s[p]}
    BY <1>1, <1>4, RemovedFrom
  <2>2. QED
    BY <1>1, <2>1
<1>6. IsChain(m, r, k - 1) /\ \A u \in Timer \ S : m.next[u] = NULL /\ m.prev[u] = NULL
  <2>1. CASE p = 1 /\ k = 1
    <3>1. m = [l EXCEPT !.head = NULL, !.tail = NULL]
      BY <1>3, <2>1 DEF DelTimer
    <3> HIDE DEF m
    <3>2. m \in Links /\ m.head = NULL /\ m.next = l.next /\ m.prev = l.prev
      BY <1>1, <3>1 DEF Links, Ptr
    <3>3. k - 1 = 0 /\ r \in [1..0 -> Timer]
      BY <1>4, <2>1 DEF Removed
    <3>4. IsChain(m, r, 0)
      BY <3>2, <3>3 DEF IsChain, At
    <3>5. QED
      BY <1>1, <3>2, <3>3, <3>4
  <2>2. CASE p = 1 /\ k # 1
    <3>1. m = DropHead(l) /\ k > 1
      BY <1>1, <1>2, <1>3, <2>2 DEF DelTimer
    <3> HIDE DEF m
    <3>2. IsChain(m, r, k - 1) /\ SameOutside(l, m, S)
      BY <1>1, <1>4, <2>2, <3>1, DropHeadChain
    <3>3. QED
      BY <1>1, <3>2 DEF SameOutside
  <2>3. CASE p # 1 /\ p = k
    <3>1. m = [l EXCEPT !.tail = l.prev[s[k]], !.next[l.prev[s[k]]] = NULL] /\ k > 1
      BY <1>1, <1>2, <1>3, <2>3 DEF DelTimer
    <3> HIDE DEF m
    <3>2. IsChain(m, r, k - 1) /\ SameOutside(l, m, S)
      <4>1. r = Removed(s, k, k) /\ IsChain(l, s, k) /\ k > 1 /\ Image(s, k) = S
        BY <1>1, <1>4, <2>3, <3>1
      <4>2. QED
        BY <3>1, <4>1, DropTailChain
    <3>3. QED
      BY <1>1, <3>2 DEF SameOutside
  <2>4. CASE p # 1 /\ p # k
    <3>1. m = Unlink(l, s[p]) /\ p \in 2..(k-1)
      BY <1>1, <1>3, <2>4 DEF DelTimer
    <3> HIDE DEF m
    <3>2. IsChain(m, r, k - 1) /\ SameOutside(l, m, S)
      BY <1>1, <1>4, <3>1, UnlinkChain
    <3>3. QED
      BY <1>1, <3>2 DEF SameOutside
  <2>5. QED
    BY <2>1, <2>2, <2>3, <2>4
<1> HIDE DEF m
<1>7. Holds(Freed(m, {t}), r, k - 1, S \ {t})
  BY <1>5, <1>6, FreedHolds
<1>8. QED
  BY <1>4, <1>7 DEF m

\* The list from its j-th node on, as tick() leaves it
FromNode(l, h) == IF h = NULL THEN [l EXCEPT !.head = NULL]
                              ELSE [l EXCEPT !.head = h, !.prev[h] = NULL]

\* The links after the loop of tick()
LEMMA FromNodeLinks ==
  ASSUME NEW l \in Links, NEW h \in Ptr
  PROVE  LET m == FromNode(l, h) IN
         /\ m \in Links /\ m.head = h /\ m.tail = l.tail /\ m.next = l.next
         /\ \A u \in Timer : m.prev[u] = IF u = h THEN NULL ELSE l.prev[u]
<1>1. l.prev \in [Timer -> Ptr] /\ NULL \notin Timer
  BY ListAssumption DEF Links, ListAssumption
<1> DEFINE m == FromNode(l, h)
<1>2. CASE h = NULL
  <2>1. m = [l EXCEPT !.head = NULL]
    BY <1>2 DEF FromNode
  <2> HIDE DEF m
  <2>2. m \in Links /\ m.head = h /\ m.tail = l.tail /\ m.next = l.next /\ m.prev = l.prev
    BY <1>2, <2>1 DEF Links, Ptr
  <2>3. QED
    BY <1>1, <1>2, <2>2 DEF m
<1>3. CASE h # NULL
  <2>1. m = [l EXCEPT !.head = h, !.prev[h] = NULL] /\ h \in Timer
    BY <1>3 DEF FromNode, Ptr
  <2> HIDE DEF m
  <2>2. /\ m \in Links /\ m.head = h /\ m.tail = l.tail /\ m.next = l.next
        /\ m.prev = [l.prev EXCEPT ![h] = NULL]
    BY <2>1 DEF Links, Ptr
  <2>3. QED
    BY <1>1, <2>2 DEF m
<1>4. QED
  BY <1>2, <1>3

\* r has the nodes of s from the j-th on.
IsRest(r, n, s, k, j) ==
  /\ n \in Nat /\ r \in [1..n -> Timer]
  /\ \A i \in 1..n : r[i] = s[i+(j-1)] /\ i + (j - 1) \in j..k /\ i + (j - 1) \in 1..k
  /\ \A u, v \in 1..n : r[u] = r[v] => u = v
  /\ Image(r, n) = {s[i] : i \in j..k}

\* A sequence without its first elements
LEMMA DroppedFrom ==
  ASSUME NEW k \in Nat, NEW s \in [1..k -> Timer], NEW j \in 1..(k+1),
         \A u, v \in 1..k : s[u] = s[v] => u = v,
         NEW n, n = k - (j - 1), NEW r, r = Dropped(s, k, j - 1)
  PROVE  IsRest(r, n, s, k, j)
<1>1. n \in Nat /\ \A i \in 1..n : i + (j - 1) \in j..k /\ i + (j - 1) \in 1..k
  OBVIOUS
<1>2. r \in [1..n -> Timer] /\ \A i \in 1..n : r[i] = s[i+(j-1)]
  BY <1>1 DEF Dropped
<1>3. \A i \in j..k : i - (j - 1) \in 1..n /\ (i - (j - 1)) + (j - 1) = i
  OBVIOUS
<1>4. \A u, v \in 1..n : u + (j - 1) = v + (j - 1) => u = v
  OBVIOUS
<1>5. \A u, v \in 1..n : r[u] = r[v] => u = v
  BY <1>1, <1>2, <1>4
<1>6. \A i \in j..k : \E u \in 1..n : r[u] = s[i]
  <2> TAKE i \in j..k
  <2>1. i - (j - 1) \in 1..n /\ r[i-(j-1)] = s[i]
    BY <1>2, <1>3
  <2>2. QED
    BY <2>1
<1>7. Image(r, n) = {s[i] : i \in j..k}
  <2>1. \A i \in 1..n : \E u \in j..k : r[i] = s[u]
    BY <1>1, <1>2
  <2>2. QED
    BY <2>1, <1>6 DEF Image
<1>8. QED
  BY <1>1, <1>2, <1>5, <1>7 DEF IsRest

\* The list from its j-th node on is a chain again.
LEMMA DroppedChain ==
  ASSUME NEW l, NEW s, NEW k, IsChain(l, s, k), NEW j \in 1..(k+1),
         NEW n \in Nat, n = k - (j - 1), NEW r, r = Dropped(s, k, j - 1),
         NEW m, m = FromNode(l, At(s, k, j))
  PROVE  /\ IsChain(m, r, n)
         /\ Image(r, n) = {s[i] : i \in j..k}
         /\ SameOutside(l, m, Image(s, k))
<1>1. /\ k \in Nat /\ s \in [1..k -> Timer] /\ l \in Links
      /\ k > 0 => l.tail = s[k]
      /\ \A u, v \in 1..k : s[u] = s[v] => u = v
      /\ \A u \in 1..k : l.next[s[u]] = At(s, k, u + 1) /\ l.prev[s[u]] = At(s, k, u - 1)
  BY DEF IsChain
<1>2. /\ \A u \in 1..k : s[u] \in Timer /\ s[u] # NULL /\ At(s, k, u) = s[u]
      /\ At(s, k, k + 1) = NULL
  BY NodesAreTimers
<1>3. /\ r \in [1..n -> Timer]
      /\ \A i \in 1..n : r[i] = s[i+(j-1)] /\ i + (j - 1) \in j..k /\ i + (j - 1) \in 1..k
      /\ \A u, v \in 1..n : r[u] = r[v] => u = v
      /\ Image(r, n) = {s[i] : i \in j..k}
  <2>1. /\ k \in Nat /\ s \in [1..k -> Timer] /\ j \in 1..(k+1)
        /\ \A u, v \in 1..k : s[u] = s[v] => u = v
        /\ n = k - (j - 1) /\ r = Dropped(s, k, j - 1)
    BY <1>1
  <2>2. IsRest(r, n, s, k, j)
    BY <2>1, DroppedFrom
  <2>3. QED
    BY <2>2 DEF IsRest
<1>4. /\ m \in Links /\ m.tail = l.tail /\ m.next = l.next /\ m.head = At(s, k, j)
      /\ \A u \in Timer : m.prev[u] = IF u = At(s, k, j) THEN NULL ELSE l.prev[u]
  <2>1. At(s, k, j) \in Ptr
    BY <1>2 DEF At, Ptr
  <2>2. QED
    BY <1>1, <2>1, FromNodeLinks
<1>5. j <= k => j \in 1..k /\ At(s, k, j) = s[j]
  BY <1>1 DEF At
<1>6. ASSUME NEW i \in 1..n
      PROVE  m.next[r[i]] = At(r, n, i + 1) /\ m.prev[r[i]] = At(r, n, i - 1)
  <2>1. /\ i + (j - 1) \in 1..k /\ r[i] = s[i+(j-1)] /\ j <= k /\ j \in 1..k
        /\ (i + (j - 1)) + 1 = i + j /\ (i + (j - 1)) - 1 = i + j - 2
    <3>1. k \in Nat
      BY <1>1
    <3>2. /\ j <= k /\ j \in 1..k
          /\ (i + (j - 1)) + 1 = i + j /\ (i + (j - 1)) - 1 = i + j - 2
      BY <3>1
    <3>3. r[i] = s[i+(j-1)] /\ i + (j - 1) \in 1..k
      BY <1>3
    <3>4. QED
      BY <3>2, <3>3
  <2>2. m.next[r[i]] = At(s, k, i + j)
    <3>1. l.next[s[i+(j-1)]] = At(s, k, (i + (j - 1)) + 1)
      BY <1>1, <2>1
    <3>2. QED
      BY <1>4, <2>1, <3>1
  <2>3. At(s, k, i + j) = At(r, n, i + 1)
    <3>1. i + 1 \in 1..n => r[i+1] = s[i+j] /\ i + j \in 1..k
      <4>1. (i + 1) + (j - 1) = i + j
        BY <1>1
      <4>2. QED
        BY <1>3, <4>1
    <3>2. i + 1 \notin 1..n => i + j \notin 1..k
      BY <1>1
    <3>3. QED
      BY <3>1, <3>2 DEF At
  <2>4. CASE i = 1
    <3>1. r[i] = s[j] /\ i - 1 \notin 1..n /\ s[j] \in Timer
      BY <1>1, <1>2, <2>1, <2>4
    <3>2. m.prev[s[j]] = NULL
      BY <1>4, <1>5, <2>1, <3>1
    <3>3. At(r, n, i - 1) = NULL
      BY <3>1 DEF At
    <3>4. m.prev[r[i]] = At(r, n, i - 1)
      BY <3>1, <3>2, <3>3
    <3>5. m.next[r[i]] = At(r, n, i + 1)
      BY <2>2, <2>3
    <3>6. QED
      BY <3>4, <3>5
  <2>5. CASE i # 1
    <3>1. i - 1 \in 1..n /\ (i - 1) + (j - 1) = i + j - 2 /\ i + (j - 1) # j
      <4>1. i \in Nat /\ i <= n /\ i > 1 /\ j \in Nat
        BY <1>1, <2>5
      <4>2. QED
        BY <4>1
    <3>2. r[i-1] = s[i+j-2] /\ i + j - 2 \in 1..k
      BY <1>3, <3>1
    <3>3. s[i+(j-1)] # s[j] /\ s[i+(j-1)] \in Timer
      BY <1>1, <1>2, <2>1, <3>1
    <3>4. m.prev[r[i]] = l.prev[s[i+(j-1)]]
      BY <1>4, <1>5, <2>1, <3>3
    <3>5. l.prev[s[i+(j-1)]] = s[i+j-2]
      BY <1>1, <2>1, <3>2 DEF At
    <3>6. QED
      BY <2>2, <2>3, <3>1, <3>2, <3>4, <3>5 DEF At
  <2>6. QED
    BY <2>4, <2>5
<1>8. m.head = At(r, n, 1)
  <2>1. CASE j <= k
    <3>1. 1 \in 1..n /\ 1 + (j - 1) = j
      BY <1>1, <2>1
    <3>2. QED
      BY <1>3, <1>4, <1>5, <2>1, <3>1 DEF At
  <2>2. CASE j = k + 1
    BY <1>1, <1>4, <2>2 DEF At
  <2>3. QED
    BY <1>1, <2>1, <2>2
<1>9. n > 0 => m.tail = r[n]
  <2>1. n + (j - 1) = k /\ (n > 0 => n \in 1..n /\ k > 0)
    BY <1>1
  <2>2. QED
    BY <1>1, <1>3, <1>4, <2>1
<1>10. IsChain(m, r, n)
  BY <1>3, <1>4, <1>6, <1>8, <1>9 DEF IsChain
<1>11. SameOutside(l, m, Image(s, k))
  <2>1. \A u \in Timer \ Image(s, k) : u # At(s, k, j)
    BY ListAssumption DEF At, Image, ListAssumption
  <2>2. QED
    BY <1>4, <2>1 DEF SameOutside
<1>12. QED
  BY <1>3, <1>10, <1>11

\* tick() drops the first nodes of the chain, up to the first that has not expired.
LEMMA FirstLeftInChain ==
  ASSUME NEW l, NEW s, NEW k, IsChain(l, s, k), NEW ex, NEW cur \in Nat,
         \A u \in Timer : ex[u] \in Nat
  PROVE  \E j \in 1..(k+1) : /\ FirstLeft(l, ex, cur) = At(s, k, j)
                             /\ \A i \in 1..(j-1) : ex[s[i]] <= cur
                             /\ j <= k => cur < ex[s[j]]
<1>1. k \in Nat /\ l.head = At(s, k, 1)
  BY DEF IsChain
<1>2. /\ \A u \in 1..k : s[u] \in Timer /\ s[u] # NULL /\ At(s, k, u) = s[u]
      /\ At(s, k, k + 1) = NULL
  BY <1>1, NodesAreTimers
<1> DEFINE stop == {q \in Ptr : q = NULL \/ cur < ex[q]}
<1>3. NULL \in stop /\ \A u \in 1..k : s[u] \in stop <=> cur < ex[s[u]]
  BY <1>2 DEF Ptr
<1>4. FirstLeft(l, ex, cur) = Walk(l, At(s, k, 1), stop)
  BY <1>1 DEF FirstLeft
<1> HIDE DEF stop
<1>5. PICK j \in 1..(k+1) : /\ At(s, k, j) \in stop
                            /\ \A u \in 1..(j-1) : At(s, k, u) \notin stop
  <2>1. 1 \in 1..(k+1) /\ k + 1 \in 1..(k+1) /\ At(s, k, k + 1) \in stop
    BY <1>1, <1>2, <1>3
  <2>2. QED
    BY <1>1, <2>1, FirstStop
<1>6. FirstLeft(l, ex, cur) = At(s, k, j)
  <2>1. 1 \in 1..(k+1) /\ j \in 1..(k+1)
    BY <1>1
  <2>2. Walk(l, At(s, k, 1), stop) = At(s, k, j)
    BY <1>1, <1>5, <2>1, WalkEnds
  <2>3. QED
    BY <1>4, <2>2
<1>7. ASSUME NEW i \in 1..(j-1)
      PROVE  ex[s[i]] <= cur
  <2>1. i \in 1..k
    BY <1>1
  <2>2. ~(cur < ex[s[i]]) /\ ex[s[i]] \in Nat
    BY <1>2, <1>3, <1>5, <2>1
  <2>3. QED
    BY <2>2
<1>8. ASSUME j <= k
      PROVE  cur < ex[s[j]]
  <2>1. j \in 1..k
    BY <1>1, <1>8
  <2>2. QED
    BY <1>2, <1>3, <1>5, <2>1
<1>9. QED
  BY <1>6, <1>7, <1>8

\* What tick() frees
Expired(l, ex, cur) == Nodes(l, l.head) \ Nodes(l, FirstLeft(l, ex, cur))

\* tick() leaves the j-th node and those after it.
TickLeaves(l, s, k, S, ex, cur, j) ==
  /\ Expired(l, ex, cur) = {s[i] : i \in 1..(j-1)}
  /\ S \ Expired(l, ex, cur) = {s[i] : i \in j..k}
  /\ Holds(Freed(TickList(l, ex, cur), Expired(l, ex, cur)),
           Dropped(s, k, j - 1), k - (j - 1), S \ Expired(l, ex, cur))
  /\ \A i \in 1..(j-1) : ex[s[i]] <= cur
  /\ j <= k => cur < ex[s[j]]

\* After tick() the list holds the timers from the first that has not expired on.
LEMMA TickHolds ==
  ASSUME NEW l, NEW s, NEW k, NEW S, Holds(l, s, k, S), NEW ex, NEW cur \in Nat,
         \A u \in Timer : ex[u] \in Nat
  PROVE  \E j \in 1..(k+1) : TickLeaves(l, s, k, S, ex, cur, j)
<1>1. /\ IsChain(l, s, k) /\ Image(s, k) = S
      /\ \A u \in Timer \ S : l.next[u] = NULL /\ l.prev[u] = NULL
      /\ k \in Nat /\ l.head = At(s, k, 1)
      /\ \A u, v \in 1..k : s[u] = s[v] => u = v
  BY DEF Holds, IsChain
<1>2. PICK j \in 1..(k+1) : /\ FirstLeft(l, ex, cur) = At(s, k, j)
                            /\ \A i \in 1..(j-1) : ex[s[i]] <= cur
                            /\ j <= k => cur < ex[s[j]]
  BY <1>1, FirstLeftInChain
<1>3. PICK D : D = Expired(l, ex, cur)
  OBVIOUS
<1>4. /\ Nodes(l, l.head) = {s[i] : i \in 1..k}
      /\ Nodes(l, FirstLeft(l, ex, cur)) = {s[i] : i \in j..k}
  <2>1. 1 \in 1..(k+1) /\ j \in 1..(k+1)
    BY <1>1
  <2>2. /\ Nodes(l, At(s, k, 1)) = {s[i] : i \in 1..k}
        /\ Nodes(l, At(s, k, j)) = {s[i] : i \in j..k}
    BY <1>1, <2>1, ChainNodes
  <2>3. QED
    BY <1>1, <1>2, <2>2
<1>5. D = {s[i] : i \in 1..(j-1)}
  BY <1>1, <1>3, <1>4 DEF Expired
<1>6. S \ D = {s[i] : i \in j..k}
  BY <1>1, <1>5 DEF Image
<1>7. PICK r : r = Dropped(s, k, j - 1)
  OBVIOUS
<1>8. PICK n \in Nat : n = k - (j - 1)
  BY <1>1
<1>9. PICK m : m = TickList(l, ex, cur)
  OBVIOUS
<1>10. m = FromNode(l, At(s, k, j))
  BY <1>2, <1>9 DEF TickList, FromNode
<1>11. IsChain(m, r, n) /\ Image(r, n) = {s[i] : i \in j..k} /\ SameOutside(l, m, Image(s, k))
  BY <1>1, <1>7, <1>8, <1>10, DroppedChain
<1>12. \A u \in Timer \ S : m.next[u] = NULL /\ m.prev[u] = NULL
  BY <1>1, <1>11 DEF SameOutside
<1>13. Holds(Freed(m, D), r, n, S \ D)
  BY <1>6, <1>11, <1>12, FreedHolds
<1>14. Holds(Freed(TickList(l, ex, cur), Expired(l, ex, cur)),
             Dropped(s, k, j - 1), k - (j - 1), S \ Expired(l, ex, cur))
  BY <1>3, <1>7, <1>8, <1>9, <1>13
<1>15. QED
  BY <1>2, <1>3, <1>5, <1>6, <1>14 DEF TickLeaves

\* A sorted chain stays sorted without its first nodes.
LEMMA DroppedSorted ==
  ASSUME NEW k \in Nat, NEW s, NEW j \in 1..(k+1), NEW ex, Sorted(ex, s, k)
  PROVE  Sorted(ex, Dropped(s, k, j - 1), k - (j - 1))
<1> DEFINE r == Dropped(s, k, j - 1)
           n == k - (j - 1)
<1>1. \A i \in 1..n : r[i] = s[i+(j-1)] /\ i + (j - 1) \in 1..k
  BY DEF Dropped
<1>2. \A i, u \in 1..n : i <= u => i + (j - 1) <= u + (j - 1)
  OBVIOUS
<1> HIDE DEF r
<1>3. \A i, u \in 1..n : i <= u => ex[r[i]] <= ex[r[u]]
  BY <1>1, <1>2 DEF Sorted
<1>4. QED
  BY <1>3 DEF Sorted, r

-----------------------------------------------------------------------------
(* The inductive invariant *)

\* The list holds the timers of S, first to last in the order of their expiry unless
\* a timer may be adjusted to expire earlier.
InOrder == ExtendOnly \/ ~ClockSetBack

Chained(l, ex, S) ==
  \E s, k : Holds(l, s, k, S) /\ (InOrder => Sorted(ex, s, k))

\* The order depends on the expiries of the timers in the list only.
LEMMA SortedElsewhere ==
  ASSUME NEW s, NEW k, NEW ex, NEW new, Sorted(ex, s, k),
         \A u \in Image(s, k) : new[u] = ex[u]
  PROVE  Sorted(new, s, k)
<1>1. \A i \in 1..k : new[s[i]] = ex[s[i]]
  BY DEF Image
<1>2. QED
  BY <1>1 DEF Sorted

\* Nodes is the set of the timers in the list.
LEMMA ChainedNodes ==
  ASSUME NEW l, NEW ex, NEW S, Chained(l, ex, S)
  PROVE  Nodes(l, l.head) = S /\ S \subseteq Timer
<1>1. PICK s, k : Holds(l, s, k, S)
  BY DEF Chained
<1>2. IsChain(l, s, k) /\ Image(s, k) = S /\ k \in Nat /\ l.head = At(s, k, 1)
  BY <1>1 DEF Holds, IsChain
<1>3. 1 \in 1..(k+1)
  BY <1>2
<1>4. Nodes(l, At(s, k, 1)) = {s[i] : i \in 1..k}
  BY <1>2, <1>3, ChainNodes
<1>5. \A i \in 1..k : s[i] \in Timer
  BY <1>2, NodesAreTimers
<1>6. QED
  BY <1>2, <1>4, <1>5 DEF Image

\* add_timer(), seen by the invariant
LEMMA AddKeepsChain ==
  ASSUME NEW l, NEW S, NEW ex \in [Timer -> Nat], Chained(l, ex, S),
         NEW t \in Timer \ S, NEW new \in [Timer -> Nat],
         \A u \in Timer : u # t => new[u] = ex[u]
  PROVE  Chained(AddTimer(l, new, t), new, S \cup {t})
<1>1. PICK s, k : Holds(l, s, k, S) /\ (InOrder => Sorted(ex, s, k))
  BY DEF Chained
<1>2. PICK r : /\ Holds(AddTimer(l, new, t), r, k + 1, S \cup {t})
               /\ Sorted(new, s, k) => Sorted(new, r, k + 1)
  BY <1>1, AddTimerHolds
<1>3. \A u \in Image(s, k) : new[u] = ex[u]
  <2>1. \A u \in Image(s, k) : u \in Timer /\ u # t
    BY <1>1 DEF Holds, IsChain, Image
  <2>2. QED
    BY <2>1
<1>4. InOrder => Sorted(new, s, k)
  BY <1>1, <1>3, SortedElsewhere
<1>5. QED
  BY <1>2, <1>4 DEF Chained

\* adjust_timer(), seen by the invariant: the order needs an expiry that does not shrink.
LEMMA AdjustKeepsChain ==
  ASSUME NEW l, NEW S, NEW ex \in [Timer -> Nat], Chained(l, ex, S),
         NEW t \in S, NEW e \in Nat, InOrder => ex[t] <= e,
         NEW new, new = [ex EXCEPT ![t] = e]
  PROVE  Chained(AdjustTimer(l, new, t), new, S)
<1>1. PICK s, k : Holds(l, s, k, S) /\ (InOrder => Sorted(ex, s, k))
  BY DEF Chained
<1>2. PICK p \in 1..k : t = s[p]
  BY <1>1 DEF Holds, Image
<1>3. PICK r : /\ Holds(AdjustTimer(l, new, t), r, k, S)
               /\ Sorted(ex, s, k) /\ ex[t] <= e => Sorted(new, r, k)
  BY <1>1, <1>2, AdjustTimerHolds
<1>4. QED
  BY <1>1, <1>3 DEF Chained

\* del_timer(), seen by the invariant
LEMMA DelKeepsChain ==
  ASSUME NEW l, NEW S, NEW ex, Chained(l, ex, S), NEW t \in S,
         NEW new, \A u \in Timer : u # t => new[u] = ex[u]
  PROVE  Chained(Freed(DelTimer(l, t), {t}), new, S \ {t})
<1>1. PICK s, k : Holds(l, s, k, S) /\ (InOrder => Sorted(ex, s, k))
  BY DEF Chained
<1>2. PICK p \in 1..k : t = s[p]
  BY <1>1 DEF Holds, Image
<1>3. PICK r : r = Removed(s, k, p)
  OBVIOUS
<1>4. PICK m : m = Freed(DelTimer(l, t), {t})
  OBVIOUS
<1>5. Holds(m, r, k - 1, S \ {t})
  BY <1>1, <1>2, <1>3, <1>4, DelTimerHolds
<1>6. InOrder => Sorted(ex, r, k - 1)
  <2>1. k \in Nat /\ s \in [1..k -> Timer] /\ p \in 1..k
    BY <1>1 DEF Holds, IsChain
  <2>2. QED
    BY <1>1, <1>3, <2>1, RemovedSorted
<1>7. \A u \in Image(r, k - 1) : new[u] = ex[u]
  <2>1. \A u \in Image(r, k - 1) : u \in Timer /\ u # t
    BY <1>5 DEF Holds, IsChain, Image
  <2>2. QED
    BY <2>1
<1>8. InOrder => Sorted(new, r, k - 1)
  BY <1>6, <1>7, SortedElsewhere
<1>9. QED
  BY <1>4, <1>5, <1>8 DEF Chained

\* tick(), seen by the invariant: if the list is in order, exactly the expired timers go.
LEMMA TickKeepsChain ==
  ASSUME NEW l, NEW S, NEW ex, \A u \in Timer : ex[u] \in Nat, Chained(l, ex, S),
         NEW cur \in Nat, NEW D, D = Expired(l, ex, cur),
         NEW new, \A u \in Timer \ D : new[u] = ex[u]
  PROVE  /\ Chained(Freed(TickList(l, ex, cur), D), new, S \ D)
         /\ InOrder => D = {t \in S : ex[t] <= cur}
<1>1. PICK s, k : Holds(l, s, k, S) /\ (InOrder => Sorted(ex, s, k))
  BY DEF Chained
<1>2. /\ k \in Nat /\ s \in [1..k -> Timer] /\ S = {s[i] : i \in 1..k}
      /\ \A i \in 1..k : s[i] \in Timer /\ ex[s[i]] \in Nat
  BY <1>1 DEF Holds, IsChain, Image
<1>3. PICK j \in 1..(k+1) :
           /\ D = {s[i] : i \in 1..(j-1)}
           /\ S \ D = {s[i] : i \in j..k}
           /\ Holds(Freed(TickList(l, ex, cur), D), Dropped(s, k, j - 1), k - (j - 1), S \ D)
           /\ \A i \in 1..(j-1) : ex[s[i]] <= cur
           /\ j <= k => cur < ex[s[j]]
  <2>1. PICK j \in 1..(k+1) : TickLeaves(l, s, k, S, ex, cur, j)
    BY <1>1, TickHolds
  <2>2. QED
    BY <2>1 DEF TickLeaves
<1>4. PICK r : r = Dropped(s, k, j - 1)
  OBVIOUS
<1>5. InOrder => Sorted(ex, r, k - (j - 1))
  BY <1>1, <1>2, <1>4, DroppedSorted
<1>6. \A u \in Image(r, k - (j - 1)) : new[u] = ex[u]
  <2>1. Image(r, k - (j - 1)) = S \ D
    BY <1>3, <1>4 DEF Holds
  <2>2. \A u \in S \ D : u \in Timer \ D
    BY <1>2
  <2>3. QED
    BY <2>1, <2>2
<1>7. InOrder => Sorted(new, r, k - (j - 1))
  BY <1>5, <1>6, SortedElsewhere
<1>8. ASSUME InOrder
      PROVE  D = {t \in S : ex[t] <= cur}
  <2>1. \A i \in j..k : ~(ex[s[i]] <= cur)
    <3> TAKE i \in j..k
    <3>1. i \in 1..k /\ j \in 1..k /\ j <= i /\ j <= k
      BY <1>2
    <3>2. ex[s[j]] <= ex[s[i]] /\ cur < ex[s[j]]
      BY <1>1, <1>3, <1>8, <3>1 DEF Sorted
    <3>3. QED
      BY <1>2, <3>1, <3>2
  <2>2. \A i \in 1..(j-1) : i \in 1..k
    BY <1>2
  <2>3. \A u \in D : u \in S /\ ex[u] <= cur
    BY <1>2, <1>3, <2>2
  <2>4. \A u \in S \ D : ~(ex[u] <= cur)
    BY <1>3, <2>1
  <2>5. QED
    BY <2>3, <2>4
<1>9. QED
  BY <1>3, <1>4, <1>7, <1>8 DEF Chained

-----------------------------------------------------------------------------
(* The calls keep it *)

ListInv ==
  /\ TypeOK
  /\ ~ClockSetBack => \A t \in live : expire[t] <= now + Lifetime
  /\ Chained(list, expire, live)

\* What the invariant says of the variables and the constants
LEMMA InvFacts ==
  ASSUME ListInv
  PROVE  /\ list \in Links
         /\ expire \in [Timer -> 0..(MaxTime + Lifetime)] /\ expire \in [Timer -> Nat]
         /\ \A t \in Timer : expire[t] \in Nat
         /\ live \in SUBSET Timer
         /\ now \in 0..MaxTime /\ now \in Nat /\ now + Lifetime \in 0..(MaxTime + Lifetime)
         /\ now + Lifetime \in Nat /\ 0 \in 0..(MaxTime + Lifetime)
         /\ MaxTime \in Nat /\ Lifetime \in Nat
         /\ Chained(list, expire, live)
<1>1. MaxTime \in Nat /\ Lifetime \in Nat
  BY ListAssumption DEF ListAssumption
<1>2. /\ list \in Links /\ expire \in [Timer -> 0..(MaxTime + Lifetime)]
      /\ live \in SUBSET Timer /\ now \in 0..MaxTime /\ Chained(list, expire, live)
  BY DEF ListInv, TypeOK
<1>3. expire \in [Timer -> Nat]
  BY <1>1, <1>2
<1>4. QED
  BY <1>1, <1>2, <1>3

LEMMA ChainedLinks ==
  ASSUME NEW l, NEW ex, NEW S, Chained(l, ex, S)
  PROVE  l \in Links
BY DEF Chained, Holds, IsChain

LEMMA InitInv == Init => ListInv
<1> SUFFICES ASSUME Init
             PROVE  ListInv
  OBVIOUS
<1>1. MaxTime \in Nat /\ Lifetime \in Nat
  BY ListAssumption DEF ListAssumption
<1>2. TypeOK
  BY <1>1 DEF Init, TypeOK, Links, Ptr
<1>3. Holds(list, [i \in 1..0 |-> NULL], 0, live)
  BY DEF Init, Holds, IsChain, Image, At, Links, Ptr
<1>4. Sorted(expire, [i \in 1..0 |-> NULL], 0)
  BY DEF Sorted
<1>5. Chained(list, expire, live)
  BY <1>3, <1>4 DEF Chained
<1>6. QED
  BY <1>2, <1>5 DEF ListInv, Init

LEMMA AddInv ==
  ASSUME ListInv, NEW t \in Timer, Add(t)
  PROVE  ListInv'
<1>1. /\ t \in Timer \ live /\ live' = live \cup {t} /\ now' = now
      /\ expire' = [expire EXCEPT ![t] = now + Lifetime]
      /\ list' = AddTimer(list, expire', t)
  BY DEF Add
<1>2. /\ expire' \in [Timer -> 0..(MaxTime + Lifetime)] /\ expire' \in [Timer -> Nat]
      /\ expire'[t] = now + Lifetime
      /\ \A u \in Timer : u # t => expire'[u] = expire[u]
  BY <1>1, InvFacts
<1>3. Chained(list', expire', live')
  <2>1. expire \in [Timer -> Nat] /\ Chained(list, expire, live)
    BY InvFacts
  <2>2. QED
    BY <1>1, <1>2, <2>1, AddKeepsChain
<1>4. list' \in Links
  BY <1>3, ChainedLinks
<1>5. TypeOK'
  BY <1>1, <1>2, <1>4, InvFacts DEF TypeOK
<1>6. ~ClockSetBack => \A u \in live' : expire'[u] <= now' + Lifetime
  <2> SUFFICES ASSUME ~ClockSetBack, NEW u \in live'
               PROVE  expire'[u] <= now' + Lifetime
    OBVIOUS
  <2>1. CASE u = t
    BY <1>1, <1>2, <2>1, InvFacts
  <2>2. CASE u # t
    <3>1. u \in live /\ u \in Timer
      BY <1>1, <2>2, InvFacts
    <3>2. expire[u] <= now + Lifetime
      BY <3>1 DEF ListInv
    <3>3. QED
      BY <1>1, <1>2, <2>2, <3>1, <3>2
  <2>3. QED
    BY <2>1, <2>2
<1>7. QED
  BY <1>3, <1>5, <1>6 DEF ListInv

LEMMA AdjustInv ==
  ASSUME ListInv, NEW t \in Timer, Adjust(t)
  PROVE  ListInv'
<1>1. /\ t \in live /\ live' = live /\ now' = now
      /\ ExtendOnly => expire[t] <= now + Lifetime
      /\ expire' = [expire EXCEPT ![t] = now + Lifetime]
      /\ list' = AdjustTimer(list, expire', t)
  BY DEF Adjust, Extended
<1>2. /\ expire' \in [Timer -> 0..(MaxTime + Lifetime)]
      /\ expire'[t] = now + Lifetime
      /\ \A u \in Timer : u # t => expire'[u] = expire[u]
  BY <1>1, InvFacts
<1>3. Chained(list', expire', live')
  <2>1. expire \in [Timer -> Nat] /\ Chained(list, expire, live) /\ now + Lifetime \in Nat
    BY InvFacts
  <2>2. InOrder => expire[t] <= now + Lifetime
    BY <1>1 DEF ListInv, InOrder
  <2>3. QED
    BY <1>1, <2>1, <2>2, AdjustKeepsChain
<1>4. list' \in Links
  BY <1>3, ChainedLinks
<1>5. TypeOK'
  BY <1>1, <1>2, <1>4, InvFacts DEF TypeOK
<1>6. ~ClockSetBack => \A u \in live' : expire'[u] <= now' + Lifetime
  <2> SUFFICES ASSUME ~ClockSetBack, NEW u \in live'
               PROVE  expire'[u] <= now' + Lifetime
    OBVIOUS
  <2>1. expire[u] <= now + Lifetime /\ u \in Timer
    BY <1>1, InvFacts DEF ListInv
  <2>2. QED
    BY <1>1, <1>2, <2>1, InvFacts
<1>7. QED
  BY <1>3, <1>5, <1>6 DEF ListInv

\* What del_timer() and tick() have in common: timers are freed, the clock stands.
LEMMA DeleteInv ==
  ASSUME ListInv, NEW l, NEW S, Delete(l, S), now' = now,
         Chained(Freed(l, S), expire', live \ S)
  PROVE  ListInv'
<1>1. /\ list' = Freed(l, S) /\ live' = live \ S
      /\ expire' = [u \in Timer |-> IF u \in S THEN 0 ELSE expire[u]]
  BY DEF Delete
<1>2. /\ expire' \in [Timer -> 0..(MaxTime + Lifetime)]
      /\ \A u \in Timer \ S : expire'[u] = expire[u]
  BY <1>1, InvFacts
<1>3. Chained(list', expire', live')
  BY <1>1
<1>4. list' \in Links
  BY <1>3, ChainedLinks
<1>5. TypeOK'
  BY <1>1, <1>2, <1>4, InvFacts DEF TypeOK
<1>6. ~ClockSetBack => \A u \in live' : expire'[u] <= now' + Lifetime
  <2> SUFFICES ASSUME ~ClockSetBack, NEW u \in live'
               PROVE  expire'[u] <= now' + Lifetime
    OBVIOUS
  <2>1. expire[u] <= now + Lifetime /\ u \in Timer \ S
    BY <1>1, InvFacts DEF ListInv
  <2>2. QED
    BY <1>2, <2>1
<1>7. QED
  BY <1>3, <1>5, <1>6 DEF ListInv

LEMMA DelInv ==
  ASSUME ListInv, NEW t \in Timer, Del(t)
  PROVE  ListInv'
<1>1. t \in live /\ Delete(DelTimer(list, t), {t}) /\ now' = now
  BY DEF Del
<1>2. \A u \in Timer : u # t => expire'[u] = expire[u]
  BY <1>1 DEF Delete
<1>3. Chained(Freed(DelTimer(list, t), {t}), expire', live \ {t})
  BY <1>1, <1>2, DelKeepsChain DEF ListInv
<1>4. QED
  BY <1>1, <1>3, DeleteInv

\* tick() keeps the invariant, and frees the expired timers only if the list is in order.
LEMMA TickInv ==
  ASSUME ListInv, Tick
  PROVE  /\ ListInv'
         /\ InOrder => live' = {t \in live : ~(expire[t] <= now)}
         /\ live' \subseteq live /\ \A u \in live' : expire'[u] = expire[u]
<1>1. PICK D : D = Expired(list, expire, now)
  OBVIOUS
<1>2. Delete(TickList(list, expire, now), D) /\ now' = now
  BY <1>1 DEF Tick, Expired
<1>3. (\A u \in Timer \ D : expire'[u] = expire[u]) /\ live' = live \ D
  BY <1>2 DEF Delete
<1>4. /\ Chained(Freed(TickList(list, expire, now), D), expire', live \ D)
      /\ InOrder => D = {t \in live : expire[t] <= now}
  <2>1. (\A u \in Timer : expire[u] \in Nat) /\ Chained(list, expire, live) /\ now \in Nat
    BY InvFacts
  <2>2. QED
    BY <1>1, <1>3, <2>1, TickKeepsChain
<1>5. ListInv'
  BY <1>2, <1>4, DeleteInv
<1>6. \A u \in live' : expire'[u] = expire[u]
  BY <1>3, InvFacts
<1>7. QED
  BY <1>3, <1>4, <1>5, <1>6

LEMMA ClockInv ==
  ASSUME ListInv, Clock
  PROVE  ListInv' /\ now' \in 0..MaxTime
<1>1. now' \in 0..MaxTime /\ list' = list /\ expire' = expire /\ live' = live
  BY DEF Clock
<1>2. TypeOK'
  BY <1>1, InvFacts DEF TypeOK
<1>3. ~ClockSetBack => \A u \in live' : expire'[u] <= now' + Lifetime
  <2> SUFFICES ASSUME ~ClockSetBack, NEW u \in live'
               PROVE  expire'[u] <= now' + Lifetime
    OBVIOUS
  <2>1. now' = now + 1 /\ expire[u] <= now + Lifetime /\ u \in Timer
    BY <1>1, InvFacts DEF Clock, ListInv
  <2>2. expire[u] \in Nat /\ now \in Nat /\ Lifetime \in Nat
    BY <2>1, InvFacts
  <2>3. QED
    BY <1>1, <2>1, <2>2
<1>4. QED
  BY <1>1, <1>2, <1>3, InvFacts DEF ListInv

LEMMA NextInv == ListInv /\ [Next]_vars => ListInv'
<1> SUFFICES ASSUME ListInv, [Next]_vars
             PROVE  ListInv'
  OBVIOUS
<1>1. ASSUME NEW t \in Timer, Add(t)
      PROVE  ListInv'
  BY <1>1, AddInv
<1>2. ASSUME NEW t \in Timer, Adjust(t)
      PROVE  ListInv'
  BY <1>2, AdjustInv
<1>3. ASSUME NEW t \in Timer, Del(t)
      PROVE  ListInv'
  BY <1>3, DelInv
<1>4. CASE Tick
  BY <1>4, TickInv
<1>5. CASE Clock
  BY <1>5, ClockInv
<1>6. CASE UNCHANGED vars
  BY <1>6 DEF vars, ListInv, TypeOK
<1>7. QED
  BY <1>1, <1>2, <1>3, <1>4, <1>5, <1>6 DEF Next

LEMMA ListInvariance == Spec => []ListInv
BY InitInv, NextInv, PTL DEF Spec

-----------------------------------------------------------------------------
(* The theorems *)

\* The variables keep their types: no link leaves the util_timers and no expiry is later
\* than a lifetime after the last slot.
THEOREM ListTypeCorrect == Spec => []TypeOK
<1>1. ListInv => TypeOK
  BY DEF ListInv
<1>2. QED
  BY <1>1, ListInvariance, PTL

\* Whatever the calls and however the clock is set, the list is doubly linked from head
\* to tail and holds exactly the allocated timers: no timer is leaked and no freed one is linked.
THEOREM ListIsWellLinked == Spec => []WellLinked
<1>1. ASSUME ListInv
      PROVE  WellLinked
  <2>1. PICK s, k : Holds(list, s, k, live)
    BY <1>1 DEF ListInv, Chained
  <2>2. /\ Image(s, k) = live
        /\ k \in Nat /\ s \in [1..k -> Timer]
        /\ \A u, v \in 1..k : s[u] = s[v] => u = v
        /\ list.head = At(s, k, 1) /\ (k > 0 => list.tail = s[k])
        /\ \A u \in 1..k : list.next[s[u]] = At(s, k, u + 1) /\ list.prev[s[u]] = At(s, k, u - 1)
    BY <2>1 DEF Holds, IsChain
  <2>3. Nodes(list, list.head) = live
    BY <1>1, ChainedNodes DEF ListInv
  <2>4. ASSUME NEW p \in 1..k
        PROVE  /\ IF s[p] = list.head THEN list.prev[s[p]] = NULL
                  ELSE list.prev[s[p]] \in live /\ list.next[list.prev[s[p]]] = s[p]
               /\ list.next[s[p]] = NULL <=> s[p] = list.tail
    <3>1. list.head = s[1] /\ list.tail = s[k] /\ 1 \in 1..k /\ k \in 1..k
      BY <2>2 DEF At
    <3>2. ASSUME p = 1
          PROVE  s[p] = list.head /\ list.prev[s[p]] = NULL
      <4>1. p - 1 \notin 1..k
        BY <3>2
      <4>2. QED
        BY <2>2, <3>1, <3>2, <4>1 DEF At
    <3>3. ASSUME p # 1
          PROVE  /\ s[p] # list.head
                 /\ list.prev[s[p]] \in live /\ list.next[list.prev[s[p]]] = s[p]
      <4>1. p - 1 \in 1..k /\ (p - 1) + 1 = p
        BY <2>2, <3>3
      <4>2. list.prev[s[p]] = s[p-1] /\ list.next[s[p-1]] = s[p] /\ s[p-1] \in live
        BY <2>2, <4>1 DEF At, Image
      <4>3. s[p] # list.head
        BY <2>2, <3>1, <3>3
      <4>4. QED
        BY <4>2, <4>3
    <3>4. list.next[s[p]] = NULL <=> p = k
      <4>1. p # k => p + 1 \in 1..k
        BY <2>2
      <4>2. p = k => p + 1 \notin 1..k
        BY <2>2
      <4>3. \A u \in 1..k : s[u] # NULL
        BY <2>2, ListAssumption DEF ListAssumption
      <4>4. QED
        BY <2>2, <4>1, <4>2, <4>3 DEF At
    <3>5. s[p] = list.tail <=> p = k
      BY <2>2, <3>1
    <3>6. QED
      BY <3>2, <3>3, <3>4, <3>5
  <2>5. \A t \in live : \E p \in 1..k : t = s[p]
    BY <2>2 DEF Image
  <2>6. QED
    BY <2>3, <2>4, <2>5 DEF WellLinked
<1>2. QED
  BY <1>1, ListInvariance, PTL

\* The list stays sorted although adjust_timer() looks at the next timer only, provided
\* that a timer is adjusted only to expire later: callers see to it, or the clock does
\* because nobody sets it back.
THEOREM ListStaysSorted ==
  ASSUME ExtendOnly \/ ~ClockSetBack
  PROVE  Spec => []SortedByExpiry
<1>1. ASSUME ListInv
      PROVE  SortedByExpiry
  <2>1. PICK s, k : Holds(list, s, k, live) /\ Sorted(expire, s, k)
    BY <1>1 DEF ListInv, Chained, InOrder
  <2>2. /\ Image(s, k) = live /\ k \in Nat
        /\ \A u \in 1..k : list.next[s[u]] = At(s, k, u + 1)
    BY <2>1 DEF Holds, IsChain
  <2>3. ASSUME NEW p \in 1..k, list.next[s[p]] # NULL
        PROVE  expire[s[p]] <= expire[list.next[s[p]]]
    <3>1. p + 1 \in 1..k /\ list.next[s[p]] = s[p+1] /\ p <= p + 1
      BY <2>2, <2>3 DEF At
    <3>2. QED
      BY <2>1, <3>1 DEF Sorted
  <2>4. \A t \in live : \E p \in 1..k : t = s[p]
    BY <2>2 DEF Image
  <2>5. QED
    BY <2>3, <2>4 DEF SortedByExpiry
<1>2. QED
  BY <1>1, ListInvariance, PTL

\* On the same condition the list of pointers is the set of timers that the event loop
\* thinks it is, and tick() takes exactly the expired ones out of it.
THEOREM ListServesTimers ==
  ASSUME ExtendOnly \/ ~ClockSetBack
  PROVE  Spec => ServesTimers
<1> DEFINE due == [t \in Nodes(list, list.head) |-> expire[t]]
<1>1. ListInv => Nodes(list, list.head) = live
  BY ChainedNodes DEF ListInv
<1>2. ListInv' => Nodes(list', list'.head) = live'
  BY ChainedNodes DEF ListInv
<1>3. Init => Service!Init
  <2> SUFFICES ASSUME Init
               PROVE  Service!Init
    OBVIOUS
  <2>1. Nodes(list, list.head) = {}
    BY <1>1, InitInv DEF Init
  <2>2. QED
    BY <2>1 DEF Service!Init
<1>4. ASSUME ListInv, ListInv', [Next]_vars
      PROVE  [Service!Next]_<<due, now>>
  <2>1. Nodes(list, list.head) = live /\ Nodes(list', list'.head) = live'
    BY <1>1, <1>2, <1>4
  <2>2. now + Lifetime \in 0..(MaxTime + Lifetime)
    BY <1>4, InvFacts
  <2>3. ASSUME NEW t \in Timer, Add(t)
        PROVE  Service!Add(t, now + Lifetime) /\ now' = now
    <3>1. /\ t \notin live /\ live' = live \cup {t} /\ now' = now
          /\ expire' = [expire EXCEPT ![t] = now + Lifetime]
      BY <2>3 DEF Add
    <3>2. [u \in live' |-> expire'[u]]
            = [u \in live \cup {t} |-> IF u = t THEN now + Lifetime ELSE [v \in live |-> expire[v]][u]]
      <4>1. \A u \in live' : expire'[u] = IF u = t THEN now + Lifetime ELSE expire[u]
        BY <1>4, <3>1, InvFacts
      <4>2. QED
        BY <3>1, <4>1
    <3>3. QED
      BY <2>1, <3>1, <3>2 DEF Service!Add, Service!Live
  <2>4. ASSUME NEW t \in Timer, Adjust(t)
        PROVE  Service!Adjust(t, now + Lifetime) /\ now' = now
    <3>1. /\ t \in live /\ live' = live /\ now' = now
          /\ expire' = [expire EXCEPT ![t] = now + Lifetime]
      BY <2>4 DEF Adjust, Extended
    <3>2. [u \in live' |-> expire'[u]] = [[v \in live |-> expire[v]] EXCEPT ![t] = now + Lifetime]
      <4>1. \A u \in live : expire'[u] = IF u = t THEN now + Lifetime ELSE expire[u]
        BY <1>4, <3>1, InvFacts
      <4>2. QED
        BY <3>1, <4>1
    <3>3. QED
      BY <2>1, <3>1, <3>2 DEF Service!Adjust, Service!Live
  <2>5. ASSUME NEW t \in Timer, Del(t)
        PROVE  Service!Del(t) /\ now' = now
    <3>1. /\ t \in live /\ live' = live \ {t} /\ now' = now
          /\ expire' = [u \in Timer |-> IF u \in {t} THEN 0 ELSE expire[u]]
      BY <2>5 DEF Del, Delete
    <3>2. [u \in live' |-> expire'[u]] = [u \in live \ {t} |-> [v \in live |-> expire[v]][u]]
      <4>1. \A u \in live' : expire'[u] = expire[u]
        BY <1>4, <3>1, InvFacts
      <4>2. QED
        BY <3>1, <4>1
    <3>3. QED
      BY <2>1, <3>1, <3>2 DEF Service!Del, Service!Live
  <2>6. ASSUME Tick
        PROVE  Service!Tick /\ now' = now
    <3>1. /\ live' = {t \in live : ~(expire[t] <= now)} /\ live' \subseteq live
          /\ \A u \in live' : expire'[u] = expire[u]
      BY <1>4, <2>6, TickInv DEF InOrder
    <3>2. now' = now
      BY <2>6 DEF Tick
    <3>3. live' = live \ {t \in live : [v \in live |-> expire[v]][t] <= now}
      BY <3>1
    <3>4. [u \in live' |-> expire'[u]] = [u \in live' |-> [v \in live |-> expire[v]][u]]
      BY <3>1
    <3>5. QED
      BY <2>1, <3>2, <3>3, <3>4 DEF Service!Tick, Service!Live, Service!Expired
  <2>7. ASSUME Clock
        PROVE  now' \in 0..(MaxTime + Lifetime) /\ due' = due
    <3>1. now' \in 0..MaxTime
      BY <1>4, <2>7, ClockInv
    <3>2. live' = live /\ expire' = expire
      BY <2>7 DEF Clock
    <3>3. QED
      BY <1>4, <2>1, <3>1, <3>2, InvFacts
  <2>8. ASSUME UNCHANGED vars
        PROVE  due' = due /\ now' = now
    BY <2>8 DEF vars
  <2> HIDE DEF due
  <2>9. ASSUME NEW t \in Timer, Add(t) \/ Adjust(t)
        PROVE  \E e \in 0..(MaxTime + Lifetime) : Service!Add(t, e) \/ Service!Adjust(t, e)
    <3>1. CASE Add(t)
      <4>1. Service!Add(t, now + Lifetime)
        BY <2>3, <3>1
      <4>2. QED
        BY <2>2, <4>1 DEF Service!Add
    <3>2. CASE Adjust(t)
      <4>1. Service!Adjust(t, now + Lifetime)
        BY <2>4, <3>2
      <4>2. QED
        BY <2>2, <4>1 DEF Service!Adjust
    <3>3. QED
      BY <2>9, <3>1, <3>2
  <2>10. ASSUME NEW t \in Timer, Add(t) \/ Adjust(t) \/ Del(t)
         PROVE  Service!Next
    BY <2>3, <2>4, <2>5, <2>9, <2>10 DEF Service!Next
  <2>11. CASE Tick
    BY <2>6, <2>11 DEF Service!Next
  <2>12. CASE Clock
    BY <2>7, <2>12 DEF Service!Next, due
  <2>13. QED
    BY <1>4, <2>8, <2>10, <2>11, <2>12 DEF Next
<1>5. QED
  BY <1>3, <1>4, ListInvariance, PTL DEF Spec, ServesTimers, Service!Spec
=============================================================================
