------------------------------ MODULE TimerList -----------------------------
(***************************************************************************)
(* sort_timer_lst (timer/lst_timer.cpp): the doubly linked list of timers, *)
(* sorted by expiry, pointer by pointer.  Only the event loop's thread     *)
(* touches it, so each call is one step.  The calls are those of           *)
(* webserver.cpp: 'expire = time(NULL) + 3 * TIMESLOT' comes right before  *)
(* add_timer() and adjust_timer(), and a timer that is adjusted or deleted *)
(* is in the list.  time(NULL) is the wall clock, which may be set back.   *)
(***************************************************************************)
EXTENDS Naturals, FiniteSets

CONSTANTS
  Timer,        \* addresses of util_timer objects
  Lifetime,     \* 3 * TIMESLOT, in slots
  MaxTime,      \* bound: the clock stays in 0..MaxTime
  ClockSetBack, \* may the clock go backwards?
  ExtendOnly,   \* is a timer adjusted only to expire later, as adjust_timer() expects?
  NULL

ASSUME ListAssumption ==
  /\ IsFiniteSet(Timer)
  /\ NULL \notin Timer
  /\ Lifetime \in Nat \ {0}
  /\ MaxTime \in Nat
  /\ ClockSetBack \in BOOLEAN /\ ExtendOnly \in BOOLEAN

VARIABLES
  list,    \* the list's ends and every util_timer's links
  expire,  \* every util_timer's expiry
  live,    \* the util_timers that are allocated
  now      \* time(NULL), in slots

vars == <<list, expire, live, now>>

Ptr == Timer \cup {NULL}
Links == [head : Ptr, tail : Ptr, prev : [Timer -> Ptr], next : [Timer -> Ptr]]

TypeOK ==
  /\ list \in Links
  /\ expire \in [Timer -> 0..(MaxTime + Lifetime)]
  /\ live \in SUBSET Timer
  /\ now \in 0..MaxTime

Init ==
  /\ list = [head |-> NULL, tail |-> NULL,
             prev |-> [t \in Timer |-> NULL], next |-> [t \in Timer |-> NULL]]
  /\ expire = [t \in Timer |-> 0]
  /\ live = {}
  /\ now = 0

\* Where a loop along l.next is after n rounds that starts at p and ends at a node of
\* stop.
Visits(l, p, stop) ==
  LET at[n \in 0..Cardinality(Timer)] ==
        IF n = 0 THEN p
        ELSE IF at[n-1] \in stop THEN at[n-1] ELSE l.next[at[n-1]]
  IN  at

Walk(l, p, stop) == Visits(l, p, stop)[Cardinality(Timer)]

\* The nodes from p on
Nodes(l, p) == {Visits(l, p, {NULL})[n] : n \in 0..Cardinality(Timer)} \ {NULL}

-----------------------------------------------------------------------------
(* The members of sort_timer_lst, as functions of the links l and expiries ex *)

\* A bug to catch: the walk stops one node late.
GoesAfter_Late(l, ex, t, q) == l.next[q] = NULL \/ ex[t] < ex[q]

\* Is q the node that t goes after?
GoesAfter(l, ex, t, q) == l.next[q] = NULL \/ ex[t] < ex[l.next[q]]

\* A bug to catch: the new last node is not recorded in 'tail'.
NewTail_Not(l, t) == l

NewTail(l, t) == [l EXCEPT !.tail = t]

\* The private add_timer(): insert t at the first place after lst_head that keeps
\* the list sorted.
AddAfter(l, ex, t, lst_head) ==
  LET p == Walk(l, lst_head, {q \in Timer : GoesAfter(l, ex, t, q)})
      tmp == l.next[p]
      linked == [l EXCEPT !.next[p] = t, !.next[t] = tmp, !.prev[t] = p]
  IN  IF tmp = NULL THEN NewTail(linked, t) ELSE [linked EXCEPT !.prev[tmp] = t]

AddTimer(l, ex, t) ==
  IF l.head = NULL THEN [l EXCEPT !.head = t, !.tail = t]
  ELSE IF ex[t] < ex[l.head]
       THEN [l EXCEPT !.next[t] = l.head, !.prev[l.head] = t, !.head = t]
       ELSE AddAfter(l, ex, t, l.head)

\* Take t, which is neither the first nor the last node, out of the list.
Unlink(l, t) == [l EXCEPT !.next[l.prev[t]] = l.next[t],
                          !.prev[l.next[t]] = l.prev[t]]

\* Take the first node out of a list of several.
DropHead(l) == [l EXCEPT !.head = l.next[l.head], !.prev[l.next[l.head]] = NULL]

AdjustTimer(l, ex, t) ==
  LET tmp == l.next[t]
  IN  IF tmp = NULL \/ ex[t] < ex[tmp] THEN l
      ELSE IF t = l.head
           THEN AddAfter([DropHead(l) EXCEPT !.next[t] = NULL], ex, t, tmp)
           ELSE AddAfter(Unlink(l, t), ex, t, tmp)

DelTimer(l, t) ==
  IF t = l.head /\ t = l.tail THEN [l EXCEPT !.head = NULL, !.tail = NULL]
  ELSE IF t = l.head THEN DropHead(l)
  ELSE IF t = l.tail THEN [l EXCEPT !.tail = l.prev[t], !.next[l.prev[t]] = NULL]
  ELSE Unlink(l, t)

\* A bug to catch: '<=' in place of '<' in the loop's test.
FirstLeft_Strict(l, ex, cur) ==
  Walk(l, l.head, {q \in Ptr : q = NULL \/ cur <= ex[q]})

\* The first node tick() leaves in the list at time cur, or NULL.
FirstLeft(l, ex, cur) ==
  Walk(l, l.head, {q \in Ptr : q = NULL \/ cur < ex[q]})

\* The links after tick(): 'tail' is not touched, not even when the list ends empty.
TickList(l, ex, cur) ==
  LET h == FirstLeft(l, ex, cur)
  IN  IF h = NULL THEN [l EXCEPT !.head = NULL]
                  ELSE [l EXCEPT !.head = h, !.prev[h] = NULL]

-----------------------------------------------------------------------------
(* The calls *)

\* The links and expiries after 'delete' of the timers in S; what a freed
\* util_timer holds is never read, so it is reset here as 'new' will do.
Freed(l, S) == [l EXCEPT !.prev = [t \in Timer |-> IF t \in S THEN NULL ELSE @[t]],
                         !.next = [t \in Timer |-> IF t \in S THEN NULL ELSE @[t]]]
Delete(l, S) ==
  /\ list' = Freed(l, S)
  /\ live' = live \ S
  /\ expire' = [t \in Timer |-> IF t \in S THEN 0 ELSE expire[t]]

\* WebServer::timer()
Add(t) ==
  /\ t \notin live
  /\ live' = live \cup {t}
  /\ expire' = [expire EXCEPT ![t] = now + Lifetime]
  /\ list' = AddTimer(list, expire', t)
  /\ UNCHANGED now

\* A bug to catch: the timer is extended from its old expiry.
Extended_FromExpire(t) == expire[t] + Lifetime

Extended(t) == now + Lifetime

\* WebServer::adjust_timer()
Adjust(t) ==
  /\ t \in live
  /\ ExtendOnly => expire[t] <= now + Lifetime
  /\ expire' = [expire EXCEPT ![t] = Extended(t)]
  /\ list' = AdjustTimer(list, expire', t)
  /\ UNCHANGED <<live, now>>

\* WebServer::deal_timer()
Del(t) ==
  /\ t \in live
  /\ Delete(DelTimer(list, t), {t})
  /\ UNCHANGED now

\* Utils::timer_handler(); the callbacks do not touch the list.
Tick ==
  /\ Delete(TickList(list, expire, now),
            Nodes(list, list.head) \ Nodes(list, FirstLeft(list, expire, now)))
  /\ UNCHANGED now

Clock ==
  /\ now' \in IF ClockSetBack THEN 0..MaxTime ELSE {now + 1} \cap 0..MaxTime
  /\ UNCHANGED <<list, expire, live>>

Next ==
  \/ \E t \in Timer : Add(t) \/ Adjust(t) \/ Del(t)
  \/ Tick
  \/ Clock

Spec == Init /\ [][Next]_vars

-----------------------------------------------------------------------------
(* Properties *)

\* The links are those of a doubly linked list: 'prev' undoes 'next', the node
\* without a 'next' is the tail, and the list holds the allocated timers, none
\* leaked and none freed.  (tick() leaves a dangling tail when it empties the list.)
WellLinked ==
  /\ Nodes(list, list.head) = live
  /\ \A t \in live :
       /\ IF t = list.head THEN list.prev[t] = NULL
          ELSE list.prev[t] \in live /\ list.next[list.prev[t]] = t
       /\ list.next[t] = NULL <=> t = list.tail

\* The list is sorted, which is what lets tick() stop at the first timer that has
\* not expired; adjust_timer() keeps it so although it never looks at t->prev.
SortedByExpiry ==
  \A t \in live : list.next[t] # NULL => expire[t] <= expire[list.next[t]]

\* Whatever the sequence of calls, the list is the set of timers it should be, and
\* tick() takes exactly the expired ones out of it.
Service == INSTANCE TimerService WITH
  Time <- 0..(MaxTime + Lifetime),
  due <- [t \in Nodes(list, list.head) |-> expire[t]]
ServesTimers == Service!Spec
=============================================================================
