---------------------------- MODULE BlockQueue -----------------------------
(***************************************************************************)
(* block_queue<T> (log/block_queue.h), a circular array under a mutex with *)
(* a condition variable, and the cond class of locker/locker.h.            *)
(*                                                                         *)
(* A method is one critical section of m_mutex, and so one action, except  *)
(* that pop() gives the mutex up while it waits on m_cond: it then starts  *)
(* again in a new critical section.  A consumer is a thread in a loop      *)
(* around pop(), as Log::async_write_log() is, or around the pop() with a  *)
(* timeout, which the server has no caller of.                             *)
(***************************************************************************)
EXTENDS Integers, Sequences, FiniteSets

CONSTANTS
  Consumer,   \* the threads that call pop()
  Item,
  MaxSize,    \* m_max_size
  None        \* no item

ASSUME QueueAssumption ==
  /\ MaxSize \in Nat \ {0}
  /\ None \notin Item

VARIABLES
  m_array,    \* [0..MaxSize-1 -> Item \cup {None}]
  m_size,
  m_front,    \* where the item taken last was, or -1
  m_back,     \* where the item put last is, or -1
  pc,         \* where each consumer is in its call
  item        \* the argument each consumer's pop() assigns

array == <<m_array, m_size, m_front, m_back>>
vars == <<m_array, m_size, m_front, m_back, pc, item>>

Index == 0..(MaxSize - 1)

\* "waiting" and "woken" are inside pop(), "timed" and "timedwoken" inside the pop()
\* with a timeout.
ConsumerPc == {"out", "waiting", "woken", "timed", "timedwoken"}

TypeOK ==
  /\ m_array \in [Index -> Item \cup {None}]
  /\ m_size \in 0..MaxSize
  /\ m_front \in Index \cup {-1}
  /\ m_back \in Index \cup {-1}
  /\ pc \in [Consumer -> ConsumerPc]
  /\ item \in [Consumer -> Item \cup {None}]

Init ==
  /\ m_array = [i \in Index |-> None]
  /\ m_size = 0
  /\ m_front = -1
  /\ m_back = -1
  /\ pc = [c \in Consumer |-> "out"]
  /\ item = [c \in Consumer |-> None]

\* cond::broadcast()
Awake(state) ==
  CASE state = "waiting" -> "woken" [] state = "timed" -> "timedwoken" [] OTHER -> state
Broadcast == pc' = [c \in Consumer |-> Awake(pc[c])]

\* A bug to catch: the size test lets one item too many in.
full_OneMore == m_size > MaxSize

full == m_size >= MaxSize

-----------------------------------------------------------------------------
\* A bug to catch: only the first item wakes the consumers, and m_size is tested for
\* it before it has counted the item.
Wake_First == IF m_size = 1 THEN Broadcast ELSE UNCHANGED pc

Wake == Broadcast

Push(x) ==
  /\ ~full
  /\ m_back' = (m_back + 1) % MaxSize
  /\ m_array' = [m_array EXCEPT ![m_back'] = x]
  /\ m_size' = m_size + 1
  /\ Wake
  /\ UNCHANGED <<m_front, item>>

\* push() of a full queue wakes the consumers and returns false.
PushFull ==
  /\ full
  /\ Broadcast
  /\ UNCHANGED <<array, item>>

\* The end of both pop()s: the oldest item to consumer c.
TakeFront(c) ==
  /\ m_front' = (m_front + 1) % MaxSize
  /\ item' = [item EXCEPT ![c] = m_array[m_front']]
  /\ m_size' = m_size - 1
  /\ pc' = [pc EXCEPT ![c] = "out"]
  /\ UNCHANGED <<m_array, m_back>>

Goto(c, state) ==
  /\ pc' = [pc EXCEPT ![c] = state]
  /\ UNCHANGED <<array, item>>

\* The test of pop()'s while loop, on entry and whenever wait() has returned.
PopTake(c) == pc[c] \in {"out", "woken"} /\ m_size > 0 /\ TakeFront(c)
PopWait(c) == pc[c] \in {"out", "woken"} /\ m_size <= 0 /\ Goto(c, "waiting")

TimedPopTake(c) == pc[c] \in {"out", "timedwoken"} /\ m_size > 0 /\ TakeFront(c)
TimedPopWait(c) == pc[c] = "out" /\ m_size <= 0 /\ Goto(c, "timed")

\* Woken for nothing, it does not wait again; timed out, it does not look again.
TimedPopFails(c) ==
  \/ pc[c] = "timedwoken" /\ m_size <= 0 /\ Goto(c, "out")
  \/ pc[c] = "timed" /\ Goto(c, "out")

\* pthread_cond_wait may return for no reason.
SpuriousWakeup(c) ==
  /\ pc[c] \in {"waiting", "timed"}
  /\ Goto(c, Awake(pc[c]))

\* A bug to catch: m_back is not reset with the rest.
ResetBack_Not == UNCHANGED m_back

ResetBack == m_back' = -1

\* clear(), which the server has no caller of.
Clear ==
  /\ m_size' = 0
  /\ m_front' = -1
  /\ ResetBack
  /\ UNCHANGED <<m_array, pc, item>>

Pop(c) == PopTake(c) \/ PopWait(c)
TimedPop(c) == TimedPopTake(c) \/ TimedPopWait(c) \/ TimedPopFails(c)

Next ==
  \/ \E x \in Item : Push(x)
  \/ PushFull
  \/ \E c \in Consumer : Pop(c) \/ TimedPop(c) \/ SpuriousWakeup(c)
  \/ Clear

Spec == Init /\ [][Next]_vars

\* Consumer c takes an item, with a timeout or without.
TakeItem(c) == PopTake(c) \/ TimedPopTake(c)

(***************************************************************************)
(* A consumer never stops calling one of the pop()s (log.h:46), and a      *)
(* mutex that is free again and again is obtained.                         *)
(***************************************************************************)
LiveSpec ==
  /\ Spec
  /\ \A c \in Consumer : WF_vars(Pop(c) \/ TimedPop(c)) /\ SF_vars(TakeItem(c))

-----------------------------------------------------------------------------
(* Properties *)

\* The items from the one after m_front on.
Contents == [i \in 1..m_size |-> m_array[(m_front + i) % MaxSize]]

Fifo == INSTANCE BoundedFifo WITH items <- Contents, taken <- item

\* However push(), pop(), timeouts and clear() interleave and the array wraps, every
\* item put is taken once, by one consumer, in the order of the push()es.
QueueIsFifo == Fifo!Spec

\* No consumer sleeps while there is an item: nobody but a broadcast wakes it, and
\* the one that came with the item is the last it may get.
NoSleepOverItem == m_size > 0 => \A c \in Consumer : pc[c] \notin {"waiting", "timed"}

\* The queue does not get stuck: as long as it is not found empty, items are taken
\* out of it, again and again.
QueueServed ==
  []<>(m_size = 0) \/ []<><<\E c \in Consumer : TakeItem(c)>>_vars
=============================================================================
