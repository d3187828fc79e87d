---------------------------- MODULE BoundedFifo ----------------------------
(***************************************************************************)
(* What block_queue<T> promises: a bounded queue that threads put items    *)
(* into and take them out of, oldest first.  BlockQueue implements it, and *)
(* Log uses it in place of the queue.                                      *)
(***************************************************************************)
EXTENDS Naturals, Sequences

CONSTANTS
  Item,
  Consumer,   \* the threads that take items
  MaxSize,    \* m_max_size
  None        \* "no item"

VARIABLES
  items,      \* the queue, oldest first
  taken       \* [Consumer -> Item \cup {None}], what each one took last

fifoVars == <<items, taken>>

Init ==
  /\ items = <<>>
  /\ taken = [c \in Consumer |-> None]

Full == Len(items) >= MaxSize

Put(x) ==
  /\ ~Full
  /\ items' = Append(items, x)
  /\ UNCHANGED taken

Take(c) ==
  /\ items # <<>>
  /\ taken' = [taken EXCEPT ![c] = Head(items)]
  /\ items' = Tail(items)

Clear ==
  /\ items' = <<>>
  /\ UNCHANGED taken

Next ==
  \/ \E x \in Item : Put(x)
  \/ \E c \in Consumer : Take(c)
  \/ Clear

Spec == Init /\ [][Next]_fifoVars
=============================================================================
