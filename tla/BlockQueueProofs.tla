-------------------------- MODULE BlockQueueProofs --------------------------
(***************************************************************************)
(* Theorems about BlockQueue for any size of the array, any number of      *)
(* consumers and any items.  The argument for the refinement: m_front,     *)
(* m_back and m_size say the same thing twice, and go on doing so when an  *)
(* index wraps and when clear() starts again from -1 (Ring); so push()     *)
(* writes to a place that holds no item.                                   *)
(***************************************************************************)
EXTENDS BlockQueue, SequenceTheorems, TLAPS

\* m_back is the place of the last item after m_front.
Ring == m_back = IF m_size = 0 THEN m_front ELSE (m_front + m_size) % MaxSize

QueueInv == TypeOK /\ NoSleepOverItem /\ Ring

-----------------------------------------------------------------------------
(* Indexes that wrap *)

LEMMA Wraps ==
  ASSUME NEW x \in 0..(2 * MaxSize - 1)
  PROVE  x % MaxSize = IF x < MaxSize THEN x ELSE x - MaxSize
  BY QueueAssumption, SMT

\* The place of the i-th item after f.
LEMMA Place ==
  ASSUME NEW f \in Index \cup {-1}, NEW i \in 1..MaxSize
  PROVE  (f + i) % MaxSize = IF f + i < MaxSize THEN f + i ELSE f + i - MaxSize
<1>1. f + i \in 0..(2 * MaxSize - 1)
  BY QueueAssumption DEF Index
<1>2. QED
  BY <1>1, Wraps, QueueAssumption DEF Index

LEMMA PlaceIsIndex ==
  ASSUME NEW f \in Index \cup {-1}, NEW i \in 1..MaxSize
  PROVE  (f + i) % MaxSize \in Index
  BY Place, QueueAssumption DEF Index

\* Different items are in different places.
LEMMA PlacesDiffer ==
  ASSUME NEW f \in Index \cup {-1}, NEW i \in 1..MaxSize, NEW j \in 1..MaxSize, i # j
  PROVE  (f + i) % MaxSize # (f + j) % MaxSize
<1>1. /\ (f + i) % MaxSize = IF f + i < MaxSize THEN f + i ELSE f + i - MaxSize
      /\ (f + j) % MaxSize = IF f + j < MaxSize THEN f + j ELSE f + j - MaxSize
  BY Place
<1> DEFINE atI == (f + i) % MaxSize
           atJ == (f + j) % MaxSize
<1> HIDE DEF atI, atJ
<1>2. QED
  BY <1>1, QueueAssumption DEF Index, atI, atJ

\* To count on from the next place, or to go on to it, is to count one further.
LEMMA NextPlace ==
  ASSUME NEW f \in Index \cup {-1}, NEW i \in 1..(MaxSize - 1)
  PROVE  /\ (((f + 1) % MaxSize) + i) % MaxSize = (f + (i + 1)) % MaxSize
         /\ (((f + i) % MaxSize) + 1) % MaxSize = (f + (i + 1)) % MaxSize
<1>1. 1 \in 1..MaxSize /\ i \in 1..MaxSize /\ i + 1 \in 1..MaxSize
  BY QueueAssumption
<1>2. (f + 1) % MaxSize \in Index /\ (f + i) % MaxSize \in Index
  BY <1>1, PlaceIsIndex
<1>3. /\ (f + 1) % MaxSize = IF f + 1 < MaxSize THEN f + 1 ELSE f + 1 - MaxSize
      /\ (f + i) % MaxSize = IF f + i < MaxSize THEN f + i ELSE f + i - MaxSize
      /\ (f + (i + 1)) % MaxSize = IF f + (i + 1) < MaxSize THEN f + (i + 1)
                                                            ELSE f + (i + 1) - MaxSize
  BY <1>1, Place
<1>4. \A g \in Index :
        /\ (g + i) % MaxSize = IF g + i < MaxSize THEN g + i ELSE g + i - MaxSize
        /\ (g + 1) % MaxSize = IF g + 1 < MaxSize THEN g + 1 ELSE g + 1 - MaxSize
  BY <1>1, Place
<1>5. /\ (((f + 1) % MaxSize) + i) % MaxSize
          = IF ((f + 1) % MaxSize) + i < MaxSize THEN ((f + 1) % MaxSize) + i
                                               ELSE ((f + 1) % MaxSize) + i - MaxSize
      /\ (((f + i) % MaxSize) + 1) % MaxSize
          = IF ((f + i) % MaxSize) + 1 < MaxSize THEN ((f + i) % MaxSize) + 1
                                               ELSE ((f + i) % MaxSize) + 1 - MaxSize
  BY <1>2, <1>4
<1> DEFINE next == (f + 1) % MaxSize
           last == (f + i) % MaxSize
<1> HIDE DEF next, last
<1>6. QED
  BY <1>1, <1>3, <1>5, QueueAssumption DEF Index, next, last

-----------------------------------------------------------------------------
(* The invariant *)

LEMMA QueueInvInit == Init => QueueInv
  BY QueueAssumption DEF Init, QueueInv, TypeOK, NoSleepOverItem, Ring, Index, ConsumerPc

LEMMA AwakeIsAwake ==
  ASSUME NEW state \in ConsumerPc
  PROVE  Awake(state) \in ConsumerPc \ {"waiting", "timed"}
<1>1. CASE state = "waiting"
  BY <1>1 DEF Awake, ConsumerPc
<1>2. CASE state = "timed"
  BY <1>2 DEF Awake, ConsumerPc
<1>3. CASE state \in ConsumerPc \ {"waiting", "timed"}
  BY <1>3 DEF Awake, ConsumerPc
<1>4. QED
  BY <1>1, <1>2, <1>3

\* A broadcast leaves nobody asleep.
LEMMA BroadcastWakes ==
  ASSUME TypeOK, Broadcast
  PROVE  /\ pc' \in [Consumer -> ConsumerPc]
         /\ \A c \in Consumer : pc'[c] \notin {"waiting", "timed"}
  BY AwakeIsAwake DEF TypeOK, Broadcast

LEMMA PushKeepsInv == ASSUME QueueInv, NEW x \in Item, Push(x) PROVE QueueInv'
<1> USE DEF QueueInv
<1>1. /\ m_size \in 0..(MaxSize - 1) /\ m_size' = m_size + 1
      /\ m_front \in Index \cup {-1} /\ m_front' = m_front
      /\ item' = item
  BY QueueAssumption DEF Push, full, TypeOK
<1>2. m_back' = (m_front + m_size') % MaxSize
  <2>1. m_back' = (m_back + 1) % MaxSize
    BY DEF Push
  <2>2. CASE m_size = 0
    BY <1>1, <2>1, <2>2 DEF Ring
  <2>3. CASE m_size \in 1..(MaxSize - 1)
    BY <1>1, <2>1, <2>3, NextPlace DEF Ring
  <2>4. QED
    BY <1>1, <2>2, <2>3, QueueAssumption
<1>3. m_back' \in Index
  BY <1>1, <1>2, PlaceIsIndex, QueueAssumption
<1>4. /\ pc' \in [Consumer -> ConsumerPc]
      /\ \A c \in Consumer : pc'[c] \notin {"waiting", "timed"}
  BY BroadcastWakes DEF Push, Wake
<1>5. m_array' \in [Index -> Item \cup {None}]
  BY <1>3 DEF Push, TypeOK
<1>6. TypeOK'
  BY <1>1, <1>3, <1>4, <1>5, QueueAssumption DEF TypeOK
<1>7. Ring'
  BY <1>1, <1>2, QueueAssumption DEF Ring
<1>8. QED
  BY <1>4, <1>6, <1>7 DEF NoSleepOverItem

LEMMA TakeKeepsInv ==
  ASSUME QueueInv, NEW c \in Consumer, m_size > 0, TakeFront(c)
  PROVE  QueueInv'
<1> USE DEF QueueInv
<1>1. /\ m_size \in 1..MaxSize /\ m_size' = m_size - 1
      /\ m_front \in Index \cup {-1} /\ m_front' = (m_front + 1) % MaxSize
      /\ m_back' = m_back /\ m_array' = m_array
  BY QueueAssumption DEF TakeFront, TypeOK
<1>2. m_front' \in Index
  BY <1>1, PlaceIsIndex, QueueAssumption
<1>3. TypeOK'
  BY <1>1, <1>2, QueueAssumption DEF TypeOK, TakeFront, ConsumerPc
<1>4. Ring'
  <2>1. CASE m_size = 1
    BY <1>1, <2>1 DEF Ring
  <2>2. CASE m_size - 1 \in 1..(MaxSize - 1)
    <3>1. (((m_front + 1) % MaxSize) + (m_size - 1)) % MaxSize
            = (m_front + (m_size - 1 + 1)) % MaxSize
      BY <1>1, <2>2, NextPlace
    <3>2. m_size - 1 + 1 = m_size /\ m_size # 0 /\ m_size - 1 # 0
      BY <1>1, <2>2
    <3>3. QED
      BY <1>1, <3>1, <3>2 DEF Ring
  <2>3. QED
    BY <1>1, <2>1, <2>2, QueueAssumption
<1>5. NoSleepOverItem'
  BY <1>1 DEF NoSleepOverItem, TakeFront, TypeOK
<1>6. QED
  BY <1>3, <1>4, <1>5

LEMMA QueueInvStep == QueueInv /\ [Next]_vars => QueueInv'
<1> SUFFICES ASSUME QueueInv, [Next]_vars
             PROVE  QueueInv'
  OBVIOUS
<1>1. ASSUME NEW x \in Item, Push(x)
      PROVE  QueueInv'
  BY <1>1, PushKeepsInv
<1>2. CASE PushFull
  BY <1>2, BroadcastWakes DEF PushFull, array, QueueInv, TypeOK, NoSleepOverItem, Ring
<1>3. ASSUME NEW c \in Consumer, PopTake(c) \/ TimedPopTake(c)
      PROVE  QueueInv'
  BY <1>3, TakeKeepsInv DEF PopTake, TimedPopTake
<1>4. ASSUME NEW c \in Consumer, PopWait(c) \/ TimedPopWait(c)
      PROVE  QueueInv'
  BY <1>4 DEF PopWait, TimedPopWait, Goto, array, QueueInv, TypeOK, NoSleepOverItem,
              Ring, ConsumerPc
<1>5. ASSUME NEW c \in Consumer, TimedPopFails(c) \/ SpuriousWakeup(c)
      PROVE  QueueInv'
  <2>1. PICK state \in ConsumerPc \ {"waiting", "timed"} : Goto(c, state)
    <3>1. pc[c] \in ConsumerPc
      BY DEF QueueInv, TypeOK
    <3>2. QED
      BY <1>5, <3>1, AwakeIsAwake DEF TimedPopFails, SpuriousWakeup, ConsumerPc
  <2>2. QED
    BY <2>1 DEF Goto, array, QueueInv, TypeOK, NoSleepOverItem, Ring
<1>6. CASE Clear
  BY <1>6, QueueAssumption
     DEF Clear, ResetBack, QueueInv, TypeOK, NoSleepOverItem, Ring
<1>7. CASE UNCHANGED vars
  BY <1>7 DEF vars, QueueInv, TypeOK, NoSleepOverItem, Ring
<1>8. QED
  BY <1>1, <1>2, <1>3, <1>4, <1>5, <1>6, <1>7 DEF Next, Pop, TimedPop

LEMMA QueueInvariant == Spec => []QueueInv
  BY QueueInvInit, QueueInvStep, PTL DEF Spec

(* Every variable keeps its type: the size never passes the limit, and no    *)
(* index leaves the array.                                                   *)
THEOREM QueueTypeCorrect == Spec => []TypeOK
<1>1. QueueInv => TypeOK
  BY DEF QueueInv
<1>2. QED
  BY <1>1, QueueInvariant, PTL

(* No consumer sleeps over an item, for any number of them and any timeouts. *)
THEOREM NobodySleepsOverAnItem == Spec => []NoSleepOverItem
<1>1. QueueInv => NoSleepOverItem
  BY DEF QueueInv
<1>2. QED
  BY <1>1, QueueInvariant, PTL

-----------------------------------------------------------------------------
(* The refinement of BoundedFifo *)

\* The i-th item of the queue is in the i-th place after m_front.
InPlace ==
  /\ Contents \in Seq(Item \cup {None})
  /\ Len(Contents) = m_size
  /\ \A i \in 1..m_size : Contents[i] = m_array[(m_front + i) % MaxSize]

LEMMA ContentsInPlace == QueueInv => InPlace
<1> SUFFICES ASSUME QueueInv
             PROVE  InPlace
  OBVIOUS
<1>1. /\ m_size \in 0..MaxSize /\ m_front \in Index \cup {-1}
      /\ m_array \in [Index -> Item \cup {None}]
  BY DEF QueueInv, TypeOK
<1>2. \A i \in 1..m_size : (m_front + i) % MaxSize \in Index
  <2> TAKE i \in 1..m_size
  <2>1. i \in 1..MaxSize
    BY <1>1, QueueAssumption
  <2>2. QED
    BY <1>1, <2>1, PlaceIsIndex
<1>3. \A i \in 1..m_size : m_array[(m_front + i) % MaxSize] \in Item \cup {None}
  BY <1>1, <1>2
<1>4. Contents \in [1..m_size -> Item \cup {None}]
  BY <1>3 DEF Contents
<1>5. m_size \in Nat
  BY <1>1, QueueAssumption
<1>6. Contents \in Seq(Item \cup {None}) /\ Len(Contents) = m_size
  BY <1>4, <1>5
<1>7. QED
  BY <1>6 DEF Contents, InPlace

\* A step that changes no place changes nothing that the abstract queue sees.
LEMMA SameArraySameContents ==
  ASSUME UNCHANGED array
  PROVE  Contents' = Contents
  BY DEF array, Contents

LEMMA PushPuts == ASSUME QueueInv, NEW x \in Item, Push(x) PROVE Fifo!Put(x)
<1>1. InPlace
  BY ContentsInPlace
<1>2. InPlace'
  <2>1. QueueInv'
    BY PushKeepsInv
  <2>2. QueueInv' => InPlace'
    BY ContentsInPlace, PTL
  <2>3. QED
    BY <2>1, <2>2
<1>3. /\ m_size \in 0..(MaxSize - 1) /\ m_size' = m_size + 1
      /\ m_front \in Index \cup {-1} /\ m_front' = m_front
      /\ item' = item /\ m_array \in [Index -> Item \cup {None}]
  BY QueueAssumption DEF Push, full, TypeOK, QueueInv
<1>4. m_array' = [m_array EXCEPT ![(m_front + (m_size + 1)) % MaxSize] = x]
  <2>1. QueueInv'
    BY PushKeepsInv
  <2>2. m_back' = (m_front + (m_size + 1)) % MaxSize
    BY <1>3, <2>1, QueueAssumption DEF QueueInv, Ring
  <2>3. QED
    BY <2>2 DEF Push
<1>5. /\ Append(Contents, x) \in Seq(Item \cup {None})
      /\ Len(Append(Contents, x)) = m_size + 1
      /\ \A i \in 1..m_size : Append(Contents, x)[i] = Contents[i]
      /\ Append(Contents, x)[m_size + 1] = x
  BY <1>1, AppendProperties DEF InPlace
<1>6. ASSUME NEW i \in 1..(m_size + 1)
      PROVE  Contents'[i] = Append(Contents, x)[i]
  <2>1. Contents'[i] = m_array'[(m_front + i) % MaxSize]
    BY <1>2, <1>3 DEF InPlace
  <2>2. i \in 1..MaxSize /\ m_size + 1 \in 1..MaxSize
    BY <1>3, QueueAssumption
  <2>3. (m_front + i) % MaxSize \in Index
    BY <1>3, <2>2, PlaceIsIndex
  <2>4. CASE i \in 1..m_size
    <3>1. i # m_size + 1
      BY <1>3, <2>4
    <3>2. (m_front + i) % MaxSize # (m_front + (m_size + 1)) % MaxSize
      BY <1>3, <2>2, <3>1, PlacesDiffer
    <3>3. m_array'[(m_front + i) % MaxSize] = m_array[(m_front + i) % MaxSize]
      BY <1>3, <1>4, <2>3, <3>2
    <3>4. QED
      BY <1>1, <1>5, <2>1, <2>4, <3>3 DEF InPlace
  <2>5. CASE i = m_size + 1
    BY <1>3, <1>4, <1>5, <2>1, <2>3, <2>5
  <2>6. i \in 1..m_size \/ i = m_size + 1
    BY <1>3, QueueAssumption
  <2>7. QED
    BY <2>4, <2>5, <2>6
<1>7. Contents' = Append(Contents, x)
  BY <1>2, <1>3, <1>5, <1>6, SeqEqual DEF InPlace
<1>8. ~ Fifo!Full
  BY <1>1, <1>3, QueueAssumption DEF InPlace, Fifo!Full
<1>9. QED
  BY <1>3, <1>7, <1>8 DEF Fifo!Put

LEMMA TakeFrontTakes ==
  ASSUME QueueInv, NEW c \in Consumer, m_size > 0, TakeFront(c)
  PROVE  Fifo!Take(c)
<1>1. InPlace
  BY ContentsInPlace
<1>2. InPlace'
  <2>1. QueueInv'
    BY TakeKeepsInv
  <2>2. QueueInv' => InPlace'
    BY ContentsInPlace, PTL
  <2>3. QED
    BY <2>1, <2>2
<1>3. /\ m_size \in 1..MaxSize /\ m_size' = m_size - 1
      /\ m_front \in Index \cup {-1} /\ m_front' = (m_front + 1) % MaxSize
      /\ m_array' = m_array
      /\ item' = [item EXCEPT ![c] = m_array[(m_front + 1) % MaxSize]]
  BY QueueAssumption DEF TakeFront, TypeOK, QueueInv
<1>4. Contents # <<>>
  BY <1>1, <1>3, QueueAssumption DEF InPlace
<1>5. Head(Contents) = m_array[(m_front + 1) % MaxSize]
  BY <1>1, <1>3, <1>4, QueueAssumption DEF InPlace
<1>6. /\ Tail(Contents) \in Seq(Item \cup {None})
      /\ Len(Tail(Contents)) = m_size - 1
      /\ \A i \in 1..(m_size - 1) : Tail(Contents)[i] = Contents[i + 1]
  BY <1>1, <1>4, HeadTailProperties DEF InPlace
<1>7. ASSUME NEW i \in 1..(m_size - 1)
      PROVE  Contents'[i] = Tail(Contents)[i]
  <2>1. Contents'[i] = m_array[(((m_front + 1) % MaxSize) + i) % MaxSize]
    BY <1>2, <1>3 DEF InPlace
  <2>2. i \in 1..(MaxSize - 1) /\ i + 1 \in 1..m_size
    BY <1>3, QueueAssumption
  <2>3. (((m_front + 1) % MaxSize) + i) % MaxSize = (m_front + (i + 1)) % MaxSize
    BY <1>3, <2>2, NextPlace
  <2>4. Contents[i + 1] = m_array[(m_front + (i + 1)) % MaxSize]
    BY <1>1, <2>2 DEF InPlace
  <2>5. QED
    BY <1>6, <2>1, <2>3, <2>4
<1>8. Contents' = Tail(Contents)
  BY <1>2, <1>3, <1>6, <1>7, SeqEqual DEF InPlace
<1>9. QED
  BY <1>3, <1>4, <1>5, <1>8 DEF Fifo!Take

LEMMA ClearClears == ASSUME Clear PROVE Fifo!Clear
<1>1. m_size' = 0 /\ item' = item
  BY DEF Clear
<1>2. Contents' = <<>>
  BY <1>1 DEF Contents
<1>3. QED
  BY <1>1, <1>2 DEF Fifo!Clear

LEMMA InitIsFifo == Init => Fifo!Init
<1> SUFFICES ASSUME Init
             PROVE  Fifo!Init
  OBVIOUS
<1>1. Contents = <<>>
  BY DEF Init, Contents
<1>2. QED
  BY <1>1 DEF Init, Fifo!Init

LEMMA StepIsFifo == QueueInv /\ [Next]_vars => [Fifo!Next]_(Fifo!fifoVars)
<1> SUFFICES ASSUME QueueInv, [Next]_vars
             PROVE  Fifo!Next \/ UNCHANGED Fifo!fifoVars
  OBVIOUS
<1>1. ASSUME NEW x \in Item, Push(x)
      PROVE  Fifo!Next
  BY <1>1, PushPuts DEF Fifo!Next
<1>2. ASSUME NEW c \in Consumer, PopTake(c) \/ TimedPopTake(c)
      PROVE  Fifo!Next
  BY <1>2, TakeFrontTakes DEF PopTake, TimedPopTake, Fifo!Next
<1>3. CASE Clear
  BY <1>3, ClearClears DEF Fifo!Next
<1>4. ASSUME UNCHANGED array, UNCHANGED item
      PROVE  UNCHANGED Fifo!fifoVars
  BY <1>4, SameArraySameContents DEF Fifo!fifoVars
<1>5. CASE PushFull
  BY <1>4, <1>5 DEF PushFull, array
<1>6. ASSUME NEW c \in Consumer,
             PopWait(c) \/ TimedPopWait(c) \/ TimedPopFails(c) \/ SpuriousWakeup(c)
      PROVE  UNCHANGED Fifo!fifoVars
  BY <1>4, <1>6 DEF PopWait, TimedPopWait, TimedPopFails, SpuriousWakeup, Goto, array
<1>7. CASE UNCHANGED vars
  BY <1>4, <1>7 DEF vars, array
<1>8. QED
  BY <1>1, <1>2, <1>3, <1>5, <1>6, <1>7 DEF Next, Pop, TimedPop

(* The circular array under its mutex and condition variable is a bounded    *)
(* queue: what push() puts is taken once, by one consumer, oldest first, for *)
(* every size of the array, however often the indexes wrap and whoever calls.*)
THEOREM QueueImplementsFifo == Spec => QueueIsFifo
  BY InitIsFifo, StepIsFifo, QueueInvariant, PTL DEF Spec, QueueIsFifo, Fifo!Spec
=============================================================================
