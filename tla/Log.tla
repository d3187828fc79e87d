-------------------------------- MODULE Log --------------------------------
(***************************************************************************)
(* The log (log/log.cpp, log/log.h): threads call write_log(), which       *)
(* counts the line and changes the file when the day or m_split_lines asks *)
(* for it, makes the text, and gives it to the queue or to the file, all   *)
(* in critical sections of their own; in asynchronous mode one thread      *)
(* moves lines from the queue to the file.                                 *)
(*                                                                         *)
(* A line is <<thread, n>>, the n-th line of that thread; its text is left *)
(* out, and so is stdio's buffering: a line is in the file from fputs() on.*)
(* The queue is its specification BoundedFifo, which BlockQueue implements.*)
(***************************************************************************)
EXTENDS Integers, Sequences, FiniteSets

CONSTANTS
  Thread,         \* the threads that log
  Writer,         \* flush_log_thread
  m_split_lines,
  MaxQueue,       \* max_queue_size of asynchronous logging
  MaxLines,       \* bound: lines of a thread
  MaxDay,         \* bound: days after the first
  None

ASSUME LogAssumption ==
  /\ IsFiniteSet(Thread) /\ Writer \notin Thread
  /\ m_split_lines \in Nat \ {0} /\ MaxQueue \in Nat \ {0}
  /\ MaxLines \in Nat /\ MaxDay \in Nat
  /\ None \notin Thread \cup {Writer}

VARIABLES
  m_is_async,   \* set by init(), for good
  today,        \* the day gettimeofday() tells
  sys_tm,       \* the day in localtime()'s static buffer
  m_today,
  m_count,
  m_fp,         \* the name of the open file
  files,        \* [name -> sequence of the lines in it]
  m_log_queue,
  single_log,   \* [{Writer} -> the line async_write_log() has]
  pc,
  lines,        \* [Thread -> calls of write_log() so far]
  my_tm         \* [Thread -> the day its call believes it is]

logVars == <<m_today, m_count, m_fp>>
queueVars == <<m_log_queue, single_log>>
vars == <<m_is_async, today, sys_tm, m_today, m_count, m_fp, files, m_log_queue, single_log,
          pc, lines, my_tm>>

Line == Thread \X (1..MaxLines)
Day == 0..MaxDay

\* The file of a day, and the ones with the suffix m_count / m_split_lines.
FileName == Day \X (0..((Cardinality(Thread) * MaxLines) \div m_split_lines))

Queue == INSTANCE BoundedFifo WITH
  Item <- Line, Consumer <- {Writer}, MaxSize <- MaxQueue,
  items <- m_log_queue, taken <- single_log

LoggerPc == {"out", "localtime", "copy", "count", "full", "push", "fputs"}
WriterPc == {"pop", "fputs"}

TypeOK ==
  /\ m_is_async \in BOOLEAN
  /\ today \in Day /\ sys_tm \in Day /\ m_today \in Day
  /\ m_count \in 0..(Cardinality(Thread) * MaxLines)
  /\ m_fp \in FileName
  /\ files \in [FileName -> Seq(Line)]
  /\ m_log_queue \in Seq(Line) /\ Len(m_log_queue) <= MaxQueue
  /\ single_log \in [{Writer} -> Line \cup {None}]
  /\ pc \in [Thread \cup {Writer} -> LoggerPc \cup WriterPc]
  /\ pc[Writer] \in WriterPc /\ \A t \in Thread : pc[t] \in LoggerPc
  /\ lines \in [Thread -> 0..MaxLines]
  /\ my_tm \in [Thread -> Day]

\* init() has opened the file of the first day.
Init ==
  /\ m_is_async \in BOOLEAN
  /\ today = 0 /\ sys_tm = 0 /\ m_today = 0
  /\ m_count = 0
  /\ m_fp = <<0, 0>>
  /\ files = [f \in FileName |-> <<>>]
  /\ Queue!Init
  /\ pc = [t \in Thread \cup {Writer} |-> IF t = Writer THEN "pop" ELSE "out"]
  /\ lines = [t \in Thread |-> 0]
  /\ my_tm = [t \in Thread |-> 0]

Goto(t, label) == pc' = [pc EXCEPT ![t] = label] /\ UNCHANGED m_is_async

\* fputs(log_str, m_fp) in a critical section of Log::m_mutex
Puts(line) == files' = [files EXCEPT ![m_fp] = Append(@, line)]

-----------------------------------------------------------------------------
(* write_log(), called by thread t *)

\* gettimeofday()
Call(t) ==
  /\ pc[t] = "out"
  /\ lines[t] < MaxLines
  /\ lines' = [lines EXCEPT ![t] = @ + 1]
  /\ my_tm' = [my_tm EXCEPT ![t] = today]
  /\ Goto(t, "localtime")
  /\ UNCHANGED <<today, sys_tm, logVars, files, queueVars>>

\* localtime() puts the time of thread t in a buffer that all threads share ...
LocalTime(t) ==
  /\ pc[t] = "localtime"
  /\ sys_tm' = my_tm[t]
  /\ Goto(t, "copy")
  /\ UNCHANGED <<today, logVars, files, queueVars, lines, my_tm>>

\* ... from which the thread copies it.
CopyTime(t) ==
  /\ pc[t] = "copy"
  /\ my_tm' = [my_tm EXCEPT ![t] = sys_tm]
  /\ Goto(t, "count")
  /\ UNCHANGED <<today, sys_tm, logVars, files, queueVars, lines>>

NewDay(t) == m_today # my_tm[t]
\* A bug to catch: the file is changed once, not every m_split_lines lines.
SplitDue_Once == m_count + 1 = m_split_lines

SplitDue == (m_count + 1) % m_split_lines = 0

\* A bug to catch: the suffix of the file is the count itself.
Suffix_Count == m_count'

Suffix == m_count' \div m_split_lines

\* A bug to catch: the file is opened for writing, not for appending.
Opened_Truncated == files' = [files EXCEPT ![m_fp'] = <<>>]

Opened == UNCHANGED files

\* The first critical section: count the line; with a new day, or one line in
\* m_split_lines, close the file and open another, to append to it.
CountLine(t) ==
  /\ pc[t] = "count"
  /\ m_today' = my_tm[t]
  /\ m_count' = IF NewDay(t) THEN 0 ELSE m_count + 1
  /\ IF NewDay(t) \/ SplitDue
     THEN m_fp' = <<my_tm[t], Suffix>> /\ Opened
     ELSE UNCHANGED <<m_fp, files>>
  /\ Goto(t, "full")
  /\ UNCHANGED <<today, sys_tm, queueVars, lines, my_tm>>

\* The second makes the text in m_buf and copies it.  Then the queue is asked whether
\* it is full, in a critical section of the queue's own.
TestFull(t) ==
  /\ pc[t] = "full"
  /\ Goto(t, IF m_is_async /\ ~Queue!Full THEN "push" ELSE "fputs")
  /\ UNCHANGED <<today, sys_tm, logVars, files, queueVars, lines, my_tm>>

\* A bug to catch: the line is given to the queue and to the file.
PushLine_Both(line) ==
  /\ Queue!Put(line) \/ (Queue!Full /\ UNCHANGED queueVars)
  /\ Puts(line)

PushLine(line) ==
  /\ Queue!Put(line) \/ (Queue!Full /\ UNCHANGED queueVars)
  /\ UNCHANGED files

\* push(), in another one.  Its result is ignored: of a queue that has become full
\* since, the line is dropped.
Push(t) ==
  /\ pc[t] = "push"
  /\ PushLine(<<t, lines[t]>>)
  /\ Goto(t, "out")
  /\ UNCHANGED <<today, sys_tm, logVars, lines, my_tm>>

Fputs(t) ==
  /\ pc[t] = "fputs"
  /\ Puts(<<t, lines[t]>>)
  /\ Goto(t, "out")
  /\ UNCHANGED <<today, sys_tm, logVars, queueVars, lines, my_tm>>

-----------------------------------------------------------------------------
(* async_write_log(), and time *)

WriterPop ==
  /\ pc[Writer] = "pop"
  /\ Queue!Take(Writer)
  /\ Goto(Writer, "fputs")
  /\ UNCHANGED <<today, sys_tm, logVars, files, lines, my_tm>>

WriterFputs ==
  /\ pc[Writer] = "fputs"
  /\ Puts(single_log[Writer])
  /\ Goto(Writer, "pop")
  /\ UNCHANGED <<today, sys_tm, logVars, queueVars, lines, my_tm>>

Midnight ==
  /\ today < MaxDay
  /\ today' = today + 1
  /\ UNCHANGED <<m_is_async, sys_tm, logVars, files, queueVars, pc, lines, my_tm>>

WriteLog(t) ==
  \/ Call(t) \/ LocalTime(t) \/ CopyTime(t)
  \/ CountLine(t)
  \/ TestFull(t) \/ Push(t) \/ Fputs(t)

Next ==
  \/ \E t \in Thread : WriteLog(t)
  \/ WriterPop
  \/ WriterFputs
  \/ Midnight

Spec == Init /\ [][Next]_vars

-----------------------------------------------------------------------------
(* Properties *)

Copies(line) ==
  {place \in FileName \X (1..(Cardinality(Thread) * MaxLines)) :
     place[2] \in DOMAIN files[place[1]] /\ files[place[1]][place[2]] = line}
InQueue(line) == {i \in DOMAIN m_log_queue : m_log_queue[i] = line}
AtWriter(line) == pc[Writer] = "fputs" /\ single_log[Writer] = line

\* The lines whose write_log() has returned.
Logged ==
  {line \in Line : line[2] < lines[line[1]]
                   \/ (line[2] = lines[line[1]] /\ pc[line[1]] = "out")}

\* A line is written at most once, whether it goes to the file or through the queue,
\* and only if it is no longer on its way.
NoLineTwice ==
  \A line \in Line :
    LET copies == Cardinality(Copies(line)) + Cardinality(InQueue(line))
                  + IF AtWriter(line) THEN 1 ELSE 0
    IN  copies <= IF line \in Logged THEN 1 ELSE 0

Elements(s) == {s[i] : i \in DOMAIN s}
Filed == UNION {Elements(files[f]) : f \in FileName}
Queued == Elements(m_log_queue)
Carried == IF pc[Writer] = "fputs" THEN {single_log[Writer]} ELSE {}
Kept == Filed \cup Queued \cup Carried

\* What write_log() has handed on stays in a file, in the queue or with the writer,
\* although threads change the file back and forth around midnight; and there is one way
\* only not to hand a line on: asynchronously, of a queue that has become full since it
\* was asked.
NothingLost ==
  /\ Kept \subseteq Kept'
  /\ Logged' \ Logged \subseteq Kept' \/ (m_is_async /\ Queue!Full)
NoLineLost == [][NothingLost]_vars

\* Until the day changes, a file has more than m_split_lines lines by no more than
\* there may be on their way from the count to the file when it is opened.
FilesNearSplit ==
  today = 0 =>
    \A f \in FileName :
      Len(files[f]) <= m_split_lines + (Cardinality(Thread) - 1)
                       + IF m_is_async THEN MaxQueue + 1 ELSE 0
=============================================================================
