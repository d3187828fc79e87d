----------------------------- MODULE LogProofs -----------------------------
(***************************************************************************)
(* Theorems about Log for any number of threads, lines and days and any    *)
(* sizes of the queue and the files.  The argument: a line that is in a    *)
(* file, in the queue or with the writer is one whose write_log() has      *)
(* returned, so the line that a thread is about to hand on is nowhere yet; *)
(* and what is in one of the three places is not in another.  Before the   *)
(* first midnight m_count names the open file, and the lines in it and on  *)
(* their way to it are those counted since it was opened and some late.    *)
(***************************************************************************)
EXTENDS Log, SequenceTheorems, FiniteSetTheorems, TLAPS

\* The line that thread t is logging
Current(t) == <<t, lines[t]>>

\* The lines that m_count may have counted
AfterCount == {"full", "push", "fputs", "out"}
Counted ==
  {line \in Line : \/ line[2] < lines[line[1]]
                   \/ line[2] = lines[line[1]] /\ pc[line[1]] \in AfterCount}

Distinct(s) == \A i, j \in DOMAIN s : s[i] = s[j] => i = j

\* No line is in two files or twice in one.
FilesOnce ==
  /\ \A f \in FileName : Distinct(files[f])
  /\ \A f, g \in FileName : f # g => Elements(files[f]) \cap Elements(files[g]) = {}

Apart ==
  /\ Filed \cap Queued = {} /\ Filed \cap Carried = {} /\ Queued \cap Carried = {}
  /\ Filed \cup Queued \cup Carried \subseteq Logged

LogInv ==
  /\ TypeOK
  /\ pc[Writer] = "fputs" => single_log[Writer] \in Line
  /\ \A t \in Thread : pc[t] # "out" => lines[t] > 0
  /\ m_count <= Cardinality(Counted)
  /\ Distinct(m_log_queue) /\ FilesOnce
  /\ Apart
  /\ ~m_is_async => \A t \in Thread : pc[t] # "push"

-----------------------------------------------------------------------------
(* Lines, files and sequences *)

LEMMA LinesAreFinite ==
  /\ IsFiniteSet(Line) /\ Cardinality(Line) = Cardinality(Thread) * MaxLines
  /\ Cardinality(Thread) \in Nat /\ MaxLines \in Nat
<1>1. IsFiniteSet(1..MaxLines) /\ Cardinality(1..MaxLines) = MaxLines
  BY LogAssumption, FS_Interval DEF LogAssumption
<1>2. IsFiniteSet(Thread) /\ Cardinality(Thread) \in Nat
  BY LogAssumption, FS_CardinalityType DEF LogAssumption
<1>3. IsFiniteSet(Line) /\ Cardinality(Line) = Cardinality(Thread) * Cardinality(1..MaxLines)
  BY <1>1, <1>2, FS_Product DEF Line
<1>4. QED
  BY <1>1, <1>2, <1>3, LogAssumption DEF LogAssumption

LEMMA CountedIsBounded ==
  /\ IsFiniteSet(Counted) /\ Cardinality(Counted) \in Nat
  /\ Cardinality(Counted) <= Cardinality(Thread) * MaxLines
<1>1. Counted \in SUBSET Line
  BY DEF Counted
<1>2. QED
  BY <1>1, LinesAreFinite, FS_Subset, FS_CardinalityType

\* A file that m_count lines ago was the first of its day has a name.
LEMMA FileIsNamed ==
  ASSUME NEW d \in Day, NEW n \in 0..(Cardinality(Thread) * MaxLines)
  PROVE  <<d, n \div m_split_lines>> \in FileName
<1>1. /\ Cardinality(Thread) * MaxLines \in Nat
      /\ m_split_lines \in Nat \ {0}
  BY LinesAreFinite, LogAssumption DEF LogAssumption
<1> DEFINE most == Cardinality(Thread) * MaxLines
<1> HIDE DEF most
<1>2. most \in Nat /\ n \in 0..most
  BY <1>1 DEF most
<1>3. n \div m_split_lines \in 0..(most \div m_split_lines)
  BY <1>1, <1>2
<1>4. QED
  BY <1>3 DEF FileName, most

LEMMA Appended ==
  ASSUME NEW s \in Seq(Line), NEW x \in Line
  PROVE  /\ Append(s, x) \in Seq(Line)
         /\ Elements(Append(s, x)) = Elements(s) \cup {x}
         /\ Distinct(s) /\ x \notin Elements(s) => Distinct(Append(s, x))
<1> DEFINE n == Len(s)
           a == Append(s, x)
<1>1. /\ n \in Nat /\ DOMAIN s = 1..n
      /\ a \in Seq(Line) /\ DOMAIN a = 1..(n + 1)
      /\ \A i \in 1..n : a[i] = s[i]
      /\ a[n + 1] = x
  BY LenProperties, AppendProperties
<1> HIDE DEF n, a
<1>2. 1..(n + 1) = 1..n \cup {n + 1}
  BY <1>1
<1>3. Elements(a) = Elements(s) \cup {x}
  BY <1>1, <1>2 DEF Elements
<1>4. Distinct(s) /\ x \notin Elements(s) => Distinct(a)
  BY <1>1, <1>2 DEF Distinct, Elements
<1>5. QED
  BY <1>1, <1>3, <1>4 DEF a

LEMMA HeadTaken ==
  ASSUME NEW s \in Seq(Line), s # <<>>, Distinct(s)
  PROVE  /\ Head(s) \in Line /\ Head(s) \in Elements(s)
         /\ Tail(s) \in Seq(Line) /\ Len(Tail(s)) = Len(s) - 1
         /\ Elements(Tail(s)) = Elements(s) \ {Head(s)}
         /\ Distinct(Tail(s))
<1> DEFINE n == Len(s)
           t == Tail(s)
<1>1. /\ n \in Nat /\ n > 0 /\ DOMAIN s = 1..n
      /\ t \in Seq(Line) /\ Len(t) = n - 1 /\ DOMAIN t = 1..(n - 1)
      /\ \A i \in 1..(n - 1) : t[i] = s[i + 1]
      /\ Head(s) = s[1] /\ s[1] \in Line
  BY LenProperties, HeadTailProperties, EmptySeq
<1> HIDE DEF n, t
<1>2. Elements(t) \subseteq Elements(s) \ {s[1]}
  <2> SUFFICES ASSUME NEW i \in 1..(n - 1)
               PROVE  t[i] \in Elements(s) \ {s[1]}
    BY <1>1 DEF Elements
  <2>1. i + 1 \in 1..n /\ i + 1 # 1 /\ 1 \in 1..n
    BY <1>1
  <2>2. t[i] = s[i + 1] /\ s[i + 1] # s[1]
    BY <1>1, <2>1 DEF Distinct
  <2>3. s[i + 1] \in Elements(s)
    BY <1>1, <2>1 DEF Elements
  <2>4. QED
    BY <2>2, <2>3
<1>3. Elements(s) \ {s[1]} \subseteq Elements(t)
  <2> SUFFICES ASSUME NEW i \in 1..n, s[i] # s[1]
               PROVE  s[i] \in Elements(t)
    BY <1>1 DEF Elements
  <2>1. i - 1 \in 1..(n - 1) /\ (i - 1) + 1 = i
    BY <1>1
  <2>2. QED
    BY <1>1, <2>1 DEF Elements
<1>4. Distinct(t)
  <2> SUFFICES ASSUME NEW i \in 1..(n - 1), NEW j \in 1..(n - 1), t[i] = t[j]
               PROVE  i = j
    BY <1>1 DEF Distinct
  <2>1. i + 1 \in 1..n /\ j + 1 \in 1..n /\ s[i + 1] = s[j + 1]
    BY <1>1
  <2>2. i + 1 = j + 1
    BY <1>1, <2>1 DEF Distinct
  <2>3. QED
    BY <2>2
<1>5. s[1] \in Elements(s)
  BY <1>1 DEF Elements
<1>6. QED
  BY <1>1, <1>2, <1>3, <1>4, <1>5 DEF t, n

-----------------------------------------------------------------------------
(* What the steps do to the lines *)

LEMMA LineInTwo ==
  ASSUME NEW line \in Line
  PROVE  line = <<line[1], line[2]>> /\ line[1] \in Thread /\ line[2] \in 1..MaxLines
  BY DEF Line

\* The line that a thread is logging is nowhere yet.
LEMMA CurrentIsNew ==
  ASSUME LogInv, NEW t \in Thread, pc[t] # "out"
  PROVE  /\ Current(t) \in Line /\ Current(t) \notin Logged
         /\ Current(t) \notin Filed /\ Current(t) \notin Queued /\ Current(t) \notin Carried
<1>1. lines[t] \in 0..MaxLines /\ lines[t] > 0 /\ MaxLines \in Nat
  BY LogAssumption DEF LogInv, TypeOK, LogAssumption
<1>2. Current(t) \in Line /\ Current(t)[1] = t /\ Current(t)[2] = lines[t]
  BY <1>1 DEF Current, Line
<1>3. Current(t) \notin Logged
  BY <1>1, <1>2 DEF Logged
<1>4. QED
  BY <1>2, <1>3 DEF LogInv, Apart

\* A thread goes on within write_log().
LEMMA GoesOn ==
  ASSUME LogInv, NEW t \in Thread, NEW l \in LoggerPc \ {"out"}, pc[t] # "out",
         pc' = [pc EXCEPT ![t] = l], lines' = lines
  PROVE  /\ Logged' = Logged
         /\ (pc[t] \in AfterCount <=> l \in AfterCount) => Counted' = Counted
         /\ pc[t] \notin AfterCount /\ l \in AfterCount => Counted' = Counted \cup {Current(t)}
         /\ pc[t] \notin AfterCount => Current(t) \notin Counted
<1>1. pc \in [Thread \cup {Writer} -> LoggerPc \cup WriterPc] /\ lines \in [Thread -> 0..MaxLines]
  BY DEF LogInv, TypeOK
<1>2. \A u \in Thread : pc'[u] = IF u = t THEN l ELSE pc[u]
  BY <1>1
<1>3. Logged' = Logged
  BY <1>2, LineInTwo DEF Logged
<1>4. Current(t) \in Line /\ Current(t)[1] = t /\ Current(t)[2] = lines[t]
  BY CurrentIsNew DEF Current
<1>5. lines[t] \in Int /\ ~(lines[t] < lines[t])
  BY <1>1, LogAssumption DEF LogAssumption
<1>6. (pc[t] \in AfterCount <=> l \in AfterCount) => Counted' = Counted
  BY <1>2, LineInTwo DEF Counted
<1>7. pc[t] \notin AfterCount => Current(t) \notin Counted
  BY <1>4, <1>5 DEF Counted
<1>8. ASSUME pc[t] \notin AfterCount, l \in AfterCount
      PROVE  Counted' = Counted \cup {Current(t)}
  BY <1>2, <1>4, <1>8, LineInTwo DEF Counted, Current
<1>9. QED
  BY <1>3, <1>6, <1>7, <1>8

\* write_log() returns.
LEMMA Returns ==
  ASSUME LogInv, NEW t \in Thread, pc[t] \in {"push", "fputs"},
         pc' = [pc EXCEPT ![t] = "out"], lines' = lines
  PROVE  Logged' = Logged \cup {Current(t)} /\ Counted' = Counted
<1>1. pc \in [Thread \cup {Writer} -> LoggerPc \cup WriterPc]
  BY DEF LogInv, TypeOK
<1>2. \A u \in Thread : pc'[u] = IF u = t THEN "out" ELSE pc[u]
  BY <1>1
<1>3. Counted' = Counted
  BY <1>2, LineInTwo DEF Counted, AfterCount
<1>4. Current(t) \in Line /\ Current(t)[1] = t /\ Current(t)[2] = lines[t]
  BY CurrentIsNew DEF Current
<1>5. Logged' = Logged \cup {Current(t)}
  BY <1>2, <1>4, LineInTwo DEF Logged, Current
<1>6. QED
  BY <1>3, <1>5

\* fputs() of a line that is in no file yet
LEMMA Written ==
  ASSUME LogInv, NEW x \in Line, x \notin Filed, Puts(x)
  PROVE  /\ files' \in [FileName -> Seq(Line)]
         /\ Filed' = Filed \cup {x}
         /\ FilesOnce'
<1>1. /\ files \in [FileName -> Seq(Line)] /\ m_fp \in FileName /\ FilesOnce
      /\ files' = [files EXCEPT ![m_fp] = Append(files[m_fp], x)]
  BY DEF LogInv, TypeOK, Puts
<1>2. /\ files[m_fp] \in Seq(Line) /\ x \notin Elements(files[m_fp]) /\ Distinct(files[m_fp])
  BY <1>1 DEF Filed, FilesOnce
<1>3. /\ Append(files[m_fp], x) \in Seq(Line)
      /\ Elements(Append(files[m_fp], x)) = Elements(files[m_fp]) \cup {x}
      /\ Distinct(Append(files[m_fp], x))
  BY <1>2, Appended
<1>4. \A f \in FileName :
        files'[f] = IF f = m_fp THEN Append(files[m_fp], x) ELSE files[f]
  BY <1>1
<1>5. files' \in [FileName -> Seq(Line)]
  BY <1>1, <1>3
<1>6. \A f \in FileName :
        /\ Elements(files'[f]) = Elements(files[f]) \cup (IF f = m_fp THEN {x} ELSE {})
        /\ Distinct(files'[f])
  BY <1>1, <1>3, <1>4 DEF FilesOnce
<1>7. Filed' = Filed \cup {x}
  BY <1>1, <1>6 DEF Filed
<1>8. FilesOnce'
  <2>1. \A f \in FileName : x \notin Elements(files[f])
    BY DEF Filed
  <2>2. QED
    BY <1>1, <1>6, <2>1 DEF FilesOnce
<1>9. QED
  BY <1>5, <1>7, <1>8

-----------------------------------------------------------------------------
(* The steps of a thread *)

\* Steps that move no line
LEMMA KeepsPlaces ==
  ASSUME LogInv, TypeOK',
         UNCHANGED <<files, m_log_queue, single_log, m_is_async>>, pc'[Writer] = pc[Writer],
         Logged' = Logged,
         \A t \in Thread : pc'[t] # "out" => lines'[t] > 0,
         m_count' <= Cardinality(Counted'),
         ~m_is_async => \A t \in Thread : pc'[t] # "push"
  PROVE  LogInv' /\ NothingLost
<1>1. Filed' = Filed /\ Queued' = Queued /\ Carried' = Carried
  BY DEF Filed, Queued, Carried
<1>2. NothingLost
  BY <1>1 DEF NothingLost, Kept
<1>3. LogInv'
  BY <1>1 DEF LogInv, Apart, FilesOnce
<1>4. QED
  BY <1>2, <1>3

LEMMA CallStep ==
  ASSUME LogInv, NEW t \in Thread, Call(t)
  PROVE  LogInv' /\ NothingLost
<1>1. /\ TypeOK /\ pc \in [Thread \cup {Writer} -> LoggerPc \cup WriterPc]
      /\ lines \in [Thread -> 0..MaxLines] /\ MaxLines \in Nat /\ t # Writer
  BY LogAssumption DEF LogInv, TypeOK, LogAssumption
<1>2. /\ pc[t] = "out" /\ lines[t] < MaxLines
      /\ pc' = [pc EXCEPT ![t] = "localtime"] /\ lines' = [lines EXCEPT ![t] = lines[t] + 1]
      /\ my_tm' = [my_tm EXCEPT ![t] = today]
      /\ UNCHANGED <<m_is_async, today, sys_tm, m_today, m_count, m_fp, files, m_log_queue,
                     single_log>>
  BY DEF Call, Goto, logVars, queueVars
<1>3. lines[t] + 1 \in 1..MaxLines
  BY <1>1, <1>2
<1>4. /\ \A u \in Thread : /\ pc'[u] = IF u = t THEN "localtime" ELSE pc[u]
                           /\ lines'[u] = IF u = t THEN lines[t] + 1 ELSE lines[u]
      /\ pc'[Writer] = pc[Writer]
  BY <1>1, <1>2
<1>5. TypeOK'
  BY <1>1, <1>2, <1>3, <1>4 DEF TypeOK, LoggerPc
<1>6. \A n \in 1..MaxLines : n < lines[t] + 1 <=> n < lines[t] \/ n = lines[t]
  BY <1>1
<1>7. \A n \in 1..MaxLines : n = lines[t] + 1 => ~(n < lines[t]) /\ n # lines[t]
  BY <1>1
<1>8. Logged' = Logged
  BY <1>2, <1>4, <1>6, <1>7, LineInTwo DEF Logged
<1>9. Counted' = Counted
  BY <1>2, <1>4, <1>6, <1>7, LineInTwo DEF Counted, AfterCount
<1>10. \A u \in Thread : pc'[u] # "out" => lines'[u] > 0
  BY <1>3, <1>4 DEF LogInv
<1>11. QED
  BY <1>2, <1>4, <1>5, <1>8, <1>9, <1>10, KeepsPlaces DEF LogInv

LEMMA CountStep ==
  ASSUME LogInv, NEW t \in Thread, CountLine(t)
  PROVE  LogInv' /\ NothingLost
<1>1. /\ TypeOK /\ pc \in [Thread \cup {Writer} -> LoggerPc \cup WriterPc]
      /\ t # Writer /\ my_tm[t] \in Day /\ m_count \in Nat
      /\ m_count <= Cardinality(Counted)
  BY LinesAreFinite, LogAssumption DEF LogInv, TypeOK, LogAssumption
<1>2. /\ pc[t] = "count" /\ pc' = [pc EXCEPT ![t] = "full"]
      /\ m_today' = my_tm[t]
      /\ m_count' \in {0, m_count + 1}
      /\ UNCHANGED <<m_is_async, today, sys_tm, files, m_log_queue, single_log, lines, my_tm>>
      /\ m_fp' \in {m_fp, <<my_tm[t], m_count' \div m_split_lines>>}
  BY DEF CountLine, Goto, Suffix, Opened, queueVars
<1>3. /\ \A u \in Thread : pc'[u] = IF u = t THEN "full" ELSE pc[u]
      /\ pc'[Writer] = pc[Writer]
  BY <1>1, <1>2
<1>4. Logged' = Logged /\ Counted' = Counted \cup {Current(t)} /\ Current(t) \notin Counted
  BY <1>2, GoesOn DEF LoggerPc, AfterCount
<1>5. /\ Cardinality(Counted') = Cardinality(Counted) + 1 /\ Cardinality(Counted) \in Nat
  BY <1>4, CountedIsBounded, FS_AddElement
<1>6. Counted' \subseteq Line
  BY DEF Counted
<1>7. Cardinality(Counted') <= Cardinality(Thread) * MaxLines
  BY <1>6, LinesAreFinite, FS_Subset
<1>8. m_count' \in 0..(Cardinality(Thread) * MaxLines) /\ m_count' <= Cardinality(Counted')
  BY <1>1, <1>2, <1>5, <1>7, LinesAreFinite
<1>9. m_fp' \in FileName
  BY <1>1, <1>2, <1>8, FileIsNamed DEF TypeOK
<1>10. TypeOK'
  BY <1>1, <1>2, <1>3, <1>8, <1>9 DEF TypeOK, LoggerPc
<1>11. QED
  BY <1>2, <1>3, <1>4, <1>8, <1>10, KeepsPlaces DEF LogInv

\* LocalTime, CopyTime and TestFull
LEMMA QuietStep ==
  ASSUME LogInv, NEW t \in Thread, LocalTime(t) \/ CopyTime(t) \/ TestFull(t)
  PROVE  LogInv' /\ NothingLost
<1>1. /\ TypeOK /\ pc \in [Thread \cup {Writer} -> LoggerPc \cup WriterPc] /\ t # Writer
  BY LogAssumption DEF LogInv, TypeOK, LogAssumption
<1>2. PICK l \in LoggerPc \ {"out"} :
        /\ pc' = [pc EXCEPT ![t] = l] /\ pc[t] # "out"
        /\ pc[t] \in AfterCount <=> l \in AfterCount
        /\ l = "push" => m_is_async
  BY DEF LocalTime, CopyTime, TestFull, Goto, LoggerPc, AfterCount
<1>3. UNCHANGED <<m_is_async, today, m_today, m_count, m_fp, files, m_log_queue, single_log, lines>>
  BY DEF LocalTime, CopyTime, TestFull, Goto, logVars, queueVars
<1>4. sys_tm' \in Day /\ my_tm' \in [Thread -> Day]
  BY <1>1 DEF LocalTime, CopyTime, TestFull, TypeOK
<1>5. /\ \A u \in Thread : pc'[u] = IF u = t THEN l ELSE pc[u]
      /\ pc'[Writer] = pc[Writer]
  BY <1>1, <1>2
<1>6. TypeOK'
  BY <1>1, <1>2, <1>3, <1>4, <1>5 DEF TypeOK
<1>7. Logged' = Logged /\ Counted' = Counted
  BY <1>2, <1>3, GoesOn
<1>8. QED
  BY <1>2, <1>3, <1>5, <1>6, <1>7, KeepsPlaces DEF LogInv

LEMMA PushStep ==
  ASSUME LogInv, NEW t \in Thread, Push(t)
  PROVE  LogInv' /\ NothingLost
<1> DEFINE x == Current(t)
<1>1. /\ TypeOK /\ pc \in [Thread \cup {Writer} -> LoggerPc \cup WriterPc] /\ t # Writer
      /\ m_log_queue \in Seq(Line) /\ Distinct(m_log_queue)
  BY LogAssumption DEF LogInv, TypeOK, LogAssumption
<1>2. /\ pc[t] = "push" /\ pc' = [pc EXCEPT ![t] = "out"]
      /\ UNCHANGED <<m_is_async, today, sys_tm, m_today, m_count, m_fp, files, single_log,
                     lines, my_tm>>
      /\ \/ m_log_queue' = Append(m_log_queue, x) /\ ~(Len(m_log_queue) >= MaxQueue)
         \/ m_log_queue' = m_log_queue /\ Queue!Full
  BY DEF Push, PushLine, Queue!Put, Queue!Full, Goto, logVars, queueVars, Current
<1>3. /\ \A u \in Thread : pc'[u] = IF u = t THEN "out" ELSE pc[u]
      /\ pc'[Writer] = pc[Writer]
  BY <1>1, <1>2
<1>4. Logged' = Logged \cup {x} /\ Counted' = Counted
  BY <1>2, Returns
<1>5. x \in Line /\ x \notin Filed /\ x \notin Queued /\ x \notin Carried
  BY <1>2, CurrentIsNew
<1>6. /\ m_log_queue' \in Seq(Line) /\ Len(m_log_queue') <= MaxQueue
      /\ Distinct(m_log_queue')
      /\ Queued' = Queued \cup {x} \/ (Queued' = Queued /\ Queue!Full)
  <2>1. CASE m_log_queue' = m_log_queue /\ Queue!Full
    BY <1>1, <2>1 DEF TypeOK, Queued
  <2>2. CASE m_log_queue' = Append(m_log_queue, x) /\ ~(Len(m_log_queue) >= MaxQueue)
    <3>1. /\ Len(m_log_queue) \in Nat /\ MaxQueue \in Nat
          /\ Len(m_log_queue') = Len(m_log_queue) + 1
      BY <1>1, <1>5, <2>2, LenProperties, AppendProperties, LogAssumption DEF LogAssumption
    <3>2. /\ m_log_queue' \in Seq(Line) /\ Distinct(m_log_queue')
          /\ Elements(m_log_queue') = Elements(m_log_queue) \cup {x}
      BY <1>1, <1>5, <2>2, Appended DEF Queued
    <3>3. QED
      BY <2>2, <3>1, <3>2 DEF Queued
  <2>3. QED
    BY <1>2, <2>1, <2>2
<1>7. Filed' = Filed /\ Carried' = Carried /\ FilesOnce'
  BY <1>2, <1>3 DEF LogInv, Filed, Carried, FilesOnce
<1>8. TypeOK'
  BY <1>1, <1>2, <1>3, <1>6 DEF TypeOK, LoggerPc
<1>9. Apart'
  BY <1>4, <1>5, <1>6, <1>7 DEF LogInv, Apart
<1>10. m_is_async
  BY <1>2 DEF LogInv
<1>11. NothingLost
  BY <1>4, <1>6, <1>7, <1>10 DEF NothingLost, Kept
<1>12. LogInv'
  BY <1>2, <1>3, <1>4, <1>6, <1>7, <1>8, <1>9, <1>10 DEF LogInv
<1>13. QED
  BY <1>11, <1>12

LEMMA FputsStep ==
  ASSUME LogInv, NEW t \in Thread, Fputs(t)
  PROVE  LogInv' /\ NothingLost
<1> DEFINE x == Current(t)
<1>1. /\ TypeOK /\ pc \in [Thread \cup {Writer} -> LoggerPc \cup WriterPc] /\ t # Writer
  BY LogAssumption DEF LogInv, TypeOK, LogAssumption
<1>2. /\ pc[t] = "fputs" /\ pc' = [pc EXCEPT ![t] = "out"]
      /\ UNCHANGED <<m_is_async, today, sys_tm, m_today, m_count, m_fp, m_log_queue, single_log,
                     lines, my_tm>>
      /\ Puts(x)
  BY DEF Fputs, Goto, logVars, queueVars, Current
<1>3. /\ \A u \in Thread : pc'[u] = IF u = t THEN "out" ELSE pc[u]
      /\ pc'[Writer] = pc[Writer]
  BY <1>1, <1>2
<1>4. Logged' = Logged \cup {x} /\ Counted' = Counted
  BY <1>2, Returns
<1>5. x \in Line /\ x \notin Filed /\ x \notin Queued /\ x \notin Carried
  BY <1>2, CurrentIsNew
<1>6. files' \in [FileName -> Seq(Line)] /\ Filed' = Filed \cup {x} /\ FilesOnce'
  BY <1>2, <1>5, Written
<1>7. Queued' = Queued /\ Carried' = Carried
  BY <1>2, <1>3 DEF Queued, Carried
<1>8. TypeOK'
  BY <1>1, <1>2, <1>3, <1>6 DEF TypeOK, LoggerPc
<1>9. Apart'
  BY <1>4, <1>5, <1>6, <1>7 DEF LogInv, Apart
<1>10. NothingLost
  BY <1>4, <1>6, <1>7 DEF NothingLost, Kept
<1>11. LogInv'
  BY <1>2, <1>3, <1>4, <1>6, <1>7, <1>8, <1>9 DEF LogInv
<1>12. QED
  BY <1>10, <1>11

-----------------------------------------------------------------------------
(* The steps of the writer *)

LEMMA WriterKeepsLines ==
  ASSUME LogInv, NEW l \in WriterPc, pc' = [pc EXCEPT ![Writer] = l], lines' = lines
  PROVE  /\ pc' \in [Thread \cup {Writer} -> LoggerPc \cup WriterPc] /\ pc'[Writer] = l
         /\ \A u \in Thread : pc'[u] = pc[u]
         /\ Logged' = Logged /\ Counted' = Counted
<1>1. /\ pc \in [Thread \cup {Writer} -> LoggerPc \cup WriterPc] /\ Writer \notin Thread
  BY LogAssumption DEF LogInv, TypeOK, LogAssumption
<1>2. \A u \in Thread : pc'[u] = pc[u]
  BY <1>1
<1>3. Logged' = Logged /\ Counted' = Counted
  BY <1>2, LineInTwo DEF Logged, Counted
<1>4. QED
  BY <1>1, <1>2, <1>3

LEMMA WriterPopStep ==
  ASSUME LogInv, WriterPop
  PROVE  LogInv' /\ NothingLost
<1> DEFINE x == Head(m_log_queue)
<1>1. /\ TypeOK /\ m_log_queue \in Seq(Line) /\ Distinct(m_log_queue)
      /\ single_log \in [{Writer} -> Line \cup {None}]
      /\ Len(m_log_queue) <= MaxQueue /\ MaxQueue \in Nat
  BY LogAssumption DEF LogInv, TypeOK, LogAssumption
<1>2. /\ pc[Writer] = "pop" /\ pc' = [pc EXCEPT ![Writer] = "fputs"]
      /\ UNCHANGED <<m_is_async, today, sys_tm, m_today, m_count, m_fp, files, lines, my_tm>>
      /\ m_log_queue # <<>> /\ m_log_queue' = Tail(m_log_queue)
      /\ single_log' = [single_log EXCEPT ![Writer] = x]
  BY DEF WriterPop, Queue!Take, Goto, logVars
<1>3. /\ pc' \in [Thread \cup {Writer} -> LoggerPc \cup WriterPc] /\ pc'[Writer] = "fputs"
      /\ \A u \in Thread : pc'[u] = pc[u]
      /\ Logged' = Logged /\ Counted' = Counted
  BY <1>2, WriterKeepsLines DEF WriterPc
<1>4. /\ x \in Line /\ x \in Queued
      /\ m_log_queue' \in Seq(Line) /\ Len(m_log_queue') = Len(m_log_queue) - 1
      /\ Queued' = Queued \ {x} /\ Distinct(m_log_queue')
  BY <1>1, <1>2, HeadTaken DEF Queued
<1>5. Len(m_log_queue) \in Nat /\ Len(m_log_queue') <= MaxQueue
  BY <1>1, <1>4, LenProperties
<1>6. single_log' \in [{Writer} -> Line \cup {None}] /\ single_log'[Writer] = x
  BY <1>1, <1>2, <1>4
<1>7. Carried = {} /\ Carried' = {x} /\ Filed' = Filed /\ FilesOnce'
  BY <1>2, <1>3, <1>6 DEF LogInv, Carried, Filed, FilesOnce
<1>8. TypeOK'
  BY <1>1, <1>2, <1>3, <1>4, <1>5, <1>6 DEF TypeOK, WriterPc
<1>9. Apart'
  BY <1>3, <1>4, <1>7 DEF LogInv, Apart
<1>10. NothingLost
  BY <1>3, <1>4, <1>7 DEF NothingLost, Kept
<1>11. LogInv'
  BY <1>2, <1>3, <1>4, <1>6, <1>7, <1>8, <1>9 DEF LogInv
<1>12. QED
  BY <1>10, <1>11

LEMMA WriterFputsStep ==
  ASSUME LogInv, WriterFputs
  PROVE  LogInv' /\ NothingLost
<1> DEFINE x == single_log[Writer]
<1>1. TypeOK
  BY DEF LogInv
<1>2. /\ pc[Writer] = "fputs" /\ pc' = [pc EXCEPT ![Writer] = "pop"]
      /\ UNCHANGED <<m_is_async, today, sys_tm, m_today, m_count, m_fp, m_log_queue, single_log,
                     lines, my_tm>>
      /\ Puts(x)
  BY DEF WriterFputs, Goto, logVars, queueVars
<1>3. /\ pc' \in [Thread \cup {Writer} -> LoggerPc \cup WriterPc] /\ pc'[Writer] = "pop"
      /\ \A u \in Thread : pc'[u] = pc[u]
      /\ Logged' = Logged /\ Counted' = Counted
  BY <1>2, WriterKeepsLines DEF WriterPc
<1>4. x \in Line /\ Carried = {x} /\ x \notin Filed
  BY <1>2 DEF LogInv, Carried, Apart
<1>5. files' \in [FileName -> Seq(Line)] /\ Filed' = Filed \cup {x} /\ FilesOnce'
  BY <1>2, <1>4, Written
<1>6. Carried' = {} /\ Queued' = Queued
  BY <1>2, <1>3 DEF Carried, Queued
<1>7. TypeOK'
  BY <1>1, <1>2, <1>3, <1>5 DEF TypeOK, WriterPc
<1>8. Apart'
  BY <1>3, <1>4, <1>5, <1>6 DEF LogInv, Apart
<1>9. NothingLost
  BY <1>3, <1>4, <1>5, <1>6 DEF NothingLost, Kept
<1>10. LogInv'
  BY <1>2, <1>3, <1>5, <1>7, <1>8 DEF LogInv
<1>11. QED
  BY <1>9, <1>10

-----------------------------------------------------------------------------
(* The invariant *)

LEMMA LogInitially == Init => LogInv
<1> SUFFICES ASSUME Init
             PROVE  LogInv
  OBVIOUS
<1>1. /\ MaxLines \in Nat /\ MaxDay \in Nat /\ MaxQueue \in Nat /\ Writer \notin Thread
      /\ m_split_lines \in Nat \ {0}
  BY LogAssumption DEF LogAssumption
<1>2. 0 \in Day /\ 0 \in 0..(Cardinality(Thread) * MaxLines)
  BY <1>1, LinesAreFinite DEF Day
<1>3. 0 \div m_split_lines = 0
  BY <1>1
<1>4. <<0, 0>> \in FileName
  BY <1>2, <1>3, FileIsNamed
<1>5. /\ m_log_queue = <<>> /\ single_log = [c \in {Writer} |-> None]
      /\ files = [f \in FileName |-> <<>>]
      /\ pc[Writer] = "pop" /\ \A t \in Thread : pc[t] = "out" /\ lines[t] = 0
  BY <1>1 DEF Init, Queue!Init
<1>6. TypeOK
  BY <1>1, <1>2, <1>4, <1>5 DEF Init, TypeOK, LoggerPc, WriterPc
<1>7. Queued = {} /\ Filed = {} /\ Carried = {}
  BY <1>5 DEF Queued, Filed, Carried, Elements
<1>8. Distinct(m_log_queue) /\ FilesOnce
  BY <1>5 DEF Distinct, FilesOnce, Elements
<1>9. Logged = {}
  <2>1. \A n \in 1..MaxLines : ~(n < 0) /\ n # 0
    BY <1>1
  <2>2. QED
    BY <1>5, <2>1, LineInTwo DEF Logged
<1>10. m_count <= Cardinality(Counted)
  BY CountedIsBounded DEF Init
<1>11. QED
  BY <1>5, <1>6, <1>7, <1>8, <1>9, <1>10 DEF LogInv, Apart

LEMMA LogStep == LogInv /\ [Next]_vars => LogInv' /\ NothingLost
<1> SUFFICES ASSUME LogInv, [Next]_vars
             PROVE  LogInv' /\ NothingLost
  OBVIOUS
<1>1. ASSUME NEW t \in Thread, WriteLog(t)
      PROVE  LogInv' /\ NothingLost
  BY <1>1, CallStep, CountStep, QuietStep, PushStep, FputsStep DEF WriteLog
<1>2. CASE WriterPop \/ WriterFputs
  BY <1>2, WriterPopStep, WriterFputsStep
<1>3. CASE Midnight
  <2>1. today' \in Day
    BY <1>3, LogAssumption DEF Midnight, LogInv, TypeOK, Day, LogAssumption
  <2>2. UNCHANGED <<m_is_async, sys_tm, m_today, m_count, m_fp, files, m_log_queue, single_log,
                    pc, lines, my_tm>>
    BY <1>3 DEF Midnight, logVars, queueVars
  <2>3. TypeOK' /\ Logged' = Logged /\ Counted' = Counted
    BY <2>1, <2>2 DEF LogInv, TypeOK, Logged, Counted
  <2>4. QED
    BY <2>2, <2>3, KeepsPlaces DEF LogInv
<1>4. CASE UNCHANGED vars
  <2>1. TypeOK' /\ Logged' = Logged /\ Counted' = Counted
    BY <1>4 DEF vars, LogInv, TypeOK, Logged, Counted
  <2>2. QED
    BY <1>4, <2>1, KeepsPlaces DEF vars, LogInv
<1>5. QED
  BY <1>1, <1>2, <1>3, <1>4 DEF Next

LEMMA LogInvariant == Spec => []LogInv
<1>1. LogInv /\ [Next]_vars => LogInv'
  BY LogStep
<1>2. QED
  BY <1>1, LogInitially, PTL DEF Spec

-----------------------------------------------------------------------------
(* Theorems *)

\* Every variable of the log keeps its type; in particular m_count never names a file
\* beyond those that the lines logged can fill, and the queue stays within its size.
THEOREM LogTypeCorrect == Spec => []TypeOK
<1>1. LogInv => TypeOK
  BY DEF LogInv
<1>2. QED
  BY <1>1, LogInvariant, PTL

LEMMA AtMostOne ==
  ASSUME NEW S, \A x, y \in S : x = y
  PROVE  Cardinality(S) = IF S = {} THEN 0 ELSE 1
<1>1. CASE S = {}
  BY <1>1, FS_EmptySet
<1>2. CASE S # {}
  <2>1. PICK x \in S : S = {x}
    BY <1>2
  <2>2. QED
    BY <1>2, <2>1, FS_Singleton
<1>3. QED
  BY <1>1, <1>2

\* write_log() gives a line to the queue or to the file and not to both, and the writing
\* thread writes what it has taken once: no line is written twice.
THEOREM EachLineOnce == Spec => []NoLineTwice
<1>1. ASSUME LogInv
      PROVE  NoLineTwice
  <2> SUFFICES ASSUME NEW line \in Line
               PROVE  Cardinality(Copies(line)) + Cardinality(InQueue(line))
                      + (IF AtWriter(line) THEN 1 ELSE 0) <= IF line \in Logged THEN 1 ELSE 0
    BY DEF NoLineTwice
  <2>1. /\ FilesOnce /\ Distinct(m_log_queue) /\ Apart
    BY <1>1 DEF LogInv
  <2>2. Cardinality(Copies(line)) = IF Copies(line) = {} THEN 0 ELSE 1
    <3>1. \A f, g \in FileName : \A i \in DOMAIN files[f], j \in DOMAIN files[g] :
            files[f][i] = files[g][j] => f = g /\ i = j
      BY <2>1 DEF FilesOnce, Distinct, Elements
    <3>2. \A x, y \in Copies(line) : x = y
      <4> TAKE x, y \in Copies(line)
      <4>1. /\ x[1] \in FileName /\ y[1] \in FileName
            /\ x = <<x[1], x[2]>> /\ y = <<y[1], y[2]>>
            /\ x[2] \in DOMAIN files[x[1]] /\ y[2] \in DOMAIN files[y[1]]
            /\ files[x[1]][x[2]] = files[y[1]][y[2]]
        BY DEF Copies
      <4>2. QED
        BY <3>1, <4>1
    <3>3. QED
      BY <3>2, AtMostOne
  <2>3. Cardinality(InQueue(line)) = IF InQueue(line) = {} THEN 0 ELSE 1
    BY <2>1, AtMostOne DEF InQueue, Distinct
  <2>4. Copies(line) # {} => line \in Filed
    BY DEF Copies, Filed, Elements
  <2>5. InQueue(line) # {} => line \in Queued
    BY DEF InQueue, Queued, Elements
  <2>6. AtWriter(line) => line \in Carried
    BY DEF AtWriter, Carried
  <2>7. QED
    BY <2>1, <2>2, <2>3, <2>4, <2>5, <2>6 DEF Apart
<1>2. LogInv => NoLineTwice
  BY <1>1
<1>3. QED
  BY <1>2, LogInvariant, PTL

\* No change of the file and no step of the writer drops a line, and write_log() drops
\* one only if the queue is full when it pushes it; synchronously it drops none.
THEOREM LinesAreKept == Spec => NoLineLost
<1>1. LogInv /\ [Next]_vars => [NothingLost]_vars
  BY LogStep
<1>2. QED
  BY <1>1, LogInvariant, PTL DEF Spec, NoLineLost

-----------------------------------------------------------------------------
(* The lines of a file before the first midnight *)

Pending == {t \in Thread : pc[t] \in {"full", "push", "fputs"}}

\* The lines on their way from the count to the file
OnTheirWay ==
  Cardinality(Pending) + Len(m_log_queue) + IF pc[Writer] = "fputs" THEN 1 ELSE 0

\* The lines other than the one that opens a file which may be on their way then
Late == Cardinality(Thread) - 1 + IF m_is_async THEN MaxQueue + 1 ELSE 0

FirstDay ==
  /\ sys_tm = 0 /\ m_today = 0 /\ \A t \in Thread : my_tm[t] = 0
  /\ m_fp = <<0, m_count \div m_split_lines>>
  /\ \A f \in FileName : f[1] = 0 /\ f[2] > m_fp[2] => files[f] = <<>>
  /\ \A f \in FileName : Len(files[f]) <= m_split_lines + Late
  /\ Len(files[m_fp]) + OnTheirWay <= (m_count % m_split_lines) + 1 + Late

SplitInv ==
  /\ LogInv
  /\ ~m_is_async => m_log_queue = <<>> /\ pc[Writer] = "pop"
  /\ today = 0 => FirstDay

LEMMA DivMod ==
  ASSUME NEW s \in Nat \ {0}, NEW m \in Nat
  PROVE  m \div s \in Nat /\ m % s \in 0..(s - 1) /\ m = s * (m \div s) + (m % s)
  BY Z3

\* Counting one more changes the suffix of the file exactly when a split is due.
LEMMA NextSuffix ==
  ASSUME NEW s \in Nat \ {0}, NEW m \in Nat
  PROVE  /\ (m + 1) % s # 0 => (m + 1) \div s = m \div s /\ (m + 1) % s = (m % s) + 1
         /\ (m + 1) % s = 0 => (m + 1) \div s = (m \div s) + 1
<1> DEFINE q == m \div s
           r == m % s
           q1 == (m + 1) \div s
           r1 == (m + 1) % s
<1>1. q \in Nat /\ r \in 0..(s - 1) /\ m = s * q + r
  BY DivMod
<1>2. q1 \in Nat /\ r1 \in 0..(s - 1) /\ m + 1 = s * q1 + r1
  <2>1. m + 1 \in Nat
    OBVIOUS
  <2>2. QED
    BY <2>1, DivMod
<1> HIDE DEF q, r, q1, r1
<1>3. s * (q1 - q) = r + 1 - r1
  BY <1>1, <1>2
<1>4. q1 - q \in {0, 1}
  <2>1. CASE q1 - q <= -1
    <3>1. s * (q1 - q) <= -s
      BY <1>1, <1>2, <2>1, Z3
    <3>2. QED
      BY <3>1, <1>1, <1>2, <1>3
  <2>2. CASE q1 - q >= 2
    <3>1. s * (q1 - q) >= s + s
      BY <1>1, <1>2, <2>2, Z3
    <3>2. QED
      BY <3>1, <1>1, <1>2, <1>3
  <2>3. QED
    BY <2>1, <2>2, <1>1, <1>2
<1>5. CASE q1 = q
  BY <1>1, <1>2, <1>3, <1>5 DEF q, r, q1, r1
<1>6. CASE q1 = q + 1
  <2>1. s * (q1 - q) = s
    BY <1>1, <1>6
  <2>2. QED
    BY <2>1, <1>1, <1>2, <1>3, <1>6 DEF q, r, q1, r1
<1>7. QED
  BY <1>4, <1>5, <1>6, <1>1, <1>2

LEMMA PendingIsFinite ==
  /\ IsFiniteSet(Pending) /\ Cardinality(Pending) \in Nat
  /\ Cardinality(Pending) <= Cardinality(Thread)
<1>1. Pending \in SUBSET Thread
  BY DEF Pending
<1>2. QED
  BY <1>1, LogAssumption, FS_Subset, FS_CardinalityType DEF LogAssumption

\* What a step of thread t does to the number of threads between the count and the file
LEMMA PendingMoves ==
  ASSUME TypeOK, NEW t \in Thread, NEW l \in LoggerPc, pc' = [pc EXCEPT ![t] = l]
  PROVE  /\ pc'[Writer] = pc[Writer]
         /\ Cardinality(Pending') \in Nat
         /\ (t \in Pending <=> l \in {"full", "push", "fputs"})
              => Cardinality(Pending') = Cardinality(Pending)
         /\ t \notin Pending => Cardinality(Pending') <= Cardinality(Pending) + 1
         /\ t \in Pending /\ l = "out" => Cardinality(Pending') = Cardinality(Pending) - 1
<1>1. pc \in [Thread \cup {Writer} -> LoggerPc \cup WriterPc] /\ t # Writer
  BY LogAssumption DEF TypeOK, LogAssumption
<1>2. /\ \A u \in Thread : pc'[u] = IF u = t THEN l ELSE pc[u]
      /\ pc'[Writer] = pc[Writer]
  BY <1>1
<1>3. Pending' = IF l \in {"full", "push", "fputs"} THEN Pending \cup {t} ELSE Pending \ {t}
  BY <1>2 DEF Pending
<1>4. /\ IsFiniteSet(Pending) /\ Cardinality(Pending) \in Nat
  BY PendingIsFinite
<1>5. t \notin Pending => Cardinality(Pending \cup {t}) = Cardinality(Pending) + 1
  BY <1>4, FS_AddElement
<1>6. t \in Pending => Cardinality(Pending \ {t}) = Cardinality(Pending) - 1
  BY <1>4, FS_RemoveElement
<1>7. t \in Pending => Pending \cup {t} = Pending
  OBVIOUS
<1>8. t \notin Pending => Pending \ {t} = Pending
  OBVIOUS
<1>9. t \in Pending => Cardinality(Pending) - 1 \in Nat
  <2>1. t \in Pending => Cardinality(Pending) # 0
    BY <1>4, FS_EmptySet
  <2>2. QED
    BY <1>4, <2>1
<1>10. t \in Pending => Cardinality(Pending \ {t}) \in Nat
  BY <1>6, <1>9
<1>11. t \notin Pending => Cardinality(Pending \cup {t}) \in Nat
  BY <1>4, <1>5
<1>12. CASE l \in {"full", "push", "fputs"}
  <2>1. Pending' = Pending \cup {t} /\ l # "out"
    BY <1>3, <1>12
  <2>2. /\ t \in Pending => Cardinality(Pending') = Cardinality(Pending)
        /\ t \notin Pending => Cardinality(Pending') = Cardinality(Pending) + 1
    BY <1>5, <1>7, <2>1
  <2>3. QED
    BY <1>2, <1>4, <1>12, <2>1, <2>2
<1>13. CASE l \notin {"full", "push", "fputs"}
  <2>1. Pending' = Pending \ {t}
    BY <1>3, <1>13
  <2>2. /\ t \in Pending => Cardinality(Pending') = Cardinality(Pending) - 1
        /\ t \notin Pending => Cardinality(Pending') = Cardinality(Pending)
        /\ Cardinality(Pending') \in Nat
    BY <1>4, <1>6, <1>8, <1>10, <2>1
  <2>3. QED
    BY <1>2, <1>4, <1>13, <2>1, <2>2
<1>14. QED
  BY <1>12, <1>13

LEMMA SplitTypes ==
  ASSUME SplitInv
  PROVE  /\ m_split_lines \in Nat \ {0} /\ m_count \in Nat
         /\ Late \in Int /\ Len(m_log_queue) \in Nat /\ Cardinality(Pending) \in Nat
         /\ Len(m_log_queue) <= MaxQueue
         /\ ~m_is_async => Len(m_log_queue) = 0 /\ pc[Writer] # "fputs"
         /\ OnTheirWay \in Nat
         /\ \A f \in FileName : files[f] \in Seq(Line) /\ Len(files[f]) \in Nat
         /\ m_fp \in FileName
<1>1. TypeOK /\ m_log_queue \in Seq(Line) /\ Len(m_log_queue) <= MaxQueue
  BY DEF SplitInv, LogInv, TypeOK
<1>2. /\ m_split_lines \in Nat \ {0} /\ MaxQueue \in Nat
      /\ Cardinality(Thread) \in Nat /\ m_count \in Nat
  BY <1>1, LogAssumption, LinesAreFinite DEF LogAssumption, TypeOK
<1>3. Cardinality(Pending) \in Nat /\ Cardinality(Pending) <= Cardinality(Thread)
  BY PendingIsFinite
<1>4. Len(m_log_queue) \in Nat /\ (m_log_queue = <<>> => Len(m_log_queue) = 0)
  BY <1>1, LenProperties, EmptySeq
<1>5. Late \in Int
  BY <1>2 DEF Late
<1>6. OnTheirWay \in Nat
  BY <1>3, <1>4 DEF OnTheirWay
<1>7. ~m_is_async => Len(m_log_queue) = 0 /\ pc[Writer] # "fputs"
  BY <1>4 DEF SplitInv
<1>8. m_fp \in FileName /\ \A f \in FileName : files[f] \in Seq(Line) /\ Len(files[f]) \in Nat
  BY <1>1, LenProperties DEF TypeOK
<1>9. QED
  BY <1>1, <1>2, <1>3, <1>4, <1>5, <1>6, <1>7, <1>8

\* Steps that neither count a line nor write one
LEMMA KeepsFirstDay ==
  ASSUME SplitInv, FirstDay, UNCHANGED <<m_is_async, m_today, m_count, m_fp, files>>,
         sys_tm' = 0, \A t \in Thread : my_tm'[t] = 0,
         OnTheirWay' \in Int, OnTheirWay' <= OnTheirWay
  PROVE  FirstDay'
<1>1. /\ Len(files[m_fp]) \in Nat /\ OnTheirWay \in Nat /\ Late \in Int
      /\ m_split_lines \in Nat \ {0} /\ m_count \in Nat
  BY SplitTypes
<1>2. Late' = Late
  BY DEF Late
<1>3. Len(files[m_fp]) + OnTheirWay <= (m_count % m_split_lines) + 1 + Late
  BY DEF FirstDay
<1>4. m_count % m_split_lines \in Nat
  BY <1>1, DivMod
<1>5. Len(files[m_fp]) + OnTheirWay' <= (m_count % m_split_lines) + 1 + Late
  BY <1>1, <1>3, <1>4
<1>6. QED
  BY <1>2, <1>5 DEF FirstDay

\* A line that was on its way is written.
LEMMA PutsOnFirstDay ==
  ASSUME SplitInv, FirstDay, NEW x \in Line, Puts(x),
         OnTheirWay' \in Nat, OnTheirWay' = OnTheirWay - 1,
         UNCHANGED <<m_is_async, sys_tm, m_today, m_count, m_fp, my_tm>>
  PROVE  FirstDay'
<1> DEFINE n == Len(files[m_fp])
           r == m_count % m_split_lines
<1>1. /\ n \in Nat /\ OnTheirWay \in Nat /\ Late \in Int
      /\ m_split_lines \in Nat \ {0} /\ m_count \in Nat
      /\ m_fp \in FileName /\ files[m_fp] \in Seq(Line)
  BY SplitTypes
<1>2. r \in 0..(m_split_lines - 1)
  BY <1>1, DivMod
<1>3. Late' = Late
  BY DEF Late
<1>4. /\ files \in [FileName -> Seq(Line)]
      /\ files' = [files EXCEPT ![m_fp] = Append(files[m_fp], x)]
  BY DEF SplitInv, LogInv, TypeOK, Puts
<1>5. /\ \A f \in FileName : f # m_fp => files'[f] = files[f]
      /\ files'[m_fp] = Append(files[m_fp], x)
  BY <1>1, <1>4
<1>6. Len(files'[m_fp]) = n + 1
  BY <1>1, <1>5, AppendProperties
<1>7. n + OnTheirWay <= r + 1 + Late
  BY DEF FirstDay
<1> HIDE DEF n, r
<1>8. /\ Len(files'[m_fp]) + OnTheirWay' <= r + 1 + Late
  BY <1>1, <1>2, <1>6, <1>7
<1>10. Len(files'[m_fp]) <= m_split_lines + Late
  BY <1>1, <1>2, <1>6, <1>8
<1>11. \A f \in FileName : Len(files'[f]) <= m_split_lines + Late
  BY <1>5, <1>10 DEF FirstDay
<1>12. m_fp[2] \in Int /\ \A f \in FileName : f[2] > m_fp[2] => f # m_fp
  <2>1. m_fp[2] \in Int
    BY <1>1, DivMod DEF FirstDay
  <2>2. QED
    BY <2>1
<1>13. \A f \in FileName : f[1] = 0 /\ f[2] > m_fp[2] => files'[f] = <<>>
  BY <1>5, <1>12 DEF FirstDay
<1>14. QED
  BY <1>3, <1>8, <1>11, <1>13 DEF FirstDay, r

LEMMA CountOnFirstDay ==
  ASSUME SplitInv, FirstDay, NEW t \in Thread, CountLine(t), LogInv'
  PROVE  FirstDay'
<1>1. /\ m_split_lines \in Nat \ {0} /\ m_count \in Nat
      /\ Late \in Int /\ Len(m_log_queue) \in Nat /\ Cardinality(Pending) \in Nat
      /\ OnTheirWay \in Nat /\ Len(m_log_queue) <= MaxQueue
      /\ ~m_is_async => Len(m_log_queue) = 0 /\ pc[Writer] # "fputs"
      /\ \A f \in FileName : files[f] \in Seq(Line) /\ Len(files[f]) \in Nat
      /\ m_fp \in FileName /\ TypeOK
  BY SplitTypes DEF SplitInv, LogInv
<1>2. /\ pc[t] = "count" /\ pc' = [pc EXCEPT ![t] = "full"]
      /\ my_tm[t] = 0 /\ m_today = 0 /\ m_today' = 0
      /\ m_count' = m_count + 1
      /\ SplitDue => m_fp' = <<0, m_count' \div m_split_lines>>
      /\ ~SplitDue => m_fp' = m_fp
      /\ UNCHANGED <<m_is_async, sys_tm, files, m_log_queue, my_tm>>
  BY DEF FirstDay, CountLine, NewDay, Suffix, Opened, Goto, queueVars
<1>3. /\ pc'[Writer] = pc[Writer] /\ Cardinality(Pending') \in Nat
      /\ Cardinality(Pending') <= Cardinality(Pending) + 1
  <2>1. t \notin Pending
    BY <1>2 DEF Pending
  <2>2. QED
    BY <1>1, <1>2, <2>1, PendingMoves DEF LoggerPc
<1>4. OnTheirWay' \in Nat /\ OnTheirWay' <= OnTheirWay + 1
  BY <1>1, <1>2, <1>3 DEF OnTheirWay
<1>5. Late' = Late
  BY <1>2 DEF Late
<1>6. m_fp' \in FileName
  BY DEF LogInv, TypeOK
<1>7. m_count % m_split_lines \in Nat /\ m_count' % m_split_lines \in Nat
      /\ m_count \div m_split_lines \in Nat
  <2>1. m_count + 1 \in Nat
    BY <1>1
  <2>2. /\ m_count % m_split_lines \in 0..(m_split_lines - 1)
        /\ m_count \div m_split_lines \in Nat
        /\ (m_count + 1) % m_split_lines \in 0..(m_split_lines - 1)
    BY <1>1, <2>1, DivMod
  <2>3. QED
    BY <1>1, <1>2, <2>2
<1>8. CASE SplitDue
  <2>0. /\ (m_count + 1) % m_split_lines = 0
        /\ (m_count + 1) \div m_split_lines = (m_count \div m_split_lines) + 1
    BY <1>1, <1>8, NextSuffix DEF SplitDue
  <2>1. /\ m_fp'[1] = 0 /\ m_fp'[2] = (m_count \div m_split_lines) + 1
        /\ m_fp[2] = m_count \div m_split_lines
        /\ m_count' % m_split_lines = 0
    BY <1>2, <1>8, <2>0 DEF FirstDay
  <2>2. m_fp'[2] > m_fp[2]
    BY <1>7, <2>1
  <2>3. files[m_fp'] = <<>>
    BY <1>6, <2>1, <2>2 DEF FirstDay
  <2>4. Len(files'[m_fp']) = 0
    BY <1>2, <2>3
  <2>5. Len(files'[m_fp']) + OnTheirWay' <= (m_count' % m_split_lines) + 1 + Late
    <3>1. Cardinality(Pending') <= Cardinality(Thread)
      <4>1. Pending' \in SUBSET Thread
        BY DEF Pending
      <4>2. QED
        BY <4>1, LogAssumption, FS_Subset DEF LogAssumption
    <3>2. Cardinality(Thread) \in Nat /\ MaxQueue \in Nat
      BY LogAssumption, LinesAreFinite DEF LogAssumption
    <3>3. OnTheirWay' <= 1 + Late
      <4>1. OnTheirWay' = Cardinality(Pending') + Len(m_log_queue)
                           + IF pc[Writer] = "fputs" THEN 1 ELSE 0
        BY <1>2, <1>3 DEF OnTheirWay
      <4>2. CASE m_is_async
        <5>1. 1 + Late = Cardinality(Thread) + MaxQueue + 1
          BY <3>2, <4>2 DEF Late
        <5>2. QED
          BY <1>1, <1>3, <3>1, <3>2, <4>1, <5>1
      <4>3. CASE ~m_is_async
        <5>1. 1 + Late = Cardinality(Thread)
          BY <3>2, <4>3 DEF Late
        <5>2. QED
          BY <1>1, <1>3, <3>1, <3>2, <4>1, <4>3, <5>1
      <4>4. QED
        BY <4>2, <4>3
    <3>4. QED
      BY <1>1, <1>4, <2>1, <2>4, <3>3
  <2>6. \A f \in FileName : f[1] = 0 /\ f[2] > m_fp'[2] => files'[f] = <<>>
    <3>1. \A f \in FileName : f[2] \in Int
      BY <1>1, DivMod, LinesAreFinite DEF FileName
    <3>2. \A f \in FileName : f[2] > m_fp'[2] => f[2] > m_fp[2]
      BY <1>7, <2>1, <3>1
    <3>3. QED
      BY <1>2, <3>2 DEF FirstDay
  <2>7. QED
    BY <1>2, <1>5, <1>8, <2>5, <2>6 DEF FirstDay
<1>9. CASE ~SplitDue
  <2>1. /\ m_count' \div m_split_lines = m_count \div m_split_lines
        /\ m_count' % m_split_lines = (m_count % m_split_lines) + 1
    BY <1>1, <1>2, <1>9, NextSuffix DEF SplitDue
  <2>2. Len(files[m_fp]) + OnTheirWay <= (m_count % m_split_lines) + 1 + Late
    BY DEF FirstDay
  <2>3. Len(files[m_fp]) + OnTheirWay' <= ((m_count % m_split_lines) + 1) + 1 + Late
    BY <1>1, <1>4, <1>7, <2>2
  <2>4. QED
    BY <1>2, <1>5, <1>9, <2>1, <2>3 DEF FirstDay
<1>10. QED
  BY <1>8, <1>9

\* The steps of a thread
LEMMA ThreadOnFirstDay ==
  ASSUME SplitInv, FirstDay, today = 0, NEW t \in Thread, WriteLog(t), LogInv'
  PROVE  FirstDay'
<1>1. /\ Len(m_log_queue) \in Nat /\ Cardinality(Pending) \in Nat /\ TypeOK
      /\ my_tm \in [Thread -> Day] /\ \A u \in Thread : my_tm[u] = 0
      /\ sys_tm = 0 /\ OnTheirWay \in Nat
  BY SplitTypes DEF SplitInv, LogInv, TypeOK, FirstDay
<1>2. CASE Call(t) \/ LocalTime(t) \/ CopyTime(t) \/ TestFull(t)
  <2>1. PICK l \in LoggerPc :
          /\ pc' = [pc EXCEPT ![t] = l]
          /\ t \in Pending <=> l \in {"full", "push", "fputs"}
    BY <1>2 DEF Call, LocalTime, CopyTime, TestFull, Goto, LoggerPc, Pending
  <2>2. UNCHANGED <<m_is_async, m_today, m_count, m_fp, files, m_log_queue>>
    BY <1>2 DEF Call, LocalTime, CopyTime, TestFull, Goto, logVars, queueVars
  <2>3. sys_tm' = 0 /\ \A u \in Thread : my_tm'[u] = 0
    BY <1>1, <1>2 DEF Call, LocalTime, CopyTime, TestFull
  <2>4. pc'[Writer] = pc[Writer] /\ Cardinality(Pending') = Cardinality(Pending)
    BY <1>1, <2>1, PendingMoves
  <2>5. OnTheirWay' = OnTheirWay
    BY <2>2, <2>4 DEF OnTheirWay
  <2>6. OnTheirWay' \in Int /\ OnTheirWay' <= OnTheirWay
    BY <1>1, <2>5
  <2>7. QED
    BY <2>2, <2>3, <2>6, KeepsFirstDay
<1>3. CASE CountLine(t)
  BY <1>3, CountOnFirstDay
<1>4. ASSUME pc[t] \in {"push", "fputs"}, pc' = [pc EXCEPT ![t] = "out"]
      PROVE  /\ pc'[Writer] = pc[Writer] /\ Cardinality(Pending') \in Nat
             /\ Cardinality(Pending') = Cardinality(Pending) - 1
  <2>1. t \in Pending
    BY <1>4 DEF Pending
  <2>2. QED
    BY <1>1, <1>4, <2>1, PendingMoves DEF LoggerPc
<1>5. CASE Push(t)
  <2>1. /\ pc[t] = "push" /\ pc' = [pc EXCEPT ![t] = "out"]
        /\ UNCHANGED <<m_is_async, sys_tm, m_today, m_count, m_fp, files, my_tm>>
        /\ \/ m_log_queue' = Append(m_log_queue, Current(t))
           \/ m_log_queue' = m_log_queue
    BY <1>5 DEF Push, PushLine, Queue!Put, Goto, logVars, queueVars, Current
  <2>2. Current(t) \in Line /\ m_log_queue \in Seq(Line)
    BY <2>1, CurrentIsNew DEF SplitInv, LogInv, TypeOK
  <2>3. Len(m_log_queue') \in {Len(m_log_queue), Len(m_log_queue) + 1}
    BY <2>1, <2>2, AppendProperties
  <2>4. OnTheirWay' \in Int /\ OnTheirWay' <= OnTheirWay
    BY <1>1, <1>4, <2>1, <2>3 DEF OnTheirWay
  <2>5. QED
    BY <1>1, <2>1, <2>4, KeepsFirstDay
<1>6. CASE Fputs(t)
  <2>1. /\ pc[t] = "fputs" /\ pc' = [pc EXCEPT ![t] = "out"] /\ Puts(Current(t))
        /\ UNCHANGED <<m_is_async, sys_tm, m_today, m_count, m_fp, m_log_queue, my_tm>>
    BY <1>6 DEF Fputs, Goto, logVars, queueVars, Current
  <2>2. Current(t) \in Line
    BY <2>1, CurrentIsNew DEF SplitInv
  <2>3. OnTheirWay' \in Nat /\ OnTheirWay' = OnTheirWay - 1
    BY <1>1, <1>4, <2>1 DEF OnTheirWay
  <2>4. QED
    BY <2>1, <2>2, <2>3, PutsOnFirstDay
<1>7. QED
  BY <1>2, <1>3, <1>5, <1>6 DEF WriteLog

LEMMA WriterOnFirstDay ==
  ASSUME SplitInv, FirstDay, WriterPop \/ WriterFputs
  PROVE  FirstDay'
<1>1. /\ Len(m_log_queue) \in Nat /\ Cardinality(Pending) \in Nat /\ OnTheirWay \in Nat
      /\ sys_tm = 0 /\ \A u \in Thread : my_tm[u] = 0
  BY SplitTypes DEF FirstDay
<1>2. ASSUME NEW l \in WriterPc, pc' = [pc EXCEPT ![Writer] = l], lines' = lines
      PROVE  pc'[Writer] = l /\ Cardinality(Pending') = Cardinality(Pending)
  <2>1. pc'[Writer] = l /\ \A u \in Thread : pc'[u] = pc[u]
    BY <1>2, WriterKeepsLines DEF SplitInv
  <2>2. Pending' = Pending
    BY <2>1 DEF Pending
  <2>3. QED
    BY <2>1, <2>2
<1>3. CASE WriterPop
  <2>1. /\ pc[Writer] = "pop" /\ pc' = [pc EXCEPT ![Writer] = "fputs"]
        /\ UNCHANGED <<m_is_async, sys_tm, m_today, m_count, m_fp, files, lines, my_tm>>
        /\ m_log_queue # <<>> /\ m_log_queue' = Tail(m_log_queue)
    BY <1>3 DEF WriterPop, Queue!Take, Goto, logVars
  <2>2. Len(m_log_queue') = Len(m_log_queue) - 1
    BY <2>1, HeadTaken DEF SplitInv, LogInv, TypeOK
  <2>3. pc'[Writer] = "fputs" /\ Cardinality(Pending') = Cardinality(Pending)
    BY <1>2, <2>1 DEF WriterPc
  <2>4. OnTheirWay' = OnTheirWay
    BY <1>1, <2>1, <2>2, <2>3 DEF OnTheirWay
  <2>5. OnTheirWay' \in Int /\ OnTheirWay' <= OnTheirWay
    BY <1>1, <2>4
  <2>6. QED
    BY <1>1, <2>1, <2>5, KeepsFirstDay
<1>4. CASE WriterFputs
  <2>1. /\ pc[Writer] = "fputs" /\ pc' = [pc EXCEPT ![Writer] = "pop"]
        /\ Puts(single_log[Writer])
        /\ UNCHANGED <<m_is_async, sys_tm, m_today, m_count, m_fp, m_log_queue, lines, my_tm>>
    BY <1>4 DEF WriterFputs, Goto, logVars, queueVars
  <2>2. single_log[Writer] \in Line
    BY <2>1 DEF SplitInv, LogInv
  <2>3. pc'[Writer] = "pop" /\ Cardinality(Pending') = Cardinality(Pending)
    BY <1>2, <2>1 DEF WriterPc
  <2>4. OnTheirWay' \in Nat /\ OnTheirWay' = OnTheirWay - 1
    BY <1>1, <2>1, <2>3 DEF OnTheirWay
  <2>5. QED
    BY <2>1, <2>2, <2>4, PutsOnFirstDay
<1>5. QED
  BY <1>3, <1>4

LEMMA SplitInitially == Init => SplitInv
<1> SUFFICES ASSUME Init
             PROVE  SplitInv
  OBVIOUS
<1>1. /\ LogInv /\ m_split_lines \in Nat \ {0} /\ MaxQueue \in Nat /\ Writer \notin Thread
      /\ Cardinality(Thread) \in Nat
  BY LogInitially, LogAssumption, LinesAreFinite DEF LogAssumption
<1>2. /\ m_log_queue = <<>> /\ pc[Writer] = "pop" /\ m_count = 0 /\ m_fp = <<0, 0>>
      /\ sys_tm = 0 /\ m_today = 0 /\ today = 0
      /\ \A t \in Thread : pc[t] = "out" /\ my_tm[t] = 0
      /\ \A f \in FileName : files[f] = <<>>
  BY <1>1 DEF Init, Queue!Init
<1>3. Pending = {}
  BY <1>2 DEF Pending
<1>4. OnTheirWay = 0
  BY <1>2, <1>3, FS_EmptySet DEF OnTheirWay
<1>5. 0 \div m_split_lines = 0 /\ 0 % m_split_lines = 0
  BY <1>1
<1>6. Late \in Int /\ Late >= -1
  BY <1>1 DEF Late
<1>7. m_fp \in FileName
  BY <1>1 DEF LogInv, TypeOK
<1>8. \A f \in FileName : Len(files[f]) = 0
  BY <1>2
<1>9. /\ \A f \in FileName : Len(files[f]) <= m_split_lines + Late
      /\ Len(files[m_fp]) + OnTheirWay <= 0 + 1 + Late
  BY <1>1, <1>4, <1>6, <1>7, <1>8
<1>10. FirstDay
  BY <1>2, <1>5, <1>9 DEF FirstDay
<1>11. QED
  BY <1>1, <1>2, <1>10 DEF SplitInv

LEMMA SplitStep == SplitInv /\ [Next]_vars => SplitInv'
<1> SUFFICES ASSUME SplitInv, [Next]_vars
             PROVE  SplitInv'
  OBVIOUS
<1>1. LogInv' /\ LogInv
  BY LogStep DEF SplitInv
<1>2. ~m_is_async' => m_log_queue' = <<>> /\ pc'[Writer] = "pop"
  <2>1. ASSUME NEW t \in Thread, WriteLog(t)
        PROVE  m_is_async' = m_is_async /\ pc'[Writer] = pc[Writer]
    <3>1. t # Writer /\ pc \in [Thread \cup {Writer} -> LoggerPc \cup WriterPc]
      BY <1>1, LogAssumption DEF LogAssumption, LogInv, TypeOK
    <3>2. QED
      BY <2>1, <3>1 DEF WriteLog, Call, LocalTime, CopyTime, CountLine, TestFull, Push, Fputs, Goto
  <2>2. ASSUME NEW t \in Thread, WriteLog(t), ~m_is_async
        PROVE  m_log_queue' = m_log_queue
    <3>1. pc[t] # "push"
      BY <1>1, <2>2 DEF LogInv
    <3>2. QED
      BY <2>2, <3>1 DEF WriteLog, Call, LocalTime, CopyTime, CountLine, TestFull, Push, Fputs,
                        queueVars
  <2>3. CASE \E t \in Thread : WriteLog(t)
    BY <2>1, <2>2, <2>3 DEF SplitInv
  <2>4. CASE WriterPop
    <3>1. m_log_queue # <<>> /\ m_is_async' = m_is_async
      BY <2>4 DEF WriterPop, Queue!Take, Goto
    <3>2. QED
      BY <3>1 DEF SplitInv
  <2>5. CASE WriterFputs
    BY <2>5 DEF WriterFputs, Goto, SplitInv
  <2>6. CASE Midnight \/ UNCHANGED vars
    BY <2>6 DEF Midnight, vars, queueVars, SplitInv
  <2>7. QED
    BY <2>3, <2>4, <2>5, <2>6 DEF Next
<1>3. today' = 0 => FirstDay'
  <2>1. today \in Nat /\ (today' = 0 => today = 0)
    <3>1. today \in Nat
      BY <1>1, LogAssumption DEF LogInv, TypeOK, Day, LogAssumption
    <3>2. today' \in {today, today + 1}
      BY DEF Next, WriteLog, Call, LocalTime, CopyTime, CountLine, TestFull, Push, Fputs,
             WriterPop, WriterFputs, Midnight, vars
    <3>3. QED
      BY <3>1, <3>2
  <2> SUFFICES ASSUME today' = 0
               PROVE  FirstDay'
    OBVIOUS
  <2>2. today = 0 /\ FirstDay
    BY <2>1 DEF SplitInv
  <2>3. CASE \E t \in Thread : WriteLog(t)
    BY <1>1, <2>2, <2>3, ThreadOnFirstDay
  <2>4. CASE WriterPop \/ WriterFputs
    BY <2>2, <2>4, WriterOnFirstDay
  <2>5. CASE Midnight
    BY <2>1, <2>2, <2>5 DEF Midnight
  <2>6. CASE UNCHANGED vars
    BY <2>2, <2>6 DEF vars, FirstDay, OnTheirWay, Pending, Late
  <2>7. QED
    BY <2>3, <2>4, <2>5, <2>6 DEF Next
<1>4. QED
  BY <1>1, <1>2, <1>3 DEF SplitInv

\* Lines counted before their file was opened go to it late, when the threads and the
\* queue come to them; before the first midnight no file ends up with more of them than
\* there are threads, places in the queue and lines at the writer.
THEOREM FilesStayNearSplit == Spec => []FilesNearSplit
<1>1. Cardinality(Thread) \in Nat /\ MaxQueue \in Nat /\ m_split_lines \in Nat
  BY LogAssumption, LinesAreFinite DEF LogAssumption
<1>2. SplitInv => FilesNearSplit
  BY <1>1 DEF SplitInv, FirstDay, FilesNearSplit, Late
<1>3. QED
  BY <1>2, SplitInitially, SplitStep, PTL DEF Spec
=============================================================================
