--------------------------- MODULE HttpConnProofs ---------------------------
(***************************************************************************)
(* Theorems about HttpConn for any requests, files and sizes of the        *)
(* buffer; those about the response suppose that writev() does not split   *)
(* the header (WholeHeader).                                               *)
(*                                                                         *)
(* The parser's part of the invariant ties its indexes together and to the *)
(* line ends; for requests as browsers send them another one says where in *)
(* the head the parser is.  The writer's part says what the two blocks of  *)
(* m_iv are when 'have' bytes of the response were sent and 'left' are     *)
(* left, whichever block that is in: together they offer just the bytes    *)
(* that are left.                                                          *)
(***************************************************************************)
EXTENDS HttpConn, SequenceTheorems, WellFoundedInduction, TLAPS

\* Some header of the request asks to keep the connection.
Asked == \E i \in DOMAIN wire : wire[i] = "K"

\* What init() leaves for the next request.
IdleIsReset ==
  pc = "idle" =>
    /\ m_read_idx = 0 /\ m_checked_idx = 0 /\ m_start_line = 0
    /\ m_content_length = 0 /\ ~m_linger /\ m_check_state = "REQUESTLINE"

ParserInv ==
  /\ ParserTypeOK
  /\ IdleIsReset
  /\ m_check_state = "CONTENT" => m_content_length > 0
  /\ m_linger => Asked
  /\ LineStartsAfterLine

-----------------------------------------------------------------------------
(* Lines *)

LEMMA LeastNumber ==
  ASSUME NEW S \in SUBSET Nat, S # {}
  PROVE  Min(S) \in S /\ \A y \in S : Min(S) <= y
<1> DEFINE R == OpToRel(<, Nat)
<1>1. IsWellFoundedOn(R, Nat)
  BY NatLessThanWellFounded
<1>2. \A x, y \in Nat : x < y => <<x, y>> \in R
  BY DEF OpToRel
<1> HIDE DEF R
<1>3. PICK x \in S : \A y \in S : ~(<<y, x>> \in R)
  BY <1>1, WFMin
<1>4. \A y \in S : x <= y
  <2> TAKE y \in S
  <2>1. x \in Nat /\ y \in Nat /\ ~(y < x)
    BY <1>2, <1>3
  <2>2. QED
    BY <2>1
<1>5. QED
  BY <1>4 DEF Min

LEMMA WireType ==
  ASSUME ParserTypeOK
  PROVE  /\ wire \in Seq(Byte) /\ Len(wire) \in Nat /\ DOMAIN wire = 1..Len(wire)
         /\ READ_BUFFER_SIZE \in Nat
         /\ m_read_idx \in Nat /\ m_checked_idx \in Nat /\ m_start_line \in Nat
         /\ m_start_line <= m_checked_idx /\ m_checked_idx <= m_read_idx
         /\ m_read_idx <= Len(wire) /\ m_read_idx <= READ_BUFFER_SIZE
<1>1. wire \in Seq(Byte) /\ READ_BUFFER_SIZE \in Nat
  BY ConnAssumption DEF ParserTypeOK, ConnAssumption
<1>2. Len(wire) \in Nat /\ DOMAIN wire = 1..Len(wire)
  BY <1>1, LenProperties
<1>3. QED
  BY <1>1, <1>2 DEF ParserTypeOK

\* The end of the line is among the bytes read and not looked at.
LEMMA LineEndInBuffer ==
  ASSUME ParserTypeOK
  PROVE  /\ LineEnd \in (m_checked_idx + 1)..(m_read_idx + 1)
         /\ LineEnd <= m_read_idx => wire[LineEnd] \in {"CR", "LF"}
         /\ \A i \in (m_checked_idx + 1)..(LineEnd - 1) : wire[i] \notin {"CR", "LF"}
<1> DEFINE ends == {i \in (m_checked_idx + 1)..m_read_idx : wire[i] \in {"CR", "LF"}}
<1>1. m_checked_idx \in Nat /\ m_read_idx \in Nat /\ m_checked_idx <= m_read_idx
  BY WireType
<1>2. CASE ends = {}
  <2>1. LineEnd = m_read_idx + 1
    BY <1>2 DEF LineEnd
  <2>2. \A i \in (m_checked_idx + 1)..m_read_idx : wire[i] \notin {"CR", "LF"}
    BY <1>2
  <2>3. LineEnd - 1 = m_read_idx /\ LineEnd \in (m_checked_idx + 1)..(m_read_idx + 1)
    BY <1>1, <2>1
  <2>4. QED
    BY <1>1, <2>1, <2>2, <2>3
<1>3. CASE ends # {}
  <2>1. LineEnd = Min(ends)
    BY <1>3 DEF LineEnd
  <2>2. ends \in SUBSET Nat
    BY <1>1
  <2>3. Min(ends) \in ends /\ \A i \in ends : Min(ends) <= i
    BY <1>3, <2>2, LeastNumber
  <2>4. \A i \in (m_checked_idx + 1)..(LineEnd - 1) : i \notin ends /\ i <= m_read_idx
    BY <1>1, <2>1, <2>3
  <2>5. \A i \in (m_checked_idx + 1)..(LineEnd - 1) : wire[i] \notin {"CR", "LF"}
    BY <1>1, <2>1, <2>3, <2>4
  <2>6. QED
    BY <1>1, <2>1, <2>3, <2>5
<1>4. QED
  BY <1>2, <1>3

\* parse_line() stays in the buffer and ends a line only after a LF.
LEMMA ParseLineInBuffer ==
  ASSUME ParserTypeOK
  PROVE  /\ ParseLine.status \in {"OK", "BAD", "OPEN"}
         /\ ParseLine.checked \in m_checked_idx..m_read_idx
         /\ ParseLine.status = "OK" => /\ ParseLine.checked > m_checked_idx
                                       /\ wire[ParseLine.checked] = "LF"
<1> DEFINE p == LineEnd
<1>1. /\ p \in (m_checked_idx + 1)..(m_read_idx + 1)
      /\ p <= m_read_idx => wire[p] \in {"CR", "LF"}
  BY LineEndInBuffer
<1>2. m_checked_idx \in Nat /\ m_read_idx \in Nat /\ m_checked_idx <= m_read_idx
  BY WireType
<1> HIDE DEF p
<1>3. CASE p > m_read_idx
  BY <1>1, <1>2, <1>3 DEF ParseLine, p
<1>4. CASE p <= m_read_idx /\ wire[p] = "CR"
  BY <1>1, <1>2, <1>4 DEF ParseLine, EndsBuffer, AfterLineEnd, p
<1>5. CASE p <= m_read_idx /\ wire[p] # "CR"
  BY <1>1, <1>2, <1>5 DEF ParseLine, p
<1>6. QED
  BY <1>1, <1>2, <1>3, <1>4, <1>5

LEMMA BodyFitsRequest ==
  ASSUME ParserTypeOK
  PROVE  BodyLength \in 0..Len(wire)
<1>1. Len(wire) \in Nat
  BY WireType
<1>2. EndsOfHead(wire) # {} /\ EndsOfHead(wire) \in SUBSET 4..Len(wire)
  BY ConnAssumption DEF ParserTypeOK, ConnAssumption, EndsOfHead
<1>3. EndsOfHead(wire) \in SUBSET Nat
  BY <1>1, <1>2
<1>4. HeadLength \in EndsOfHead(wire)
  BY <1>2, <1>3, LeastNumber DEF HeadLength
<1>5. QED
  BY <1>1, <1>2, <1>4 DEF BodyLength

-----------------------------------------------------------------------------
(* The steps of the parser *)

\* The new line's text is there: it is at most the line end that was found.
LEMMA LineText ==
  ASSUME ParserInv, NEW state, Line(state)
  PROVE  /\ m_start_line + 1 \in DOMAIN wire
         /\ m_checked_idx' \in m_checked_idx..m_read_idx /\ m_checked_idx' > m_checked_idx
         /\ m_start_line' = m_checked_idx' /\ wire[m_start_line'] = "LF"
         /\ line_status' = "OK" /\ m_check_state = state
         /\ UNCHANGED <<wire, m_read_idx, m_string>>
<1>1. /\ m_checked_idx' \in m_checked_idx..m_read_idx /\ m_checked_idx' > m_checked_idx
      /\ m_start_line' = m_checked_idx' /\ wire[m_start_line'] = "LF"
      /\ line_status' = "OK" /\ m_check_state = state
      /\ UNCHANGED <<wire, m_read_idx, m_string>>
  BY ParseLineInBuffer DEF Line, ParserInv
<1>2. m_start_line + 1 \in DOMAIN wire
  BY <1>1, WireType DEF ParserInv
<1>3. QED
  BY <1>1, <1>2

LEMMA ParserStep ==
  ASSUME ParserInv, ReadRequest
  PROVE  ParserInv' /\ pc' \in {"read", "parse", "GET_REQUEST", "BAD_REQUEST"}
<1>0. /\ wire \in Seq(Byte) /\ Len(wire) \in Nat /\ DOMAIN wire = 1..Len(wire)
      /\ READ_BUFFER_SIZE \in Nat
      /\ m_read_idx \in Nat /\ m_checked_idx \in Nat /\ m_start_line \in Nat
      /\ m_start_line <= m_checked_idx /\ m_checked_idx <= m_read_idx
      /\ m_read_idx <= Len(wire) /\ m_read_idx <= READ_BUFFER_SIZE
  BY WireType DEF ParserInv
<1>1. ASSUME NEW n \in 1..Len(wire), Read(n)
      PROVE  ParserInv' /\ pc' = "parse"
  BY <1>0, <1>1 DEF Read, ParserTypeOK, ParserInv, IdleIsReset,
                    Asked, LineStartsAfterLine
<1>2. CASE NoLine
  BY <1>0, <1>2, ParseLineInBuffer DEF NoLine, ParserTypeOK, ParserInv, IdleIsReset,
                                       Asked, LineStartsAfterLine
<1>3. CASE RequestLine
  <2>1. /\ m_start_line + 1 \in DOMAIN wire
        /\ m_checked_idx' \in m_checked_idx..m_read_idx
        /\ m_start_line' = m_checked_idx' /\ wire[m_start_line'] = "LF"
        /\ line_status' = "OK" /\ m_check_state = "REQUESTLINE"
        /\ UNCHANGED <<wire, m_read_idx, m_string>>
    BY <1>3, LineText DEF RequestLine
  <2>2. QED
    BY <1>0, <1>3, <2>1 DEF RequestLine, ParserTypeOK, ParserInv, IdleIsReset,
                            Asked, LineStartsAfterLine
<1>4. CASE Header \/ EmptyLine
  <2>1. /\ m_start_line + 1 \in DOMAIN wire
        /\ m_checked_idx' \in m_checked_idx..m_read_idx
        /\ m_start_line' = m_checked_idx' /\ wire[m_start_line'] = "LF"
        /\ line_status' = "OK" /\ m_check_state = "HEADER"
        /\ UNCHANGED <<wire, m_read_idx, m_string>>
    BY <1>4, LineText DEF Header, EmptyLine
  <2>2. CASE Header
    <3>1. m_content_length' \in 0..Len(wire)
      BY <2>2, BodyFitsRequest DEF Header, ParserTypeOK, ParserInv, IdleIsReset,
                                   Asked, LineStartsAfterLine
    <3>2. m_linger' \in BOOLEAN /\ (m_linger' => Asked)
      BY <2>1, <2>2 DEF Header, Text, ParserTypeOK, ParserInv, IdleIsReset,
                        Asked, LineStartsAfterLine
    <3>3. m_check_state' = "HEADER" /\ pc' = "parse"
      BY <2>1, <2>2 DEF Header, Line
    <3>4. QED
      BY <1>0, <2>1, <3>1, <3>2, <3>3 DEF ParserTypeOK, ParserInv, IdleIsReset,
                                          Asked, LineStartsAfterLine
  <2>3. CASE EmptyLine
    BY <1>0, <2>1, <2>3 DEF EmptyLine, ParserTypeOK, ParserInv, IdleIsReset,
                            Asked, LineStartsAfterLine
  <2>4. QED
    BY <1>4, <2>2, <2>3
<1>5. CASE Content
  <2>1. PICK c \in m_checked_idx..m_read_idx : m_checked_idx' = c
    BY <1>0, <1>5, ParseLineInBuffer DEF Content, ParserInv
  <2>2. /\ m_check_state' = "CONTENT" /\ m_start_line' = c
        /\ UNCHANGED <<wire, m_read_idx, m_content_length, m_linger>>
        /\ m_content_length \in Nat /\ m_content_length > 0
    BY <1>0, <1>5, <2>1 DEF Content, ParserTypeOK, ParserInv, IdleIsReset,
                            Asked, LineStartsAfterLine
  <2>3. CASE BodyRead(c)
    <3>1. /\ pc' = "GET_REQUEST" /\ line_status' = "OK" /\ m_string' = m_start_line + 1
      BY <1>5, <2>1, <2>3 DEF Content
    <3>2. m_read_idx >= m_content_length + c
      BY <2>3 DEF BodyRead
    <3>3. m_start_line + 1 \in 0..READ_BUFFER_SIZE
      BY <1>0, <2>1, <2>2, <3>2
    <3>4. QED
      BY <1>0, <2>1, <2>2, <3>1, <3>3 DEF ParserTypeOK, ParserInv, IdleIsReset,
                                          Asked, LineStartsAfterLine
  <2>4. CASE ~BodyRead(c)
    BY <1>0, <1>5, <2>1, <2>2, <2>4 DEF Content, ParserTypeOK, ParserInv, IdleIsReset,
                                        Asked, LineStartsAfterLine
  <2>5. QED
    BY <2>3, <2>4
<1>6. QED
  BY <1>1, <1>2, <1>3, <1>4, <1>5 DEF ReadRequest
-----------------------------------------------------------------------------
(* The writer *)

UpTo(n) == [i \in 1..n |-> i]

\* Nothing of a file that could not be mapped is sent.
MappedOrUnsent(have) ==
  \/ m_file_address = st_size
  \/ m_file_address = MapFailed /\ have <= m_write_idx

\* 'have' bytes were sent and 'left' are left, of the write buffer alone or of the
\* write buffer and the file; the write buffer is all there or all gone.
Sending(have, left) ==
  /\ left > 0
  /\ wanted = UpTo(have + left) /\ sent = UpTo(have)
  /\ m_iv_count = 1 => have = 0 /\ left = m_write_idx
  /\ m_iv_count = 2 =>
       have + left = m_write_idx + st_size /\ st_size > 0 /\ MappedOrUnsent(have)
  /\ \/ /\ have = 0
        /\ m_iv[1] = [base |-> 0, len |-> m_write_idx]
        /\ m_iv_count = 2 => m_iv[2] = [base |-> 0, len |-> st_size]
     \/ /\ have >= m_write_idx /\ m_iv_count = 2
        /\ m_iv[1].len = 0
        /\ m_iv[2] = [base |-> have - m_write_idx, len |-> left]

NoResponse == {"idle", "read", "parse", "GET_REQUEST", "BAD_REQUEST"}

WriterInv ==
  /\ WriterTypeOK
  /\ pc \in {"armed", "writing"} => Sending(bytes_have_send, bytes_to_send)
  /\ pc \in NoResponse => bytes_have_send = 0 /\ bytes_to_send = 0 /\ m_write_idx = 0
  /\ pc \in NoResponse \ {"idle"} => wanted = <<>> /\ sent = <<>>
  /\ pc = "idle" => sent = wanted
  /\ pc = "closed" => IsPrefix(sent, wanted)

\* Only a connection that is gone leaves a file mapped.
MappingInv == pc \in NoResponse /\ ~stale => m_file_address = 0

ConnInv ==
  /\ TypeOK
  /\ ParserInv
  /\ WriterInv
  /\ MappingInv

LEMMA UpToIsSequence ==
  ASSUME NEW n \in Nat
  PROVE  UpTo(n) \in Seq(Nat) /\ Len(UpTo(n)) = n
  BY DEF UpTo

LEMMA UpToPrefix ==
  ASSUME NEW n \in Nat, NEW h \in 0..n
  PROVE  IsPrefix(UpTo(h), UpTo(n))
<1>1. /\ UpTo(h) \in Seq(Nat) /\ Len(UpTo(h)) = h
      /\ UpTo(n) \in Seq(Nat) /\ Len(UpTo(n)) = n
  BY UpToIsSequence
<1>2. SubSeq(UpTo(h), 1, h) = SubSeq(UpTo(n), 1, h)
  BY DEF UpTo
<1>3. QED
  BY <1>1, <1>2 DEF IsPrefix

\* A sequence is UpTo(n) if it counts up to n.
LEMMA CountsUpTo ==
  ASSUME NEW s \in Seq(Nat), \A i \in 1..Len(s) : s[i] = i
  PROVE  s = UpTo(Len(s))
<1>1. Len(s) \in Nat
  BY LenProperties
<1> DEFINE n == Len(s)
<1> HIDE DEF n
<1>2. n \in Nat /\ n = Len(s)
  BY <1>1 DEF n
<1>3. UpTo(n) \in Seq(Nat) /\ Len(UpTo(n)) = n
  BY <1>2, UpToIsSequence
<1>4. \A i \in 1..n : s[i] = UpTo(n)[i]
  BY <1>2 DEF UpTo
<1>5. QED
  BY <1>2, <1>3, <1>4, SeqEqual DEF n

\* Two sequences of which the second goes on counting where the first ends.
LEMMA CountingGoesOn ==
  ASSUME NEW h \in Nat, NEW t \in Seq(Nat), \A i \in 1..Len(t) : t[i] = h + i
  PROVE  UpTo(h) \o t = UpTo(h + Len(t))
<1> DEFINE s == UpTo(h)
<1>1. s \in Seq(Nat) /\ Len(s) = h /\ \A i \in 1..h : s[i] = i
  BY UpToIsSequence DEF UpTo
<1>2. Len(t) \in Nat
  BY LenProperties
<1> HIDE DEF s
<1>3. /\ s \o t \in Seq(Nat)
      /\ Len(s \o t) = h + Len(t)
      /\ \A i \in 1..(h + Len(t)) : (s \o t)[i] = IF i <= h THEN s[i] ELSE t[i - h]
  BY <1>1, ConcatProperties
<1>4. \A i \in 1..(h + Len(t)) : (s \o t)[i] = i
  <2> TAKE i \in 1..(h + Len(t))
  <2>1. i \in Nat
    BY <1>2
  <2>2. CASE i <= h
    BY <1>1, <1>3, <2>1, <2>2
  <2>3. CASE ~(i <= h)
    <3>1. i - h \in 1..Len(t)
      BY <1>2, <2>1, <2>3
    <3>2. t[i - h] = h + (i - h)
      BY <3>1
    <3>3. (s \o t)[i] = t[i - h]
      BY <1>3, <2>3
    <3>4. QED
      BY <2>1, <3>2, <3>3
  <2>4. QED
    BY <2>2, <2>3
<1>5. s \o t = UpTo(h + Len(t))
  BY <1>3, <1>4, CountsUpTo
<1>6. QED
  BY <1>5 DEF s

\* writev() takes k of the bytes that are left.
LEMMA TakenGoOn ==
  ASSUME NEW h \in Nat, NEW s \in Seq(Nat), NEW k \in 1..Len(s),
         \A i \in 1..Len(s) : s[i] = h + i
  PROVE  UpTo(h) \o SubSeq(s, 1, k) = UpTo(h + k)
<1> DEFINE t == SubSeq(s, 1, k)
<1>1. Len(s) \in Nat /\ \A i \in 1..k : s[i] \in Nat
  BY LenProperties
<1>2. t \in Seq(Nat) /\ Len(t) = k /\ \A i \in 1..k : t[i] = s[i]
  BY <1>1, SubSeqProperties
<1> HIDE DEF t
<1>3. \A i \in 1..Len(t) : t[i] = h + i
  BY <1>1, <1>2
<1>4. UpTo(h) \o t = UpTo(h + k)
  BY <1>2, <1>3, CountingGoesOn
<1>5. QED
  BY <1>4 DEF t

\* A block of n bytes that count on from h
LEMMA Counting ==
  ASSUME NEW h \in Nat, NEW n \in Nat
  PROVE  /\ [i \in 1..n |-> h + i] \in Seq(Nat)
         /\ Len([i \in 1..n |-> h + i]) = n
         /\ UpTo(h) \o [i \in 1..n |-> h + i] = UpTo(h + n)
<1> DEFINE t == [i \in 1..n |-> h + i]
<1>1. t \in Seq(Nat) /\ Len(t) = n /\ \A i \in 1..n : t[i] = h + i
  OBVIOUS
<1> HIDE DEF t
<1>2. UpTo(h) \o t = UpTo(h + n)
  BY <1>1, CountingGoesOn
<1>3. QED
  BY <1>1, <1>2 DEF t

\* What writev() is given is what is left of the response, without the file if it could
\* not be mapped.
LEMMA OfferedIsLeft ==
  ASSUME WriterInv, pc \in {"armed", "writing"}
  PROVE  /\ Offered \in Seq(Nat) /\ Len(Offered) <= bytes_to_send
         /\ \A i \in 1..Len(Offered) : Offered[i] = bytes_have_send + i
         /\ m_iv_count = 2 /\ m_file_address = MapFailed =>
              bytes_have_send + Len(Offered) <= m_write_idx
<1> DEFINE have == bytes_have_send
           left == bytes_to_send
           rest(n) == [i \in 1..n |-> have + i]
           Unmapped == m_iv_count = 2 /\ m_file_address = MapFailed
<1>1. /\ have \in Nat /\ left \in Nat /\ m_write_idx \in Nat /\ st_size \in Nat
      /\ Sending(have, left) /\ m_iv_count \in 1..2
  BY DEF WriterInv, WriterTypeOK
<1> HIDE DEF have, left
<1>2. \A n \in Nat : rest(n) \in Seq(Nat) /\ Len(rest(n)) = n
  BY <1>1, Counting
<1>3. \E n \in Nat : n <= left /\ Offered = rest(n) /\ (Unmapped => have + n <= m_write_idx)
  <2>1. CASE m_iv_count = 1
    <3>1. have = 0 /\ left = m_write_idx /\ m_iv[1] = [base |-> 0, len |-> m_write_idx]
      BY <1>1, <2>1 DEF Sending
    <3>2. BufferBytes(m_iv[1]) = rest(left)
      BY <1>1, <3>1 DEF BufferBytes
    <3>3. Offered = rest(left)
      BY <1>1, <1>2, <2>1, <3>2, ConcatEmptySeq DEF Offered, Readable
    <3>4. QED
      BY <1>1, <2>1, <3>3
  <2>2. CASE m_iv_count = 2 /\ m_iv[1] = [base |-> 0, len |-> m_write_idx] /\ have = 0
             /\ m_iv[2] = [base |-> 0, len |-> st_size]
    <3>1. BufferBytes(m_iv[1]) = UpTo(m_write_idx)
      BY <1>1, <2>2 DEF BufferBytes, UpTo
    <3>2. left = m_write_idx + st_size /\ MappedOrUnsent(have) /\ st_size > 0
      BY <1>1, <2>2 DEF Sending
    <3>3. \A n \in Nat : rest(n) = UpTo(n)
      BY <2>2 DEF UpTo
    <3>4. CASE Readable
      <4>1. FileBytes(m_iv[2]) = [i \in 1..st_size |-> m_write_idx + i]
        BY <1>1, <2>2 DEF FileBytes
      <4>2. Offered = UpTo(m_write_idx) \o [i \in 1..st_size |-> m_write_idx + i]
        BY <3>1, <3>4, <4>1 DEF Offered
      <4>3. Offered = UpTo(m_write_idx + st_size)
        BY <1>1, <4>2, Counting
      <4>4. QED
        BY <1>1, <3>2, <3>3, <3>4, <4>3 DEF Readable
    <3>5. CASE ~Readable
      <4>1. Offered = UpTo(m_write_idx)
        BY <1>1, <3>1, <3>5, UpToIsSequence, ConcatEmptySeq DEF Offered
      <4>2. Offered = rest(m_write_idx)
        BY <1>1, <3>3, <4>1
      <4>3. m_write_idx <= left /\ have + m_write_idx <= m_write_idx
        BY <1>1, <2>2, <3>2
      <4>4. QED
        BY <1>1, <4>2, <4>3
    <3>6. QED
      BY <3>4, <3>5
  <2>3. CASE /\ m_iv_count = 2 /\ m_iv[1].len = 0 /\ have >= m_write_idx
             /\ m_iv[2] = [base |-> have - m_write_idx, len |-> left]
    <3>1. BufferBytes(m_iv[1]) = <<>>
      BY <2>3 DEF BufferBytes
    <3>2. have + left = m_write_idx + st_size /\ st_size > 0 /\ MappedOrUnsent(have)
      BY <1>1, <2>3 DEF Sending
    <3>3. CASE Readable
      <4>1. FileBytes(m_iv[2]) = rest(left)
        BY <1>1, <2>3, <3>2 DEF FileBytes
      <4>2. Offered = rest(left)
        BY <1>1, <1>2, <3>1, <3>3, <4>1, ConcatEmptySeq DEF Offered
      <4>3. QED
        BY <1>1, <3>3, <4>2 DEF Readable
    <3>4. CASE ~Readable
      <4>1. m_file_address = MapFailed /\ have <= m_write_idx
        BY <1>1, <2>3, <3>2, <3>4 DEF Readable, MappedOrUnsent, MapFailed
      <4>2. Offered = rest(0)
        BY <3>1, <3>4, ConcatEmptySeq, EmptySeq DEF Offered
      <4>3. QED
        BY <1>1, <4>1, <4>2
    <3>5. QED
      BY <3>3, <3>4
  <2>4. QED
    BY <1>1, <2>1, <2>2, <2>3 DEF Sending
<1>4. PICK n \in Nat : n <= left /\ Offered = rest(n) /\ (Unmapped => have + n <= m_write_idx)
  BY <1>3
<1>5. Len(Offered) = n /\ Offered \in Seq(Nat) /\ \A i \in 1..n : Offered[i] = have + i
  BY <1>2, <1>4
<1>6. QED
  BY <1>4, <1>5 DEF have, left

-----------------------------------------------------------------------------
(* The steps of the writer *)

\* A response starts.
LEMMA RespondStep ==
  ASSUME ConnInv,
         \E b \in BufferSizes :
           RespondError(b) \/ RespondEmpty(b) \/ \E f \in FileSizes : RespondFile(b, f)
  PROVE  WriterInv' /\ pc' \in {"armed", "closed"} /\ UNCHANGED parserVars
<1>1. /\ WriterInv /\ WriterTypeOK
      /\ BufferSizes \subseteq Nat \ {0} /\ FileSizes \subseteq Nat \ {0}
  BY ConnAssumption DEF ConnInv, WriterInv, ConnAssumption
<1>2. ASSUME NEW b \in BufferSizes, RespondEmpty(b)
      PROVE  WriterInv' /\ pc' = "closed" /\ UNCHANGED parserVars
  <2>1. wanted = <<>> /\ sent = <<>>
    BY <1>1, <1>2 DEF RespondEmpty, WriterInv, NoResponse
  <2>2. IsPrefix(sent', wanted')
    BY <1>2, <2>1, UpToPrefix DEF RespondEmpty, IsPrefix
  <2>3. m_write_idx' \in Nat
    BY <1>1, <1>2 DEF RespondEmpty, AddResponse, WriterTypeOK
  <2>4. QED
    BY <1>1, <1>2, <2>2, <2>3 DEF RespondEmpty, WriterInv, WriterTypeOK, NoResponse, progress
<1>3. ASSUME NEW b \in BufferSizes, NEW f \in {0} \cup FileSizes, Respond(b, f),
             pc \in {"GET_REQUEST", "BAD_REQUEST"},
             st_size' \in Nat, m_file_address' \in FileSizes \cup {0, MapFailed},
             \/ /\ f = 0 /\ m_iv_count' = 1
                /\ m_iv' = [m_iv EXCEPT ![1] = [base |-> 0, len |-> m_write_idx']]
             \/ /\ f # 0 /\ m_iv_count' = 2 /\ st_size' = f /\ m_file_address' \in {f, MapFailed}
                /\ m_iv' = [m_iv EXCEPT ![1] = [base |-> 0, len |-> m_write_idx'],
                                        ![2] = [base |-> 0, len |-> f]]
      PROVE  WriterInv' /\ pc' = "armed" /\ UNCHANGED parserVars
  <2>1. b \in Nat /\ b > 0 /\ f \in Nat
    BY <1>1, <1>3
  <2>2. bytes_have_send = 0 /\ m_write_idx = 0 /\ wanted = <<>> /\ sent = <<>>
    BY <1>1, <1>3 DEF WriterInv, NoResponse
  <2>3. /\ pc' = "armed" /\ m_write_idx' = b /\ bytes_to_send' = b + f
        /\ wanted' = UpTo(b + f) /\ bytes_have_send' = 0 /\ sent' = <<>> /\ error' = error
        /\ UNCHANGED parserVars
    BY <1>3, <2>1, <2>2 DEF Respond, AddResponse, UpTo
  <2>4. /\ m_iv' \in [1..2 -> Block]
        /\ m_iv[1]' = [base |-> 0, len |-> b]
        /\ m_iv_count' = 2 => m_iv[2]' = [base |-> 0, len |-> f]
    <3>1. /\ [base |-> 0, len |-> b] \in Block /\ [base |-> 0, len |-> f] \in Block
          /\ m_iv \in [1..2 -> Block] /\ m_write_idx' = b
      BY <1>1, <2>1, <2>3 DEF WriterTypeOK, Block
    <3>2. QED
      BY <1>3, <3>1
  <2>5. UpTo(0) = <<>> /\ UpTo(b + f) \in Seq(Nat)
    BY <2>1, UpToIsSequence DEF UpTo
  <2>6. Sending(0, b + f)'
    <3>1. b + f \in Nat /\ b + f > 0 /\ 0 + (b + f) = b + f
      BY <2>1
    <3>2. m_iv_count' = 1 => b + f = m_write_idx'
      BY <1>3, <2>1, <2>3
    <3>3. m_iv_count' = 2 => /\ b + f = m_write_idx' + st_size' /\ st_size' > 0
                             /\ MappedOrUnsent(0)'
      BY <1>3, <2>1, <2>3 DEF MappedOrUnsent
    <3>4. m_iv[1]' = [base |-> 0, len |-> m_write_idx']
      BY <2>3, <2>4
    <3>5. m_iv_count' = 2 => m_iv[2]' = [base |-> 0, len |-> st_size']
      BY <1>3, <2>4
    <3>6. QED
      BY <2>3, <2>5, <3>1, <3>2, <3>3, <3>4, <3>5 DEF Sending
  <2>7. Sending(bytes_have_send, bytes_to_send)'
    BY <2>3, <2>6
  <2>8. WriterTypeOK'
    BY <1>1, <1>3, <2>1, <2>3, <2>4, <2>5 DEF WriterTypeOK
  <2>9. QED
    BY <2>3, <2>7, <2>8 DEF WriterInv, NoResponse
<1>4. ASSUME NEW b \in BufferSizes, RespondError(b)
      PROVE  WriterInv' /\ pc' = "armed" /\ UNCHANGED parserVars
  BY <1>1, <1>3, <1>4 DEF RespondError, WriterTypeOK
<1>5. ASSUME NEW b \in BufferSizes, NEW f \in FileSizes, RespondFile(b, f)
      PROVE  WriterInv' /\ pc' = "armed" /\ UNCHANGED parserVars
  BY <1>1, <1>3, <1>5 DEF RespondFile, MapFile
<1>6. QED
  BY <1>2, <1>4, <1>5

\* The blocks when the write buffer is sent
LEMMA HeaderGone ==
  ASSUME NEW iv \in [1..2 -> Block], NEW b \in Block
  PROVE  /\ [iv EXCEPT ![1].len = 0, ![2] = b] \in [1..2 -> Block]
         /\ [iv EXCEPT ![1].len = 0, ![2] = b][1].len = 0
         /\ [iv EXCEPT ![1].len = 0, ![2] = b][2] = b
  BY DEF Block

\* What writev() and the computation of the next blocks leave.
LEMMA Taken ==
  ASSUME ConnInv, WholeHeader, NEW k \in 1..Len(Offered), Writev(k),
         NEW have \in Int, NEW left \in Int,
         have = bytes_have_send + k, left = bytes_to_send - k
  PROVE  /\ k \in 1..bytes_to_send
         /\ sent' = UpTo(have)
         /\ m_iv_count = 2 => MappedOrUnsent(have)
         /\ m_iv' \in [1..2 -> Block]
         /\ k < bytes_to_send =>
              /\ have >= m_write_idx /\ m_iv_count = 2
              /\ m_iv[1].len' = 0
              /\ m_iv[2]' = [base |-> have - m_write_idx, len |-> left]
<1>1. /\ WriterInv /\ WriterTypeOK /\ pc = "writing"
      /\ bytes_have_send \in Nat /\ bytes_to_send \in Nat /\ m_write_idx \in Nat
      /\ m_iv \in [1..2 -> Block] /\ m_iv_count \in 1..2
      /\ Sending(bytes_have_send, bytes_to_send)
  BY DEF ConnInv, WriterInv, WriterTypeOK, Writev
<1>2. /\ Offered \in Seq(Nat) /\ Len(Offered) \in Nat /\ Len(Offered) <= bytes_to_send
      /\ \A i \in 1..Len(Offered) : Offered[i] = bytes_have_send + i
      /\ m_iv_count = 2 /\ m_file_address = MapFailed =>
           bytes_have_send + Len(Offered) <= m_write_idx
  BY <1>1, OfferedIsLeft, LenProperties
<1>3. k \in 1..bytes_to_send
  BY <1>1, <1>2
<1>a. m_iv_count = 2 => MappedOrUnsent(have)
  BY <1>1, <1>2 DEF Sending, MappedOrUnsent
<1>4. sent' = UpTo(have)
  <2>1. sent = UpTo(bytes_have_send)
    BY <1>1 DEF Sending
  <2>2. sent' = UpTo(bytes_have_send) \o SubSeq(Offered, 1, k)
    BY <2>1 DEF Writev
  <2>3. QED
    BY <1>1, <1>2, <2>2, TakenGoOn
<1>5. m_iv[1].len \in Int /\ k >= m_iv[1].len /\ have >= m_iv[1].len
  BY <1>1, <1>3 DEF Writev, Block
<1>6. m_iv' = [m_iv EXCEPT ![1].len = 0, ![2] = [base |-> have - m_write_idx, len |-> left]]
  BY <1>1, <1>3, <1>5 DEF Writev, Advance, FileBlock
<1>7. have - m_write_idx \in Int
  BY <1>1
<1>8. /\ m_iv' \in [1..2 -> Block]
      /\ m_iv[1].len' = 0
      /\ m_iv[2]' = [base |-> have - m_write_idx, len |-> left]
  <2> DEFINE rest == [base |-> have - m_write_idx, len |-> left]
  <2>1. rest \in Block
    BY <1>7 DEF Block
  <2>2. m_iv \in [1..2 -> Block] /\ m_iv' = [m_iv EXCEPT ![1].len = 0, ![2] = rest]
    BY <1>1, <1>6
  <2> HIDE DEF rest
  <2>3. m_iv' \in [1..2 -> Block] /\ m_iv[1].len' = 0 /\ m_iv[2]' = rest
    BY <2>1, <2>2, HeaderGone
  <2>4. QED
    BY <2>3 DEF rest
<1>9. k < bytes_to_send => have >= m_write_idx /\ m_iv_count = 2
  BY <1>1, <1>3, <1>5 DEF Sending
<1>10. QED
  BY <1>3, <1>4, <1>8, <1>9, <1>a

LEMMA WriteStep ==
  ASSUME ConnInv, WholeHeader,
         \/ Write
         \/ \E k \in 1..Len(Offered) : WritePart(k) \/ WriteKeep(k) \/ WriteClose(k)
         \/ WritevFails
  PROVE  WriterInv'
<1>1. /\ WriterInv /\ WriterTypeOK /\ pc \in {"armed", "writing"}
      /\ bytes_have_send \in Nat /\ bytes_to_send \in Nat /\ m_write_idx \in Nat
      /\ Sending(bytes_have_send, bytes_to_send)
  BY DEF ConnInv, WriterInv, WriterTypeOK, Write, WritePart, WriteKeep, WriteClose, Writev,
         WritevFails
<1>2. CASE Write
  <2>1. pc' = "writing" /\ UNCHANGED writerVars
    BY <1>2 DEF Write
  <2>2. QED
    BY <1>1, <2>1 DEF WriterInv, WriterTypeOK, Sending, MappedOrUnsent, NoResponse,
                      writerVars, layout, progress
<1>3. CASE WritevFails
  <2>1. /\ pc' = "armed" /\ error' \in {"none"} \cup WritevErrors
        /\ UNCHANGED <<m_write_idx, st_size, m_iv, m_iv_count, wanted, bytes_to_send,
                       bytes_have_send, m_file_address, sent>>
    BY <1>3 DEF WritevFails, FailedWritev, progress
  <2>2. QED
    BY <1>1, <2>1 DEF WriterInv, WriterTypeOK, Sending, MappedOrUnsent, NoResponse
<1>4. ASSUME NEW k \in 1..Len(Offered), WritePart(k) \/ WriteKeep(k) \/ WriteClose(k)
      PROVE  WriterInv'
  <2>0. k \in Int
    BY <1>1, OfferedIsLeft, LenProperties
  <2>a. PICK have \in Int : have = bytes_have_send + k
    BY <1>1, <2>0
  <2>b. PICK left \in Int : left = bytes_to_send - k
    BY <1>1, <2>0
  <2>1. Writev(k) /\ pc = "writing"
    BY <1>4 DEF WritePart, WriteKeep, WriteClose, Writev
  <2>2. /\ k \in 1..bytes_to_send /\ sent' = UpTo(have) /\ m_iv' \in [1..2 -> Block]
        /\ m_iv_count = 2 => MappedOrUnsent(have)
        /\ k < bytes_to_send =>
             /\ have >= m_write_idx /\ m_iv_count = 2
             /\ m_iv[1].len' = 0
             /\ m_iv[2]' = [base |-> have - m_write_idx, len |-> left]
    BY <2>1, <2>a, <2>b, Taken
  <2>3. /\ have \in Nat /\ left \in Nat /\ (left > 0 <=> k < bytes_to_send)
        /\ have + left = bytes_have_send + bytes_to_send
    BY <1>1, <2>a, <2>b, <2>2
  <2>4. wanted = UpTo(have + left) /\ UpTo(have) \in Seq(Nat) /\ error' = "none"
    BY <1>1, <2>1, <2>3, UpToIsSequence DEF Sending, Writev
  <2>5. CASE WritePart(k)
    <3>1. /\ pc' = "writing" /\ bytes_to_send' = left /\ bytes_have_send' = have
          /\ UNCHANGED <<m_write_idx, st_size, m_iv_count, wanted, m_file_address>>
          /\ k < bytes_to_send
      BY <2>1, <2>a, <2>b, <2>5 DEF WritePart, Progress
    <3>2. Sending(have, left)'
      <4>1. have + left = m_write_idx + st_size /\ st_size > 0 /\ MappedOrUnsent(have)'
        BY <1>1, <2>2, <2>3, <3>1 DEF Sending, MappedOrUnsent
      <4>2. QED
        BY <2>2, <2>3, <2>4, <3>1, <4>1 DEF Sending
    <3>3. Sending(bytes_have_send, bytes_to_send)'
      BY <3>1, <3>2
    <3>4. WriterTypeOK'
      BY <1>1, <2>2, <2>3, <2>4, <3>1 DEF WriterTypeOK
    <3>5. QED
      BY <3>1, <3>3, <3>4 DEF WriterInv, NoResponse
  <2>6. CASE WriteKeep(k)
    <3>1. /\ pc' = "idle" /\ bytes_to_send' = 0 /\ bytes_have_send' = 0 /\ m_write_idx' = 0
          /\ UNCHANGED <<st_size, m_iv_count, wanted>> /\ m_file_address' = 0
          /\ k >= bytes_to_send
      BY <2>6 DEF WriteKeep, InitConn, Unmap
    <3>2. left = 0 /\ have + left = have
      BY <2>3, <2>2, <1>1, <3>1
    <3>3. sent' = wanted'
      BY <2>2, <2>4, <3>1, <3>2
    <3>4. WriterTypeOK'
      BY <1>1, <2>2, <2>3, <2>4, <3>1 DEF WriterTypeOK
    <3>5. QED
      BY <3>1, <3>3, <3>4 DEF WriterInv, NoResponse
  <2>7. CASE WriteClose(k)
    <3>1. /\ pc' = "closed" /\ bytes_to_send' = left /\ bytes_have_send' = have
          /\ UNCHANGED <<m_write_idx, st_size, m_iv_count, wanted>> /\ m_file_address' = 0
          /\ k >= bytes_to_send
      BY <2>a, <2>b, <2>7 DEF WriteClose, Progress, Unmap
    <3>2. have \in 0..(have + left)
      BY <2>3
    <3>3. IsPrefix(sent', wanted')
      BY <2>2, <2>3, <2>4, <3>1, <3>2, UpToPrefix
    <3>4. WriterTypeOK'
      BY <1>1, <2>2, <2>3, <2>4, <3>1 DEF WriterTypeOK
    <3>5. QED
      BY <3>1, <3>3, <3>4 DEF WriterInv, NoResponse
  <2>8. QED
    BY <1>4, <2>5, <2>6, <2>7
<1>5. QED
  BY <1>2, <1>3, <1>4

-----------------------------------------------------------------------------
(* The connection *)

\* init() between two requests, or before a new connection
LEMMA InitConnStep ==
  ASSUME ParserInv, InitConn
  PROVE  ParserInv'
<1>1. wire \in Requests /\ 0 \in 0..Len(wire) /\ 0 \in 0..READ_BUFFER_SIZE
  BY WireType DEF ParserInv, ParserTypeOK
<1>2. 0 <= Len(wire) /\ 0 \in 0..0
  BY <1>1
<1>3. ParserTypeOK'
  BY <1>1, <1>2 DEF InitConn, ForgetLinger, ForgetBody, ParserInv, ParserTypeOK
<1>4. QED
  BY <1>3 DEF InitConn, ForgetLinger, ForgetBody, ParserInv, IdleIsReset, LineStartsAfterLine

LEMMA SameRequest ==
  ASSUME ParserInv, UNCHANGED parserVars, pc' # "idle"
  PROVE  ParserInv'
  BY DEF parserVars, ParserInv, ParserTypeOK, IdleIsReset, Asked, LineStartsAfterLine

LEMMA PrefixSent ==
  ASSUME ConnInv
  PROVE  SentIsPrefix
<1>1. /\ WriterInv
      /\ pc \in {"idle", "read", "parse", "GET_REQUEST", "BAD_REQUEST", "armed", "writing", "closed"}
  BY DEF ConnInv, TypeOK
<1>2. CASE pc \in {"armed", "writing"}
  <2>1. /\ bytes_have_send \in Nat /\ bytes_to_send \in Nat
        /\ Sending(bytes_have_send, bytes_to_send)
    BY <1>1, <1>2 DEF WriterInv, WriterTypeOK
  <2>2. bytes_have_send \in 0..(bytes_have_send + bytes_to_send)
    BY <2>1
  <2>3. QED
    BY <2>1, <2>2, UpToPrefix DEF Sending, SentIsPrefix
<1>3. CASE pc \in NoResponse
  <2>1. sent = wanted
    BY <1>1, <1>3 DEF WriterInv, NoResponse
  <2>2. QED
    BY <2>1 DEF IsPrefix, SentIsPrefix
<1>4. CASE pc = "closed"
  BY <1>1, <1>4 DEF WriterInv, SentIsPrefix
<1>5. QED
  BY <1>1, <1>2, <1>3, <1>4 DEF NoResponse

LEMMA SendStep ==
  ASSUME ConnInv, WholeHeader, Send
  PROVE  ConnInv'
<1>1. /\ ParserInv /\ WriterInv /\ MappingInv /\ stale \in BOOLEAN
      /\ SendResponse /\ stale' = (stale /\ m_file_address' = m_file_address)
  BY DEF ConnInv, Send, TypeOK
<1>2. ASSUME ParserInv', WriterInv',
             \/ pc' \in {"armed", "writing", "closed"}
             \/ pc' = "idle" /\ m_file_address' = 0
      PROVE  ConnInv'
  BY <1>1, <1>2 DEF ConnInv, TypeOK, ParserInv, WriterInv, MappingInv, NoResponse
<1>3. CASE \E b \in BufferSizes :
             RespondError(b) \/ RespondEmpty(b) \/ \E f \in FileSizes : RespondFile(b, f)
  BY <1>1, <1>2, <1>3, RespondStep, SameRequest
<1>4. CASE \/ Write
           \/ \E k \in 1..Len(Offered) : WritePart(k) \/ WriteKeep(k) \/ WriteClose(k)
           \/ WritevFails
  <2>1. WriterInv'
    BY <1>4, WriteStep
  <2>2. CASE Write
    BY <1>1, <1>2, <2>1, <2>2, SameRequest DEF Write
  <2>3. CASE WritevFails
    BY <1>1, <1>2, <2>1, <2>3, SameRequest DEF WritevFails, FailedWritev
  <2>4. ASSUME NEW k \in 1..Len(Offered), WritePart(k)
        PROVE  ConnInv'
    BY <1>1, <1>2, <2>1, <2>4, SameRequest DEF WritePart, Writev, Progress
  <2>5. ASSUME NEW k \in 1..Len(Offered), WriteKeep(k)
        PROVE  ConnInv'
    BY <1>1, <1>2, <2>1, <2>5, InitConnStep DEF WriteKeep, Unmap
  <2>6. ASSUME NEW k \in 1..Len(Offered), WriteClose(k)
        PROVE  ConnInv'
    BY <1>1, <1>2, <2>1, <2>6, SameRequest DEF WriteClose, Progress
  <2>7. QED
    BY <1>4, <2>2, <2>3, <2>4, <2>5, <2>6
<1>5. QED
  BY <1>1, <1>3, <1>4 DEF SendResponse

LEMMA ConnInitially == Init => ConnInv
<1> SUFFICES ASSUME Init
             PROVE  ConnInv
  OBVIOUS
<1>1. ParserTypeOK
  <2>1. wire \in Seq(Byte) /\ READ_BUFFER_SIZE \in Nat
    BY ConnAssumption DEF ConnAssumption, Init
  <2>2. 0 \in 0..Len(wire) /\ 0 \in 0..READ_BUFFER_SIZE /\ 0 <= Len(wire) /\ 0 \in 0..0
    BY <2>1, LenProperties
  <2>3. QED
    BY <2>2 DEF Init, ParserTypeOK
<1>2. ParserInv
  BY <1>1 DEF Init, ParserInv, IdleIsReset, LineStartsAfterLine
<1>3. WriterInv
  BY DEF Init, progress, WriterInv, WriterTypeOK, NoResponse, Block
<1>4. QED
  BY <1>2, <1>3 DEF Init, ConnInv, TypeOK, ParserInv, WriterInv, MappingInv

LEMMA ConnStep ==
  ASSUME WholeHeader, ConnInv, [Next]_vars
  PROVE  ConnInv'
<1>1. /\ ParserInv /\ WriterInv /\ WriterTypeOK /\ MappingInv /\ stale \in BOOLEAN
      /\ pc \in {"idle", "read", "parse", "GET_REQUEST", "BAD_REQUEST", "armed", "writing", "closed"}
  BY DEF ConnInv, WriterInv, TypeOK
<1>2. ASSUME ParserInv', WriterInv', MappingInv', stale' \in BOOLEAN,
             pc' \in {"idle", "read", "parse", "GET_REQUEST", "BAD_REQUEST", "closed"}
      PROVE  ConnInv'
  BY <1>2 DEF ConnInv, TypeOK, ParserInv, WriterInv
<1>3. CASE Request
  <2>1. ParserInv'
    BY <1>1, <1>3 DEF Request, ParserInv, ParserTypeOK, IdleIsReset, Asked, LineStartsAfterLine
  <2>2. WriterInv'
    BY <1>1, <1>3 DEF Request, WriterInv, WriterTypeOK, NoResponse, progress
  <2>3. QED
    BY <1>1, <1>2, <1>3, <2>1, <2>2 DEF Request, MappingInv, NoResponse
<1>4. CASE Parse
  <2>1. ParserInv' /\ pc' \in {"read", "parse", "GET_REQUEST", "BAD_REQUEST"}
    BY <1>1, <1>4, ParserStep DEF Parse
  <2>2. WriterInv'
    BY <1>1, <1>4, <2>1 DEF Parse, WriterInv, WriterTypeOK, NoResponse,
                            writerVars, layout, progress
  <2>3. QED
    BY <1>1, <1>2, <1>4, <2>1, <2>2 DEF Parse, MappingInv, NoResponse, writerVars
<1>5. CASE Send
  BY <1>5, SendStep
<1>6. CASE Abort
  <2>1. ParserInv' /\ WriterTypeOK'
    BY <1>1, <1>6, SameRequest DEF Abort, WriterTypeOK, writerVars, layout, progress
  <2>2. IsPrefix(sent, wanted)
    BY PrefixSent DEF SentIsPrefix
  <2>3. WriterInv'
    BY <1>6, <2>1, <2>2 DEF Abort, WriterInv, NoResponse, writerVars, layout
  <2>4. QED
    BY <1>1, <1>2, <1>6, <2>1, <2>3 DEF Abort, MappingInv, NoResponse
<1>7. CASE Reopen
  <2>1. ParserInv'
    BY <1>1, <1>7, InitConnStep DEF Reopen
  <2>2. WriterInv'
    BY <1>1, <1>7 DEF Reopen, InitConn, WriterInv, WriterTypeOK, NoResponse
  <2>3. QED
    BY <1>1, <1>2, <1>7, <2>1, <2>2 DEF Reopen, MappingInv, NoResponse
<1>8. CASE UNCHANGED vars
  BY <1>8 DEF vars, parserVars, writerVars, layout, progress, ConnInv, TypeOK, ParserInv,
              ParserTypeOK, IdleIsReset, Asked, LineStartsAfterLine, WriterInv, WriterTypeOK,
              Sending, MappedOrUnsent, NoResponse, MappingInv
<1>9. QED
  BY <1>3, <1>4, <1>5, <1>6, <1>7, <1>8 DEF Next

LEMMA ConnInvariant ==
  ASSUME WholeHeader
  PROVE  Spec => []ConnInv
<1>1. Init => ConnInv
  BY ConnInitially
<1>2. ConnInv /\ [Next]_vars => ConnInv'
  BY ConnStep
<1>3. QED
  BY <1>1, <1>2, PTL DEF Spec

-----------------------------------------------------------------------------
(* What does not depend on how the response is cut *)

LEMMA ParserKept ==
  ASSUME ParserInv, [Next]_vars
  PROVE  ParserInv'
<1>1. ASSUME UNCHANGED parserVars, pc' \in {"armed", "writing", "closed"}
      PROVE  ParserInv'
  BY <1>1, SameRequest
<1>2. CASE Request
  BY <1>2 DEF Request, ParserInv, ParserTypeOK, IdleIsReset, Asked, LineStartsAfterLine
<1>3. CASE Parse
  BY <1>3, ParserStep DEF Parse
<1>4. CASE Send
  <2>1. CASE \/ \E b \in BufferSizes : \/ RespondError(b) \/ RespondEmpty(b)
                                      \/ \E f \in FileSizes : RespondFile(b, f)
             \/ Write \/ WritevFails
    BY <1>1, <2>1 DEF RespondError, RespondFile, Respond, RespondEmpty, Write, WritevFails,
                      FailedWritev
  <2>2. ASSUME NEW k \in 1..Len(Offered), WritePart(k) \/ WriteClose(k)
        PROVE  ParserInv'
    BY <1>1, <2>2 DEF WritePart, WriteClose, Writev, Progress
  <2>3. ASSUME NEW k \in 1..Len(Offered), WriteKeep(k)
        PROVE  ParserInv'
    BY <2>3, InitConnStep DEF WriteKeep
  <2>4. QED
    BY <1>4, <2>1, <2>2, <2>3 DEF Send, SendResponse
<1>5. CASE Abort
  BY <1>1, <1>5 DEF Abort
<1>6. CASE Reopen
  BY <1>6, InitConnStep DEF Reopen
<1>7. CASE UNCHANGED vars
  BY <1>7 DEF vars, parserVars, ParserInv, ParserTypeOK, IdleIsReset, Asked, LineStartsAfterLine
<1>8. QED
  BY <1>2, <1>3, <1>4, <1>5, <1>6, <1>7 DEF Next

LEMMA MappingKept ==
  ASSUME MappingInv, ParserInv, [Next]_vars
  PROVE  MappingInv'
<1>1. CASE Request
  BY <1>1 DEF Request, MappingInv, NoResponse
<1>2. CASE Parse
  BY <1>2 DEF Parse, writerVars, MappingInv, NoResponse
<1>3. CASE Send
  <2>1. CASE \/ \E b \in BufferSizes : \/ RespondError(b) \/ RespondEmpty(b)
                                      \/ \E f \in FileSizes : RespondFile(b, f)
             \/ Write \/ WritevFails
    BY <2>1 DEF RespondError, RespondFile, MapFile, Respond, RespondEmpty, Write, WritevFails,
                FailedWritev, MappingInv, NoResponse
  <2>2. ASSUME NEW k \in 1..Len(Offered), WritePart(k) \/ WriteClose(k) \/ WriteKeep(k)
        PROVE  MappingInv'
    BY <2>2 DEF WritePart, WriteClose, WriteKeep, Writev, Unmap, MappingInv, NoResponse
  <2>3. QED
    BY <1>3, <2>1, <2>2 DEF Send, SendResponse
<1>4. CASE Abort
  BY <1>4 DEF Abort, MappingInv, NoResponse
<1>5. CASE Reopen
  BY <1>5 DEF Reopen, MappingInv, NoResponse
<1>6. CASE UNCHANGED vars
  BY <1>6 DEF vars, writerVars, MappingInv
<1>7. QED
  BY <1>1, <1>2, <1>3, <1>4, <1>5, <1>6 DEF Next

LEMMA LifeInvariant == Spec => [](ParserInv /\ MappingInv)
<1>1. Init => ParserInv /\ MappingInv
  BY ConnInitially DEF ConnInv
<1>2. (ParserInv /\ MappingInv) /\ [Next]_vars => (ParserInv /\ MappingInv)'
  BY ParserKept, MappingKept
<1>3. QED
  BY <1>1, <1>2, PTL DEF Spec

-----------------------------------------------------------------------------
(* Requests as browsers send them *)

\* The head of request w is its first h bytes.
HeadShape(w, h) ==
  /\ h \in 4..Len(w)
  /\ w[h - 3] = "CR" /\ w[h - 2] = "LF" /\ w[h - 1] = "CR" /\ w[h] = "LF"
  /\ \A i \in 4..Len(w) :
       w[i - 3] = "CR" /\ w[i - 2] = "LF" /\ w[i - 1] = "CR" /\ w[i] = "LF" => h <= i
  /\ \A i \in 1..h : w[i] = "CR" => w[i + 1] = "LF"
  /\ \A i \in 1..h : w[i] = "LF" => i > 1 /\ w[i - 1] = "CR"

LineStart(i) == i = 1 \/ wire[i - 1] = "LF"

\* The header Content-Length is still to be read.
LengthAhead == \E i \in (m_start_line + 1)..HeadLength : wire[i] = "L" /\ LineStart(i)

\* The line being read starts within the head, and no line ends in what was looked at.
InLine ==
  /\ m_start_line <= HeadLength - 2
  /\ \A i \in (m_start_line + 1)..m_checked_idx : wire[i] \notin {"CR", "LF"}
  /\ m_start_line > 0 => wire[m_start_line] = "LF"

ReadingInv ==
  pc \in {"read", "parse"} =>
    /\ m_check_state # "CONTENT" => InLine /\ (LengthAhead \/ m_content_length = BodyLength)
    /\ m_check_state = "HEADER" => m_start_line > 0
    /\ m_check_state = "CONTENT" => m_start_line >= HeadLength /\ m_content_length = BodyLength
    /\ pc = "read" /\ BodyLength = 0 => m_read_idx < Len(wire)

RequestInv == ParserInv /\ ReadingInv /\ AcceptsWholeRequest

LEMMA HeadIsShaped ==
  ASSUME NEW w \in Requests, ProperRequests
  PROVE  HeadShape(w, Min(EndsOfHead(w)))
<1> DEFINE h == Min(EndsOfHead(w))
<1>1. /\ w \in Seq(Byte) /\ Len(w) \in Nat /\ DOMAIN w = 1..Len(w)
      /\ EndsOfHead(w) # {}
  BY ConnAssumption, LenProperties DEF ConnAssumption
<1>2. EndsOfHead(w) \in SUBSET Nat
  BY <1>1 DEF EndsOfHead
<1>3. h \in EndsOfHead(w) /\ \A i \in EndsOfHead(w) : h <= i
  BY <1>1, <1>2, LeastNumber
<1>4. ASSUME NEW i \in 4..Len(w)
      PROVE  i \in EndsOfHead(w) <=>
               w[i - 3] = "CR" /\ w[i - 2] = "LF" /\ w[i - 1] = "CR" /\ w[i] = "LF"
  <2> DEFINE t == SubSeq(w, i - 3, i)
             end == <<"CR", "LF", "CR", "LF">>
  <2>1. i - 3 \in Int /\ i \in Int /\ i - 3 <= i /\ i - (i - 3) + 1 = 4
        /\ \A j \in (i - 3)..i : w[j] \in Byte
    BY <1>1
  <2>2. /\ t \in Seq(Byte) /\ Len(t) = 4
        /\ \A j \in 1..4 : t[j] = w[(i - 3) + j - 1]
    BY <2>1, SubSeqProperties
  <2> HIDE DEF t
  <2>3. /\ t[1] = w[i - 3] /\ t[2] = w[i - 2] /\ t[3] = w[i - 1] /\ t[4] = w[i]
    <3>1. /\ (i - 3) + 1 - 1 = i - 3 /\ (i - 3) + 2 - 1 = i - 2
          /\ (i - 3) + 3 - 1 = i - 1 /\ (i - 3) + 4 - 1 = i
      BY <2>1
    <3>2. 1 \in 1..4 /\ 2 \in 1..4 /\ 3 \in 1..4 /\ 4 \in 1..4
      OBVIOUS
    <3>3. QED
      BY <2>2, <3>1, <3>2
  <2>4. /\ end \in Seq(Byte) /\ Len(end) = 4
        /\ end[1] = "CR" /\ end[2] = "LF" /\ end[3] = "CR" /\ end[4] = "LF"
    BY DEF Byte
  <2> HIDE DEF end
  <2>5. t = end <=> t[1] = end[1] /\ t[2] = end[2] /\ t[3] = end[3] /\ t[4] = end[4]
    <3>1. \A j \in 1..4 : j = 1 \/ j = 2 \/ j = 3 \/ j = 4
      OBVIOUS
    <3>2. ASSUME t[1] = end[1], t[2] = end[2], t[3] = end[3], t[4] = end[4]
          PROVE  t = end
      <4>1. \A j \in 1..4 : t[j] = end[j]
        BY <3>1, <3>2
      <4>2. QED
        BY <2>2, <2>4, <4>1, SeqEqual
    <3>3. QED
      BY <3>2
  <2>6. i \in EndsOfHead(w) <=> t = end
    BY DEF EndsOfHead, t, end
  <2>7. QED
    BY <2>3, <2>4, <2>5, <2>6
<1>5. h \in 4..Len(w)
  BY <1>3 DEF EndsOfHead
<1>6. /\ \A i \in 1..h : w[i] = "CR" => w[i + 1] = "LF"
      /\ \A i \in 1..h : w[i] = "LF" => i > 1 /\ w[i - 1] = "CR"
  BY DEF ProperRequests, ProperRequest
<1>7. /\ w[h - 3] = "CR" /\ w[h - 2] = "LF" /\ w[h - 1] = "CR" /\ w[h] = "LF"
  BY <1>3, <1>4, <1>5
<1>8. \A i \in 4..Len(w) :
        w[i - 3] = "CR" /\ w[i - 2] = "LF" /\ w[i - 1] = "CR" /\ w[i] = "LF" => h <= i
  BY <1>3, <1>4
<1>9. QED
  BY <1>5, <1>6, <1>7, <1>8 DEF HeadShape

\* What parse_line() finds in the head: the line it looks for, or all that was read.
LEMMA NextLineEnd ==
  ASSUME ParserTypeOK, HeadShape(wire, HeadLength), InLine
  PROVE  /\ m_checked_idx <= HeadLength - 2
         /\ \A i \in (m_start_line + 1)..(LineEnd - 1) : wire[i] \notin {"CR", "LF"}
         /\ LineEnd <= HeadLength - 1
         /\ LineEnd <= m_read_idx => wire[LineEnd] = "CR" /\ wire[LineEnd + 1] = "LF"
<1> DEFINE p == LineEnd
           h == HeadLength
           start == m_start_line
           checked == m_checked_idx
<1>1. /\ p \in (checked + 1)..(m_read_idx + 1)
      /\ p <= m_read_idx => wire[p] \in {"CR", "LF"}
      /\ \A i \in (checked + 1)..(p - 1) : wire[i] \notin {"CR", "LF"}
  BY LineEndInBuffer
<1>2. /\ checked \in Nat /\ m_read_idx \in Nat /\ start \in Nat
      /\ start <= checked /\ checked <= m_read_idx
  BY WireType
<1>3. /\ h \in Nat /\ h >= 4 /\ h - 1 \in 1..h
      /\ wire[h - 2] = "LF" /\ wire[h - 1] = "CR"
      /\ \A i \in 1..h : wire[i] = "CR" => wire[i + 1] = "LF"
      /\ \A i \in 1..h : wire[i] = "LF" => i > 1 /\ wire[i - 1] = "CR"
  BY WireType DEF HeadShape
<1>4. /\ start <= h - 2 /\ \A i \in (start + 1)..checked : wire[i] \notin {"CR", "LF"}
      /\ start > 0 => wire[start] = "LF"
  BY DEF InLine
<1> HIDE DEF p, h, start, checked
<1>5. checked <= h - 2
  <2>1. h - 1 \notin (start + 1)..checked
    BY <1>3, <1>4
  <2>2. QED
    BY <1>2, <1>3, <1>4, <2>1
<1>6. \A i \in (start + 1)..(p - 1) : wire[i] \notin {"CR", "LF"}
  <2>1. \A i \in (start + 1)..(p - 1) : i \in (start + 1)..checked \/ i \in (checked + 1)..(p - 1)
    BY <1>1, <1>2
  <2>2. QED
    BY <1>1, <1>4, <2>1
<1>7. p <= h - 1
  <2>1. h - 1 \notin (checked + 1)..(p - 1)
    BY <1>1, <1>3
  <2>2. QED
    BY <1>1, <1>2, <1>3, <1>5, <2>1
<1>8. p \in 1..h
  BY <1>1, <1>2, <1>3, <1>7
<1>9. wire[p] # "LF"
  <2> SUFFICES ASSUME wire[p] = "LF"
               PROVE  FALSE
    OBVIOUS
  <2>1. p > 1 /\ wire[p - 1] = "CR"
    BY <1>3, <1>8
  <2>2. p - 1 \notin (start + 1)..(p - 1)
    BY <1>6, <2>1
  <2>3. start = p - 1
    BY <1>1, <1>2, <1>8, <2>2
  <2>4. start > 0
    BY <1>3, <1>8, <2>1, <2>3
  <2>5. QED
    BY <1>4, <2>1, <2>3, <2>4
<1>10. p <= m_read_idx => wire[p] = "CR" /\ wire[p + 1] = "LF"
  BY <1>1, <1>3, <1>8, <1>9
<1>11. QED
  BY <1>5, <1>6, <1>7, <1>10 DEF p, h, start, checked

LEMMA NextLine ==
  ASSUME ParserTypeOK, HeadShape(wire, HeadLength), InLine
  PROVE  /\ ParseLine.status = "OK" =>
              /\ ParseLine.checked = LineEnd + 1
              /\ LineEnd <= m_read_idx
         /\ ParseLine.status # "OK" =>
              /\ ParseLine.checked <= LineEnd - 1
              /\ m_read_idx < HeadLength
<1>1. /\ LineEnd <= HeadLength - 1
      /\ LineEnd <= m_read_idx => wire[LineEnd] = "CR" /\ wire[LineEnd + 1] = "LF"
  BY NextLineEnd
<1>2. /\ LineEnd \in (m_checked_idx + 1)..(m_read_idx + 1)
  BY LineEndInBuffer
<1>3. m_checked_idx \in Nat /\ m_read_idx \in Nat /\ HeadLength \in Nat
  BY WireType DEF HeadShape
<1>4. CASE LineEnd > m_read_idx
  <2>1. LineEnd = m_read_idx + 1
    BY <1>2, <1>3, <1>4
  <2>2. ParseLine = [status |-> "OPEN", checked |-> m_read_idx]
    BY <1>4 DEF ParseLine
  <2>3. ParseLine.status = "OPEN" /\ ParseLine.checked = m_read_idx
    BY <2>2
  <2>4. QED
    BY <1>1, <1>2, <1>3, <2>1, <2>3
<1>5. CASE LineEnd <= m_read_idx /\ LineEnd = m_read_idx
  <2>1. ParseLine = [status |-> "OPEN", checked |-> LineEnd - 1]
    BY <1>1, <1>2, <1>3, <1>5 DEF ParseLine, EndsBuffer
  <2>2. ParseLine.status = "OPEN" /\ ParseLine.checked = LineEnd - 1
    BY <2>1
  <2>3. QED
    BY <1>1, <1>2, <1>3, <1>5, <2>2
<1>6. CASE LineEnd <= m_read_idx /\ LineEnd # m_read_idx
  <2>1. ParseLine = [status |-> "OK", checked |-> LineEnd + 1]
    BY <1>1, <1>2, <1>3, <1>6 DEF ParseLine, EndsBuffer, AfterLineEnd
  <2>2. ParseLine.status = "OK" /\ ParseLine.checked = LineEnd + 1
    BY <2>1
  <2>3. QED
    BY <1>1, <1>2, <1>3, <1>6, <2>2
<1>7. QED
  BY <1>2, <1>3, <1>4, <1>5, <1>6

\* The line that is empty is the one that ends the head, and no other reaches its end.
LEMMA LineTaken ==
  ASSUME ParserTypeOK, HeadShape(wire, HeadLength), InLine, ParseLine.status = "OK"
  PROVE  /\ Text = "CR" /\ m_start_line > 0
              => ParseLine.checked = HeadLength /\ m_start_line = HeadLength - 2
         /\ Text # "CR" => ParseLine.checked <= HeadLength - 2
         /\ wire[ParseLine.checked] = "LF" /\ ParseLine.checked > 0
         /\ \A i \in (m_start_line + 2)..ParseLine.checked : ~LineStart(i)
<1> DEFINE p == LineEnd
           h == HeadLength
           start == m_start_line
<1>1. /\ \A i \in (start + 1)..(p - 1) : wire[i] \notin {"CR", "LF"}
      /\ p <= h - 1 /\ wire[p] = "CR" /\ wire[p + 1] = "LF"
      /\ ParseLine.checked = p + 1
  BY NextLineEnd, NextLine
<1>2. /\ h \in 4..Len(wire) /\ Len(wire) \in Nat
      /\ wire[h - 2] = "LF" /\ wire[h - 1] = "CR"
      /\ \A i \in 4..Len(wire) :
           wire[i - 3] = "CR" /\ wire[i - 2] = "LF" /\ wire[i - 1] = "CR" /\ wire[i] = "LF" => h <= i
      /\ \A i \in 1..h : wire[i] = "LF" => i > 1 /\ wire[i - 1] = "CR"
  BY WireType DEF HeadShape
<1>3. /\ start \in Nat /\ p \in Nat /\ p >= start + 1
  BY WireType, LineEndInBuffer
<1>4. start <= h - 2 /\ (start > 0 => wire[start] = "LF") /\ Text = wire[start + 1]
  BY DEF InLine, Text
<1> HIDE DEF p, h, start
<1>5. ASSUME wire[start + 1] = "CR", start > 0
      PROVE  p + 1 = h /\ start = h - 2
  <2>1. start + 1 \notin (start + 1)..(p - 1)
    BY <1>1, <1>5
  <2>2. p = start + 1
    BY <1>3, <2>1
  <2>3. start \in 1..h /\ wire[start] = "LF"
    BY <1>2, <1>3, <1>4, <1>5
  <2>4. start > 1 /\ wire[start - 1] = "CR"
    BY <1>2, <2>3
  <2>5. /\ start + 2 \in 4..Len(wire) \/ start = 1
        /\ (start + 2) - 3 = start - 1 /\ (start + 2) - 2 = start /\ (start + 2) - 1 = start + 1
        /\ p + 1 = start + 2
    BY <1>2, <1>3, <1>4, <2>2, <2>4
  <2>6. h <= start + 2
    BY <1>1, <1>2, <1>5, <2>2, <2>3, <2>4, <2>5
  <2>7. QED
    BY <1>2, <1>3, <1>4, <2>2, <2>6
<1>6. ASSUME wire[start + 1] # "CR"
      PROVE  p + 1 <= h - 2
  <2>1. p # h - 2
    BY <1>1, <1>2
  <2>2. ASSUME p = h - 1
        PROVE  FALSE
    <3>1. h - 2 \notin (start + 1)..(p - 1)
      BY <1>1, <1>2
    <3>2. start = h - 2
      BY <1>2, <1>3, <1>4, <2>2, <3>1
    <3>3. start + 1 = h - 1
      BY <1>2, <3>2
    <3>4. QED
      BY <1>2, <1>6, <3>3
  <2>3. QED
    BY <1>1, <1>2, <1>3, <2>1, <2>2
<1>7. ASSUME NEW i \in (start + 2)..(p + 1)
      PROVE  i # 1 /\ wire[i - 1] # "LF"
  <2>1. i - 1 \in (start + 1)..(p - 1) \/ i - 1 = p
    BY <1>3
  <2>2. i # 1
    BY <1>3
  <2>3. QED
    BY <1>1, <2>1, <2>2
<1>8. p + 1 > 0
  BY <1>3
<1>9. QED
  BY <1>1, <1>4, <1>5, <1>6, <1>7, <1>8 DEF LineStart, p, h, start

LEMMA ReadStep ==
  ASSUME RequestInv, NEW n \in 1..Len(wire), Read(n)
  PROVE  ReadingInv' /\ AcceptsWholeRequest'
<1>1. /\ pc = "read" /\ pc' = "parse"
      /\ UNCHANGED <<wire, m_checked_idx, m_start_line, m_check_state, m_content_length>>
  BY DEF Read
<1>2. HeadLength' = HeadLength /\ BodyLength' = BodyLength /\ LengthAhead' = LengthAhead
      /\ InLine' = InLine
  BY <1>1 DEF HeadLength, BodyLength, LengthAhead, LineStart, InLine
<1>3. QED
  BY <1>1, <1>2 DEF RequestInv, ReadingInv, AcceptsWholeRequest

LEMMA NoLineStep ==
  ASSUME RequestInv, HeadShape(wire, HeadLength), NoLine
  PROVE  ReadingInv' /\ AcceptsWholeRequest'
<1>1. /\ pc = "parse" /\ pc' = "read" /\ ParseLine.status # "OK"
      /\ m_checked_idx' = ParseLine.checked
      /\ UNCHANGED <<wire, m_read_idx, m_start_line, m_check_state, m_content_length>>
      /\ ParserInv /\ ParserTypeOK
  BY DEF NoLine, RequestInv, ParserInv
<1>2. HeadLength' = HeadLength /\ BodyLength' = BodyLength /\ LengthAhead' = LengthAhead
  BY <1>1 DEF HeadLength, BodyLength, LengthAhead, LineStart
<1>3. Len(wire) \in Nat /\ HeadLength \in 4..Len(wire) /\ m_read_idx \in Nat
  BY <1>1, WireType DEF HeadShape
<1>4. ASSUME InLine
      PROVE  InLine' /\ m_read_idx < Len(wire)
  <2>1. /\ \A i \in (m_start_line + 1)..(LineEnd - 1) : wire[i] \notin {"CR", "LF"}
        /\ ParseLine.checked <= LineEnd - 1 /\ m_read_idx < HeadLength
    BY <1>1, <1>4, NextLineEnd, NextLine
  <2>2. ParseLine.checked \in Nat /\ LineEnd \in Nat /\ m_start_line \in Nat
    BY <1>1, WireType, ParseLineInBuffer, LineEndInBuffer
  <2>3. \A i \in (m_start_line + 1)..ParseLine.checked : i \in (m_start_line + 1)..(LineEnd - 1)
    BY <2>1, <2>2
  <2>4. \A i \in (m_start_line + 1)..ParseLine.checked : wire[i] \notin {"CR", "LF"}
    BY <2>1, <2>3
  <2>5. InLine'
    BY <1>1, <1>2, <1>4, <2>4 DEF InLine
  <2>6. QED
    BY <1>3, <2>1, <2>5
<1>5. CASE m_check_state = "CONTENT"
  <2>1. m_content_length > 0 /\ m_content_length = BodyLength
    BY <1>1, <1>5 DEF RequestInv, ReadingInv, ParserInv
  <2>2. BodyLength # 0
    BY <2>1
  <2>3. QED
    BY <1>1, <1>2, <1>5, <2>1, <2>2 DEF RequestInv, ReadingInv, AcceptsWholeRequest
<1>6. CASE m_check_state # "CONTENT"
  BY <1>1, <1>2, <1>4, <1>6 DEF RequestInv, ReadingInv, AcceptsWholeRequest
<1>7. QED
  BY <1>5, <1>6

\* The lines of the head
LEMMA HeadLineStep ==
  ASSUME RequestInv, HeadShape(wire, HeadLength), RequestLine \/ Header \/ EmptyLine
  PROVE  ReadingInv' /\ AcceptsWholeRequest'
<1>1. /\ pc = "parse" /\ m_check_state \in {"REQUESTLINE", "HEADER"}
      /\ ParseLine.status = "OK"
      /\ m_checked_idx' = ParseLine.checked /\ m_start_line' = ParseLine.checked
      /\ UNCHANGED <<wire, m_read_idx>>
      /\ ParserInv /\ ParserTypeOK
  BY DEF RequestLine, Header, EmptyLine, Line, RequestInv, ParserInv
<1>2. /\ InLine /\ (LengthAhead \/ m_content_length = BodyLength)
      /\ m_check_state = "HEADER" => m_start_line > 0
  BY <1>1 DEF RequestInv, ReadingInv
<1>3. /\ Text = "CR" /\ m_start_line > 0
           => ParseLine.checked = HeadLength /\ m_start_line = HeadLength - 2
      /\ Text # "CR" => ParseLine.checked <= HeadLength - 2
      /\ wire[ParseLine.checked] = "LF" /\ ParseLine.checked > 0
      /\ \A i \in (m_start_line + 2)..ParseLine.checked : ~LineStart(i)
  BY <1>1, <1>2, LineTaken
<1>4. HeadLength' = HeadLength /\ BodyLength' = BodyLength
      /\ \A i : LineStart(i)' <=> LineStart(i)
  BY <1>1 DEF HeadLength, BodyLength, LineStart
<1>5. /\ Len(wire) \in Nat /\ HeadLength \in 4..Len(wire) /\ m_read_idx \in Nat
      /\ m_start_line \in Nat /\ m_read_idx <= Len(wire)
      /\ ParseLine.checked \in Nat /\ ParseLine.checked <= m_read_idx
      /\ ParseLine.checked > m_start_line
      /\ BodyLength = Len(wire) - HeadLength
      /\ wire[HeadLength - 1] = "CR" /\ wire[HeadLength] = "LF"
  BY <1>1, WireType, ParseLineInBuffer DEF HeadShape, BodyLength
<1>6. ASSUME Text # "CR"
      PROVE  InLine'
  <2>1. \A i \in (ParseLine.checked + 1)..ParseLine.checked : FALSE
    BY <1>5
  <2>2. QED
    BY <1>1, <1>3, <1>4, <1>6, <2>1 DEF InLine
<1>7. ASSUME LengthAhead, Text # "L"
      PROVE  LengthAhead'
  <2>1. PICK i \in (m_start_line + 1)..HeadLength : wire[i] = "L" /\ LineStart(i)
    BY <1>7 DEF LengthAhead
  <2>2. i # m_start_line + 1
    BY <1>7, <2>1 DEF Text
  <2>3. i \notin (m_start_line + 2)..ParseLine.checked
    BY <1>3, <2>1
  <2>4. i \in (ParseLine.checked + 1)..HeadLength
    BY <1>5, <2>1, <2>2, <2>3
  <2>5. QED
    BY <1>1, <1>4, <2>1, <2>4 DEF LengthAhead
<1>8. CASE RequestLine
  <2>1. /\ m_content_length' = m_content_length
        /\ \/ Text = "R" /\ m_check_state' = "HEADER" /\ pc' = "parse"
           \/ pc' = "BAD_REQUEST"
    BY <1>8 DEF RequestLine
  <2>2. CASE Text = "R" /\ m_check_state' = "HEADER" /\ pc' = "parse"
    <3>1. InLine' /\ (LengthAhead => LengthAhead')
      BY <1>6, <1>7, <2>2
    <3>2. QED
      BY <1>1, <1>2, <1>3, <1>4, <2>1, <2>2, <3>1 DEF ReadingInv, AcceptsWholeRequest
  <2>3. CASE pc' = "BAD_REQUEST"
    BY <2>3 DEF ReadingInv, AcceptsWholeRequest
  <2>4. QED
    BY <2>1, <2>2, <2>3
<1>9. CASE Header
  <2>1. /\ Text # "CR" /\ m_check_state' = "HEADER" /\ pc' = "parse"
        /\ m_content_length' = IF Text = "L" THEN BodyLength ELSE m_content_length
    BY <1>1, <1>9 DEF Header, Line
  <2>2. InLine'
    BY <1>6, <2>1
  <2>3. LengthAhead' \/ m_content_length' = BodyLength
    BY <1>2, <1>7, <2>1
  <2>4. QED
    BY <1>1, <1>3, <1>4, <2>1, <2>2, <2>3 DEF ReadingInv, AcceptsWholeRequest
<1>10. CASE EmptyLine
  <2>1. /\ Text = "CR" /\ m_check_state = "HEADER" /\ m_content_length' = m_content_length
        /\ \/ m_content_length # 0 /\ m_check_state' = "CONTENT" /\ pc' = "parse"
           \/ m_content_length = 0 /\ pc' = "GET_REQUEST"
    BY <1>10 DEF EmptyLine, Line
  <2>2. ParseLine.checked = HeadLength /\ m_start_line = HeadLength - 2
    BY <1>2, <1>3, <2>1
  <2>3. ~LengthAhead
    <3>1. \A i \in (m_start_line + 1)..HeadLength : i = HeadLength - 1 \/ i = HeadLength
      BY <1>5, <2>2
    <3>2. QED
      BY <1>5, <3>1 DEF LengthAhead
  <2>4. m_content_length = BodyLength
    BY <1>2, <2>3
  <2>5. CASE m_content_length # 0 /\ m_check_state' = "CONTENT" /\ pc' = "parse"
    <3>1. m_start_line' >= HeadLength
      BY <1>1, <1>5, <2>2
    <3>2. QED
      BY <1>4, <2>1, <2>4, <2>5, <3>1 DEF ReadingInv, AcceptsWholeRequest
  <2>6. CASE m_content_length = 0 /\ pc' = "GET_REQUEST"
    <3>1. m_read_idx = Len(wire)
      BY <1>5, <2>2, <2>4, <2>6
    <3>2. QED
      BY <1>1, <2>1, <2>6, <3>1 DEF ReadingInv, AcceptsWholeRequest
  <2>7. QED
    BY <2>1, <2>5, <2>6
<1>11. QED
  BY <1>8, <1>9, <1>10

LEMMA ContentStep ==
  ASSUME RequestInv, HeadShape(wire, HeadLength), Content
  PROVE  ReadingInv' /\ AcceptsWholeRequest'
<1>1. /\ pc = "parse" /\ m_check_state = "CONTENT" /\ m_check_state' = "CONTENT"
      /\ UNCHANGED <<wire, m_read_idx, m_content_length>>
      /\ m_start_line' = m_checked_idx'
      /\ ParserInv /\ ParserTypeOK
  BY DEF Content, RequestInv, ParserInv
<1>2. m_start_line >= HeadLength /\ m_content_length = BodyLength
  BY <1>1 DEF RequestInv, ReadingInv
<1>3. PICK c \in m_checked_idx..m_read_idx : m_checked_idx' = c
  <2>1. m_checked_idx \in m_checked_idx..m_read_idx
    BY <1>1, WireType
  <2>2. QED
    BY <1>1, <2>1, ParseLineInBuffer DEF Content
<1>4. HeadLength' = HeadLength /\ BodyLength' = BodyLength
  BY <1>1 DEF HeadLength, BodyLength
<1>5. /\ Len(wire) \in Nat /\ HeadLength \in 4..Len(wire) /\ m_read_idx \in Nat
      /\ m_start_line \in Nat /\ m_checked_idx \in Nat /\ m_read_idx <= Len(wire)
      /\ m_start_line <= m_checked_idx
      /\ BodyLength = Len(wire) - HeadLength
  BY <1>1, WireType DEF HeadShape, BodyLength
<1>6. m_start_line' >= HeadLength
  BY <1>1, <1>2, <1>3, <1>5
<1>7. CASE BodyRead(c)
  <2>1. pc' = "GET_REQUEST" /\ m_string' = m_start_line + 1
    BY <1>3, <1>7 DEF Content
  <2>2. m_read_idx >= BodyLength + c
    BY <1>2, <1>7 DEF BodyRead
  <2>3. m_read_idx = Len(wire) /\ m_start_line = HeadLength
    BY <1>2, <1>3, <1>5, <2>2
  <2>4. QED
    BY <1>1, <1>4, <2>1, <2>3 DEF ReadingInv, AcceptsWholeRequest
<1>8. CASE ~BodyRead(c)
  <2>1. pc' = "parse"
    BY <1>1, <1>3, <1>8 DEF Content
  <2>2. QED
    BY <1>1, <1>2, <1>4, <1>6, <2>1 DEF ReadingInv, AcceptsWholeRequest
<1>9. QED
  BY <1>7, <1>8

LEMMA RequestInitially == Init => RequestInv
<1> SUFFICES ASSUME Init
             PROVE  RequestInv
  OBVIOUS
<1>1. ParserInv
  BY ConnInitially DEF ConnInv
<1>2. QED
  BY <1>1 DEF Init, RequestInv, ReadingInv, AcceptsWholeRequest

LEMMA RequestStep ==
  ASSUME ProperRequests, RequestInv, [Next]_vars
  PROVE  RequestInv'
<1>1. ParserInv /\ ParserInv' /\ wire \in Requests /\ HeadShape(wire, HeadLength)
  BY ParserKept, HeadIsShaped DEF RequestInv, ParserInv, ParserTypeOK, HeadLength
<1>2. ASSUME UNCHANGED parserVars, pc' \in {"armed", "writing", "closed", "BAD_REQUEST"}
      PROVE  RequestInv'
  BY <1>1, <1>2 DEF parserVars, RequestInv, ReadingInv, AcceptsWholeRequest
<1>3. ASSUME InitConn, pc' = "idle"
      PROVE  RequestInv'
  BY <1>1, <1>3 DEF RequestInv, ReadingInv, AcceptsWholeRequest
<1>4. CASE Request
  <2>1. ParserInv'
    BY <1>1
  <2>2. /\ pc' = "read" /\ wire' \in Requests
        /\ m_read_idx' = 0 /\ m_checked_idx' = 0 /\ m_start_line' = 0
        /\ m_check_state' = "REQUESTLINE" /\ m_content_length' = 0
    BY <1>1, <1>4 DEF Request, ParserInv, IdleIsReset
  <2>3. HeadShape(wire', HeadLength') /\ ProperRequest(wire')
    BY <2>2, HeadIsShaped DEF HeadLength, ProperRequests
  <2>4. Len(wire') \in Nat /\ HeadLength' \in 4..Len(wire')
    BY <2>1, <2>2, <2>3, ConnAssumption, LenProperties DEF HeadShape, ConnAssumption
  <2>5. InLine'
    <3>1. \A i \in (0 + 1)..0 : FALSE
      OBVIOUS
    <3>2. 0 <= HeadLength' - 2
      <4>1. \A n \in Nat : \A h \in 4..n : 0 <= h - 2
        OBVIOUS
      <4>2. QED
        BY <2>4, <4>1, Zenon
    <3>3. QED
      BY <2>2, <3>1, <3>2 DEF InLine
  <2>6. LengthAhead' \/ m_content_length' = BodyLength'
    <3>1. BodyLength' = Len(wire') - HeadLength'
      BY DEF BodyLength
    <3>2. CASE Len(wire') > HeadLength'
      <4>1. PICK i \in 1..HeadLength' : wire'[i] = "L" /\ (i = 1 \/ wire'[i - 1] = "LF")
        BY <2>3, <3>2 DEF ProperRequest, HeadLength
      <4>2. QED
        BY <2>2, <4>1 DEF LengthAhead, LineStart
    <3>3. CASE ~(Len(wire') > HeadLength')
      BY <2>2, <2>4, <3>1, <3>3
    <3>4. QED
      BY <3>2, <3>3
  <2>7. m_read_idx' < Len(wire')
    BY <2>2, <2>4
  <2>8. QED
    BY <2>1, <2>2, <2>5, <2>6, <2>7 DEF RequestInv, ReadingInv, AcceptsWholeRequest
<1>5. CASE Parse
  <2>1. ReadingInv' /\ AcceptsWholeRequest'
    BY <1>1, <1>5, ReadStep, NoLineStep, HeadLineStep, ContentStep DEF Parse, ReadRequest
  <2>2. QED
    BY <1>1, <2>1 DEF RequestInv
<1>6. CASE Send
  <2>1. CASE \/ \E b \in BufferSizes : \/ RespondError(b) \/ RespondEmpty(b)
                                      \/ \E f \in FileSizes : RespondFile(b, f)
             \/ Write \/ WritevFails
    BY <1>2, <2>1 DEF RespondError, RespondFile, MapFile, Respond, RespondEmpty, Write, WritevFails,
                      FailedWritev
  <2>2. ASSUME NEW k \in 1..Len(Offered), WritePart(k) \/ WriteClose(k)
        PROVE  RequestInv'
    BY <1>2, <2>2 DEF WritePart, WriteClose, Writev, Progress
  <2>3. ASSUME NEW k \in 1..Len(Offered), WriteKeep(k)
        PROVE  RequestInv'
    BY <1>3, <2>3 DEF WriteKeep
  <2>4. QED
    BY <1>6, <2>1, <2>2, <2>3 DEF Send, SendResponse
<1>7. CASE Abort
  BY <1>2, <1>7 DEF Abort
<1>8. CASE Reopen
  BY <1>3, <1>8 DEF Reopen
<1>9. CASE UNCHANGED vars
  <2>1. UNCHANGED <<pc, wire, m_read_idx, m_checked_idx, m_start_line, m_check_state,
                    m_content_length, m_linger, line_status, m_string>>
    BY <1>9 DEF vars, parserVars
  <2>2. HeadLength' = HeadLength /\ BodyLength' = BodyLength /\ LengthAhead' = LengthAhead
        /\ InLine' = InLine
    BY <2>1 DEF HeadLength, BodyLength, LengthAhead, LineStart, InLine
  <2>3. QED
    BY <1>1, <2>1, <2>2 DEF RequestInv, ReadingInv, AcceptsWholeRequest
<1>10. QED
  BY <1>4, <1>5, <1>6, <1>7, <1>8, <1>9 DEF Next

LEMMA RequestInvariant ==
  ASSUME ProperRequests
  PROVE  Spec => []RequestInv
<1>1. Init => RequestInv
  BY RequestInitially
<1>2. RequestInv /\ [Next]_vars => RequestInv'
  BY RequestStep
<1>3. QED
  BY <1>1, <1>2, PTL DEF Spec

-----------------------------------------------------------------------------
(* Theorems *)

\* Every variable of the connection stays in its type; in particular the three indexes
\* of the parser stay in order and within the bytes that were read.
THEOREM ConnTypeCorrect ==
  ASSUME WholeHeader
  PROVE  Spec => []TypeOK
<1>1. ConnInv => TypeOK
  BY DEF ConnInv
<1>2. QED
  BY <1>1, ConnInvariant, PTL

\* parse_line() leaves m_start_line right after a line end, however the request was cut
\* into reads.
THEOREM EveryLineStartsAfterALine == Spec => []LineStartsAfterLine
<1>1. ParserInv => LineStartsAfterLine
  BY DEF ParserInv
<1>2. QED
  BY <1>1, LifeInvariant, PTL

\* If writev() never splits the header, what write() sends is a beginning of the
\* response, whatever part of the file the kernel takes each time.
THEOREM ClientReceivesPrefix ==
  ASSUME WholeHeader
  PROVE  Spec => []SentIsPrefix
<1>1. ConnInv => SentIsPrefix
  BY PrefixSent
<1>2. QED
  BY <1>1, ConnInvariant, PTL

\* write() calls init() for the next request only when the response was sent whole.
THEOREM IdleOwesNothing ==
  ASSUME WholeHeader
  PROVE  Spec => []IdleMeansComplete
<1>1. ConnInv => IdleMeansComplete
  BY DEF ConnInv, WriterInv, IdleMeansComplete
<1>2. QED
  BY <1>1, ConnInvariant, PTL

\* While write() has some of a file to send, do_request()'s mapping of it is there, with
\* the size that unmap() takes; without it only the header leaves.
THEOREM FileStaysMapped ==
  ASSUME WholeHeader
  PROVE  Spec => []FileMapped
<1>1. ASSUME ConnInv
      PROVE  FileMapped
  <2> SUFFICES ASSUME pc \in {"armed", "writing"}, m_iv_count = 2
               PROVE  \/ m_file_address = st_size /\ st_size = Len(wanted) - m_write_idx
                      \/ m_file_address = MapFailed /\ Len(sent) <= m_write_idx
    BY DEF FileMapped
  <2>1. /\ bytes_have_send \in Nat /\ bytes_to_send \in Nat
        /\ m_write_idx \in Nat /\ st_size \in Nat
        /\ Sending(bytes_have_send, bytes_to_send)
    BY <1>1 DEF ConnInv, WriterInv, WriterTypeOK
  <2>2. /\ bytes_have_send + bytes_to_send = m_write_idx + st_size
        /\ MappedOrUnsent(bytes_have_send)
        /\ wanted = UpTo(bytes_have_send + bytes_to_send) /\ sent = UpTo(bytes_have_send)
    BY <2>1 DEF Sending
  <2>3. Len(wanted) = m_write_idx + st_size /\ Len(sent) = bytes_have_send
    BY <2>1, <2>2, UpToIsSequence
  <2>4. QED
    BY <2>1, <2>2, <2>3 DEF MappedOrUnsent
<1>2. ConnInv => FileMapped
  BY <1>1
<1>3. QED
  BY <1>2, ConnInvariant, PTL

\* unmap() is called for every file that a kept connection was sent.
THEOREM EveryMappingIsReleased == Spec => []MappingReleased
<1>1. MappingInv => MappingReleased
  BY DEF MappingInv, NoResponse, MappingReleased
<1>2. QED
  BY <1>1, LifeInvariant, PTL

\* init() makes http_conn forget that an earlier request asked to keep the connection.
THEOREM KeptForThisRequest == Spec => KeptOnlyIfAsked
<1>1. ASSUME ParserInv, [Next]_vars, pc = "writing", pc' = "idle"
      PROVE  Asked
  <2>1. m_linger
    <3>1. \E k \in 1..Len(Offered) : WriteKeep(k)
      BY <1>1 DEF Next, Request, Parse, Send, Abort, Reopen, SendResponse, RespondError,
                  RespondFile, RespondEmpty, Write, WritePart, WriteClose, WritevFails,
                  FailedWritev, Writev, vars
    <3>2. QED
      BY <3>1 DEF WriteKeep
  <2>2. QED
    BY <1>1, <2>1 DEF ParserInv
<1>2. ParserInv /\ [Next]_vars =>
        [pc = "writing" /\ pc' = "idle" => \E i \in DOMAIN wire : wire[i] = "K"]_vars
  BY <1>1 DEF Asked
<1>3. QED
  BY <1>2, LifeInvariant, PTL DEF Spec, KeptOnlyIfAsked

\* However a browser's request is cut into reads, process_read() accepts it when it is
\* all there and not before, and parse_content() finds the body right after the head;
\* neither the requests before it on this http_conn nor the end of the buffer matter.
THEOREM OnlyWholeRequestsAreAccepted ==
  ASSUME ProperRequests
  PROVE  Spec => []AcceptsWholeRequest
<1>1. RequestInv => AcceptsWholeRequest
  BY DEF RequestInv
<1>2. QED
  BY <1>1, RequestInvariant, PTL

\* With all of a request without a body read, process_read() does not wait for more.
THEOREM RequestWithoutBodyIsAnswered ==
  ASSUME ProperRequests
  PROVE  Spec => []AnswersWithoutBody
<1>1. ASSUME RequestInv
      PROVE  AnswersWithoutBody
  <2>1. m_read_idx \in Nat /\ Len(wire) \in Nat
    BY <1>1, WireType DEF RequestInv, ParserInv
  <2>2. pc = "read" /\ BodyLength = 0 => m_read_idx < Len(wire)
    BY <1>1 DEF RequestInv, ReadingInv
  <2>3. QED
    BY <2>1, <2>2 DEF AnswersWithoutBody
<1>2. RequestInv => AnswersWithoutBody
  BY <1>1
<1>3. QED
  BY <1>2, RequestInvariant, PTL
=============================================================================
