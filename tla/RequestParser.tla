---------------------------- MODULE RequestParser ---------------------------
(***************************************************************************)
(* How one http_conn takes a request apart (http_conn/http_conn.cpp):      *)
(* read() adds what has arrived to m_read_buf, and process_read() goes     *)
(* line by line through it with its two state machines, to stop in the     *)
(* middle of a line or of the body and to be called again after the next   *)
(* read().  HttpConn puts it together with ResponseWriter.                 *)
(*                                                                         *)
(* A byte is CR, LF, or a letter that stands for a text without line ends: *)
(* "R" a request line, "B" a bad one, "H" a header, "K" the header that    *)
(* asks to keep the connection, "L" the header Content-Length with the     *)
(* length of the body, "d" a byte of the body.  Positions count from 1, so *)
(* an index names the byte before it.                                      *)
(***************************************************************************)
EXTENDS Integers, Sequences, FiniteSetsExt

CONSTANTS
  Requests,         \* bound: the requests a client may send, as sequences of bytes
  READ_BUFFER_SIZE

Byte == {"CR", "LF", "R", "B", "H", "K", "L", "d"}

VARIABLES
  pc,               \* where the connection is; here "read", "parse", or an answer
  wire,             \* the request the client is sending
  m_read_idx,       \* bytes read
  m_checked_idx,    \* bytes looked at
  m_start_line,     \* where the line being read starts
  m_check_state,
  m_content_length,
  m_linger,
  line_status,
  m_string          \* where parse_content() found a body, or 0

parserVars == <<wire, m_read_idx, m_checked_idx, m_start_line, m_check_state,
                m_content_length, m_linger, line_status, m_string>>

ParserTypeOK ==
  /\ wire \in Requests
  /\ m_read_idx \in 0..READ_BUFFER_SIZE /\ m_read_idx <= Len(wire)
  /\ m_checked_idx \in 0..m_read_idx
  /\ m_start_line \in 0..m_checked_idx
  /\ m_check_state \in {"REQUESTLINE", "HEADER", "CONTENT"}
  /\ m_content_length \in 0..Len(wire)
  /\ m_linger \in BOOLEAN
  /\ line_status \in {"OK", "BAD", "OPEN"}
  /\ m_string \in 0..READ_BUFFER_SIZE

-----------------------------------------------------------------------------
\* The first CR or LF among the bytes read and not looked at, or m_read_idx + 1.
LineEnd ==
  LET ends == {i \in (m_checked_idx + 1)..m_read_idx : wire[i] \in {"CR", "LF"}}
  IN  IF ends = {} THEN m_read_idx + 1 ELSE Min(ends)

\* A bug to catch: the last byte read is not told from one that is not read yet.
EndsBuffer_Never(p) == p = 0

EndsBuffer(p) == p = m_read_idx

\* A bug to catch: the LF is left for the next line.
AfterLineEnd_KeepLf(p) == p

AfterLineEnd(p) == p + 1

\* parse_line(): its answer, and the m_checked_idx it leaves.  A CR that ends the
\* buffer is looked at again.
ParseLine ==
  LET p == LineEnd
      open(i) == [status |-> "OPEN", checked |-> i]
      ok(i) == [status |-> "OK", checked |-> i]
      bad == [status |-> "BAD", checked |-> p - 1]
  IN  IF p > m_read_idx THEN open(m_read_idx)
      ELSE IF wire[p] = "CR"
      THEN IF EndsBuffer(p) THEN open(p - 1)
           ELSE IF wire[p + 1] = "LF" THEN ok(AfterLineEnd(p)) ELSE bad
      ELSE IF p > 2 /\ wire[p - 1] = "CR" THEN ok(p) ELSE bad

\* read(): some more of the request, as far as the buffer goes; and then process()
\* calls process_read().
Read(n) ==
  /\ pc = "read"
  /\ n \in (m_read_idx + 1)..Len(wire)
  /\ n <= READ_BUFFER_SIZE
  /\ m_read_idx' = n
  /\ line_status' = "OK"
  /\ pc' = "parse"
  /\ UNCHANGED <<wire, m_checked_idx, m_start_line, m_check_state, m_content_length,
                 m_linger, m_string>>

\* The loop reads lines unless it is in the body and has not failed to complete it.
InBody == m_check_state = "CONTENT" /\ line_status = "OK"

\* No complete line: NO_REQUEST, for a line that is BAD too.
NoLine ==
  /\ pc = "parse" /\ ~InBody
  /\ ParseLine.status # "OK"
  /\ line_status' = ParseLine.status
  /\ m_checked_idx' = ParseLine.checked
  /\ pc' = "read"
  /\ UNCHANGED <<wire, m_read_idx, m_start_line, m_check_state, m_content_length,
                 m_linger, m_string>>

\* The next line: get_line() is where the last one ended.
Line(state) ==
  /\ pc = "parse" /\ ~InBody
  /\ m_check_state = state
  /\ ParseLine.status = "OK"
  /\ line_status' = "OK"
  /\ m_checked_idx' = ParseLine.checked
  /\ m_start_line' = m_checked_idx'
  /\ UNCHANGED <<wire, m_read_idx, m_string>>

\* The text that get_line() starts: parse_line() replaced the line end by zeros.
Text == wire[m_start_line + 1]

\* parse_request_line()
RequestLine ==
  /\ Line("REQUESTLINE")
  /\ IF Text = "R" THEN m_check_state' = "HEADER" /\ pc' = "parse"
                   ELSE pc' = "BAD_REQUEST" /\ UNCHANGED m_check_state
  /\ UNCHANGED <<m_content_length, m_linger>>

\* The head ends with the first empty line; what follows is the body, and
\* Content-Length tells its length.
EndsOfHead(request) ==
  {i \in 4..Len(request) : SubSeq(request, i - 3, i) = <<"CR", "LF", "CR", "LF">>}
HeadLength == Min(EndsOfHead(wire))
BodyLength == Len(wire) - HeadLength

\* parse_headers(): a header
Header ==
  /\ Line("HEADER")
  /\ Text # "CR"
  /\ m_content_length' = IF Text = "L" THEN BodyLength ELSE m_content_length
  /\ m_linger' = (m_linger \/ Text = "K")
  /\ UNCHANGED <<m_check_state, pc>>

\* parse_headers(): the empty line
EmptyLine ==
  /\ Line("HEADER")
  /\ Text = "CR"
  /\ IF m_content_length # 0 THEN m_check_state' = "CONTENT" /\ pc' = "parse"
                             ELSE pc' = "GET_REQUEST" /\ UNCHANGED m_check_state
  /\ UNCHANGED <<m_content_length, m_linger>>

\* A bug to catch: the body is taken for complete one byte early.
BodyRead_Early(from) == m_read_idx + 1 >= m_content_length + from

BodyRead(from) == m_read_idx >= m_content_length + from

\* parse_content().  If the body is not all there, parse_line() looks for a line in
\* it, and the length is counted from where that leaves m_checked_idx.
Content ==
  /\ pc = "parse"
  /\ m_check_state = "CONTENT"
  /\ \/ InBody /\ UNCHANGED m_checked_idx
     \/ ~InBody /\ ParseLine.status = "OK" /\ m_checked_idx' = ParseLine.checked
  /\ m_start_line' = m_checked_idx'
  /\ IF BodyRead(m_checked_idx')
     THEN pc' = "GET_REQUEST" /\ m_string' = m_start_line + 1 /\ line_status' = "OK"
     ELSE line_status' = "OPEN" /\ UNCHANGED <<pc, m_string>>
  /\ UNCHANGED <<wire, m_read_idx, m_check_state, m_content_length, m_linger>>

\* read() and process_read()
ReadRequest ==
  \/ \E n \in 1..Len(wire) : Read(n)
  \/ NoLine
  \/ RequestLine \/ Header \/ EmptyLine
  \/ Content

-----------------------------------------------------------------------------
(* Properties *)

\* However the request was cut into reads, it is accepted when it is all there and
\* not before, and the body is found where it is: nothing of the request before it on
\* this http_conn, nor the end of the buffer, makes a difference.
AcceptsWholeRequest ==
  pc = "GET_REQUEST" =>
    /\ m_read_idx = Len(wire)
    /\ m_content_length > 0 => m_string = HeadLength + 1

\* However the request was cut into reads, each line but the last is parsed once:
\* the line being read starts right after a line end.
LineStartsAfterLine ==
  m_check_state # "CONTENT" /\ m_start_line > 0 => wire[m_start_line] = "LF"

\* A request without a body, once it is all read, is answered by the process_read()
\* call that follows.
AnswersWithoutBody == BodyLength = 0 /\ m_read_idx = Len(wire) => pc # "read"

\* parse_content() judges whether the body was read in: with all of it there, the
\* request is complete.
AnswersWithBody == m_read_idx = Len(wire) => pc # "read"
=============================================================================
