------------------------------ MODULE HttpConn ------------------------------
(***************************************************************************)
(* The life of one http_conn, request by request and connection by         *)
(* connection: RequestParser's read() and process_read() until there is an *)
(* answer, ResponseWriter's process_write() and write() until it is sent,  *)
(* and init(), which makes the object ready for the next request or the    *)
(* next connection.  Reactor has the threads that call it.                 *)
(*                                                                         *)
(* The client sends its next request after it has the response to the last.*)
(***************************************************************************)
EXTENDS ResponseWriter

ASSUME ConnAssumption ==
  /\ Requests \subseteq Seq(Byte)
  /\ \A r \in Requests : EndsOfHead(r) # {}
  /\ READ_BUFFER_SIZE \in Nat \ {0}
  /\ BufferSizes \subseteq Nat \ {0} /\ FileSizes \subseteq Nat \ {0}
  /\ WholeHeader \in BOOLEAN

\* A request as a browser sends it: in its head lines end with CR LF and with nothing else,
\* and if there is a body, a header Content-Length says so.
ProperRequest(r) ==
  LET head == Min(EndsOfHead(r))
  IN  /\ \A i \in 1..head : r[i] = "CR" => r[i + 1] = "LF"
      /\ \A i \in 1..head : r[i] = "LF" => i > 1 /\ r[i - 1] = "CR"
      /\ Len(r) > head => \E i \in 1..head : r[i] = "L" /\ (i = 1 \/ r[i - 1] = "LF")

ProperRequests == \A r \in Requests : ProperRequest(r)

VARIABLE stale  \* was the file mapped for a connection that is gone?

vars == <<pc, parserVars, writerVars, stale>>

TypeOK ==
  /\ pc \in {"idle", "read", "parse", "GET_REQUEST", "BAD_REQUEST", "armed", "writing", "closed"}
  /\ ParserTypeOK
  /\ WriterTypeOK
  /\ stale \in BOOLEAN

\* users[] is one huge allocation, so what init() leaves alone starts as 0.
Init ==
  /\ pc = "idle"
  /\ wire \in Requests
  /\ m_read_idx = 0 /\ m_checked_idx = 0 /\ m_start_line = 0
  /\ m_check_state = "REQUESTLINE" /\ m_content_length = 0 /\ m_linger = FALSE
  /\ line_status = "OK" /\ m_string = 0
  /\ m_write_idx = 0 /\ st_size = 0
  /\ m_iv = [i \in 1..2 |-> [base |-> 0, len |-> 0]] /\ m_iv_count = 1
  /\ bytes_to_send = 0 /\ bytes_have_send = 0
  /\ m_file_address = 0 /\ stale = FALSE
  /\ wanted = <<>> /\ sent = <<>> /\ error = "none"

\* The client begins a request.
Request ==
  /\ pc = "idle"
  /\ pc' = "read"
  /\ wire' \in Requests
  /\ wanted' = <<>> /\ sent' = <<>> /\ error' = "none"
  /\ UNCHANGED <<m_read_idx, m_checked_idx, m_start_line, m_check_state, m_content_length,
                 m_linger, line_status, m_string, m_write_idx, st_size, m_iv, m_iv_count,
                 progress, m_file_address, stale>>

Parse == pc \in {"read", "parse"} /\ ReadRequest /\ UNCHANGED <<writerVars, stale>>

\* unmap(), or the mapping of another file, makes a stale mapping unknown.
Send == SendResponse /\ stale' = (stale /\ m_file_address' = m_file_address)

\* read() fails, because the client is gone or the buffer is full; or EPOLLHUP comes, or
\* the timer expires, with a response unsent: nobody calls unmap().
Abort ==
  /\ pc \in {"idle", "read", "armed"}
  /\ pc' = "closed"
  /\ UNCHANGED <<parserVars, writerVars, stale>>

\* The descriptor is accepted again, and with it this http_conn.
Reopen ==
  /\ pc = "closed"
  /\ pc' = "idle"
  /\ wanted' = <<>> /\ sent' = <<>> /\ error' = "none"
  /\ stale' = (m_file_address # 0)
  /\ InitConn
  /\ UNCHANGED <<m_iv, m_file_address>>

Next == Request \/ Parse \/ Send \/ Abort \/ Reopen

Spec == Init /\ [][Next]_vars

-----------------------------------------------------------------------------
(* Properties *)

\* A connection is kept only for a request that asked to keep it, whatever the requests
\* before it on this connection or this http_conn asked.
KeptOnlyIfAsked ==
  [][pc = "writing" /\ pc' = "idle" => \E i \in DOMAIN wire : wire[i] = "K"]_vars

\* A connection that waits for a request, or reads one, holds no file of its own: only
\* an aborted response leaves one mapped, for the next connection of the http_conn.
MappingReleased == pc \in {"idle", "read", "parse"} /\ ~stale => m_file_address = 0
=============================================================================
