--------------------------- MODULE ResponseWriter ---------------------------
(***************************************************************************)
(* How one http_conn sends its response (http_conn/http_conn.cpp):         *)
(* do_request() maps a file, process_write() lays the response out in the  *)
(* two blocks of m_iv, the write buffer and the mapping, and write() hands *)
(* them to writev() until everything is sent, whatever part of them the    *)
(* kernel takes each time.                                                 *)
(*                                                                         *)
(* A byte of the response is its position, 1 to m_write_idx in the write   *)
(* buffer and on from there in the file; 0 stands for memory beyond them.  *)
(***************************************************************************)
EXTENDS RequestParser, SequencesExt

CONSTANTS
  BufferSizes,  \* bound: lengths of what process_write() puts in m_write_buf
  FileSizes,    \* bound: sizes of the files that are not empty
  WholeHeader   \* does writev() always take all that is left of the write buffer?

VARIABLES
  m_write_idx,
  st_size,          \* m_file_stat.st_size
  m_iv, m_iv_count, \* a block is an offset and a length
  bytes_to_send, bytes_have_send,
  m_file_address,   \* the size of the mapping it points to, MapFailed, or 0
  wanted,           \* the response
  sent,             \* what the kernel has taken of it
  error             \* the error of the last writev(), if it failed

progress == <<bytes_to_send, bytes_have_send>>
layout == <<m_write_idx, st_size, m_iv, m_iv_count, wanted>>
writerVars == <<layout, progress, m_file_address, sent, error>>

MapFailed == -1
Block == [base : Int, len : Int]

\* No room in the socket, the client is gone, or memory that cannot be read
WritevErrors == {"EAGAIN", "EPIPE", "EFAULT"}

WriterTypeOK ==
  /\ m_write_idx \in Nat /\ st_size \in Nat
  /\ m_iv \in [1..2 -> Block] /\ m_iv_count \in 1..2
  /\ bytes_to_send \in Nat /\ bytes_have_send \in Nat
  /\ m_file_address \in FileSizes \cup {0, MapFailed}
  /\ wanted \in Seq(Nat) /\ sent \in Seq(Nat)
  /\ error \in {"none"} \cup WritevErrors

\* The memory of a block: the write buffer, and the mapping of the file.
BufferBytes(b) == [i \in 1..b.len |-> IF b.base + i <= m_write_idx THEN b.base + i ELSE 0]
FileBytes(b) ==
  [i \in 1..b.len |-> IF b.base + i \in 1..st_size THEN m_write_idx + b.base + i ELSE 0]

\* Where nothing is mapped writev() finds nothing to send.
Readable == m_iv_count = 2 /\ m_file_address \notin {0, MapFailed}

\* What writev() is given.
Offered == BufferBytes(m_iv[1]) \o IF Readable THEN FileBytes(m_iv[2]) ELSE <<>>

-----------------------------------------------------------------------------
\* A bug to catch: the connection is kept for good once a request asked for it.
ForgetLinger_Not == UNCHANGED m_linger

ForgetLinger == m_linger' = FALSE

\* A bug to catch: the next request is waited for with the length of this one's body.
ForgetBody_Not == UNCHANGED m_content_length

ForgetBody == m_content_length' = 0

\* init(): m_string, m_file_stat and m_iv_count are as the last request left them.
InitConn ==
  /\ bytes_to_send' = 0 /\ bytes_have_send' = 0
  /\ m_check_state' = "REQUESTLINE"
  /\ ForgetLinger
  /\ ForgetBody
  /\ m_start_line' = 0 /\ m_checked_idx' = 0 /\ m_read_idx' = 0
  /\ m_write_idx' = 0
  /\ UNCHANGED <<wire, line_status, m_string, st_size, m_iv_count>>

\* add_response() appends b bytes to the write buffer.
AddResponse(b) == m_write_idx' = m_write_idx + b

\* A response of b bytes from the write buffer and f of a file, to be sent on EPOLLOUT
Respond(b, f) ==
  /\ pc' = "armed"
  /\ AddResponse(b)
  /\ bytes_to_send' = m_write_idx' + f
  /\ wanted' = [i \in 1..(b + f) |-> m_write_idx + i]
  /\ UNCHANGED <<parserVars, bytes_have_send, sent, error>>

\* do_request() opens and maps a file of f bytes.  It looks at the result of neither open()
\* nor mmap().
MapFile(f) == st_size' = f /\ m_file_address' \in {f, MapFailed}

\* process_write(FILE_REQUEST) promises the file also when it is not there.
RespondFile(b, f) ==
  /\ pc = "GET_REQUEST"
  /\ MapFile(f)
  /\ Respond(b, f)
  /\ m_iv' = [m_iv EXCEPT ![1] = [base |-> 0, len |-> m_write_idx'],
                          ![2] = [base |-> 0, len |-> f]]
  /\ m_iv_count' = 2

\* An empty file cannot be mapped, and process_write() falls through to its default:
\* the worker closes the connection.
RespondEmpty(b) ==
  /\ pc = "GET_REQUEST"
  /\ pc' = "closed"
  /\ AddResponse(b)
  /\ st_size' = 0
  /\ m_file_address' = MapFailed
  /\ UNCHANGED <<parserVars, m_iv, m_iv_count, wanted, progress, sent, error>>

\* process_write() of an error page: one block, the second one and the mapping stay.
\* do_request() may have looked at a file it then refuses to send.
RespondError(b) ==
  /\ \/ pc = "BAD_REQUEST" /\ UNCHANGED st_size
     \/ pc = "GET_REQUEST" /\ st_size' \in FileSizes \cup {st_size}
  /\ Respond(b, 0)
  /\ m_iv' = [m_iv EXCEPT ![1] = [base |-> 0, len |-> m_write_idx']]
  /\ m_iv_count' = 1
  /\ UNCHANGED m_file_address

\* EPOLLOUT: write() is called.
Write ==
  /\ pc = "armed"
  /\ pc' = "writing"
  /\ UNCHANGED <<parserVars, writerVars>>

\* A bug to catch: the offset in the file forgets the write buffer.
FileBlock_NoOffset(have, left) == [base |-> have, len |-> left]

FileBlock(have, left) == [base |-> have - m_write_idx, len |-> left]

\* The blocks after 'have' bytes of the response were taken and 'left' are left.
Advance(have, left) ==
  IF have >= m_iv[1].len
  THEN [m_iv EXCEPT ![1].len = 0, ![2] = FileBlock(have, left)]
  ELSE [m_iv EXCEPT ![1].base = have, ![2].len = m_iv[1].len - have]

\* writev() takes the first k of the bytes it is given.
Writev(k) ==
  /\ pc = "writing"
  /\ k \in 1..Len(Offered)
  /\ WholeHeader => k >= m_iv[1].len
  /\ sent' = sent \o SubSeq(Offered, 1, k)
  /\ m_iv' = Advance(bytes_have_send + k, bytes_to_send - k)
  /\ error' = "none"

Progress(k) ==
  /\ bytes_to_send' = bytes_to_send - k
  /\ bytes_have_send' = bytes_have_send + k
  /\ UNCHANGED <<parserVars, m_write_idx, st_size, m_iv_count, wanted>>

\* Some of the response is left: the loop goes on.
WritePart(k) ==
  /\ Writev(k)
  /\ k < bytes_to_send
  /\ Progress(k)
  /\ UNCHANGED <<pc, m_file_address>>

\* A bug to catch: the file of a response that was sent stays mapped.
Unmap_Not == UNCHANGED m_file_address

Unmap == m_file_address' = 0

\* All is sent on a connection to close: unmap(), and the caller closes it.
WriteClose(k) ==
  /\ Writev(k)
  /\ k >= bytes_to_send /\ ~m_linger
  /\ Progress(k)
  /\ Unmap
  /\ pc' = "closed"

\* All is sent on a connection to keep: unmap(), init().
WriteKeep(k) ==
  /\ Writev(k)
  /\ k >= bytes_to_send /\ m_linger
  /\ Unmap
  /\ InitConn
  /\ pc' = "idle"
  /\ UNCHANGED wanted

\* A bug to catch: a failed writev() ends the response as a success does.
FailedWritev_Ends == pc' = "idle" /\ Unmap /\ InitConn /\ UNCHANGED wanted

\* A bug to catch: unmap() whatever the error.
FailedWritev_Unmaps ==
  pc' = "armed" /\ Unmap /\ UNCHANGED <<parserVars, m_write_idx, st_size, m_iv_count, wanted, progress>>

FailedWritev ==
  /\ pc' = "armed"
  /\ UNCHANGED <<parserVars, m_write_idx, st_size, m_iv_count, wanted, progress, m_file_address>>

\* writev() fails.  The test is 'errno = EAGAIN', an assignment: the connection waits
\* for EPOLLOUT whatever the error.
WritevFails ==
  /\ pc = "writing"
  /\ error' \in WritevErrors
  /\ FailedWritev
  /\ UNCHANGED <<m_iv, sent>>

\* process_write() and write()
SendResponse ==
  \/ \E b \in BufferSizes :
       RespondError(b) \/ RespondEmpty(b) \/ \E f \in FileSizes : RespondFile(b, f)
  \/ Write
  \/ \E k \in 1..Len(Offered) : WritePart(k) \/ WriteKeep(k) \/ WriteClose(k)
  \/ WritevFails

-----------------------------------------------------------------------------
(* Properties *)

\* What the client receives is a beginning of the response, in order and without a
\* foreign byte, however writev() cuts the two blocks and on whichever connection.
SentIsPrefix == IsPrefix(sent, wanted)

\* A response ends only when it was sent whole: a connection ready for the next
\* request owes nothing of the last one.
IdleMeansComplete == pc = "idle" => sent = wanted

\* While a file is being sent it is mapped, over any number of EPOLLOUT rounds and
\* whatever an aborted response left mapped before, with the size that unmap() will give
\* back; or it could not be mapped, and no byte in place of it reaches the client.
FileMapped ==
  pc \in {"armed", "writing"} /\ m_iv_count = 2 =>
    \/ m_file_address = st_size /\ st_size = Len(wanted) - m_write_idx
    \/ m_file_address = MapFailed /\ Len(sent) <= m_write_idx
=============================================================================
