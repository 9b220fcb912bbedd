----------------------------- MODULE HttpWriter -----------------------------
(***************************************************************************)
(* http_conn.cpp, the way of one connection's responses to the client: the *)
(* worker fills m_writebuf (do_request(), process_write(), add_response()) *)
(* and main() calls write() whenever the socket takes bytes.  Every header *)
(* line is one byte long here and bodies are a few; the socket takes any   *)
(* number of them, none, or fails.  The object serves one connection after *)
(* another.  That worker and main thread take turns is what Server shows   *)
(* (HandOff).                                                              *)
(***************************************************************************)
EXTENDS Integers, Sequences, SequencesExt

CONSTANTS BufSize,      \* WRITE_BUFSIZE - 1
          Sizes,        \* sizes of the files and of the file list
          MaxLost       \* no connection is accepted once so many files are lost

ASSUME WriterAssumption ==
    /\ BufSize \in Nat /\ BufSize > 6   \* an error response always fits
    /\ Sizes \subseteq Nat
    /\ MaxLost \in Nat

VARIABLES pc,           \* "read", "process", "out"; write()'s loop: "send", "file", "test"; "closed"
          buf,          \* m_writebuf up to m_writeidx
          toSend,       \* byte_to_send
          haveSent,     \* byte_have_send
          file,         \* "open" while m_fd is a descriptor, "none" while it is -1
          fds,          \* the descriptors open() gave and close() did not take back
          len,          \* m_len: bytes of the file still to send
          offset,       \* m_offset
          size,         \* the size the file has now
          declared,     \* m_filestat.st_size, the file's length in the header
          linger,       \* m_linger
          wire,         \* what the client received since its request
          short,        \* history: send() took a part of m_writebuf only
          vanished,     \* history: open() failed or the file shrank
          lost          \* history: connections closed while m_fd was a descriptor

counters == <<toSend, haveSent>>
place == <<len, offset, size, declared>>
response == <<buf, counters, file, fds, place, linger>>
history == <<short, vanished, lost>>
vars == <<pc, response, wire, history>>

Bytes(name, n) == [i \in 1..n |-> <<name, i>>]
Byte == {"status", "type", "length", "connection", "blank", "body", "file", "stray"} \X Nat

TypeOK ==
    /\ pc \in {"read", "process", "out", "send", "file", "test", "closed"}
    /\ buf \in Seq(Byte) /\ Len(buf) < BufSize
    /\ toSend \in Int /\ haveSent \in Nat /\ haveSent + toSend \in {0, Len(buf)}
    /\ file \in {"none", "open"} /\ fds \in Nat /\ lost \in Nat
    /\ len \in Nat /\ offset \in Nat /\ size \in Nat /\ declared \in Nat
    /\ linger \in BOOLEAN
    /\ wire \in Seq(Byte)
    /\ short \in BOOLEAN /\ vanished \in BOOLEAN

\* init(): m_fd = -1, whether or not it was a descriptor.
Cleared ==
    /\ buf' = <<>> /\ toSend' = 0 /\ haveSent' = 0
    /\ file' = "none" /\ len' = 0 /\ offset' = 0
    /\ size' = 0 /\ declared' = 0
    /\ linger' = FALSE

Init ==
    /\ pc = "read"
    /\ buf = <<>> /\ toSend = 0 /\ haveSent = 0
    /\ file = "none" /\ len = 0 /\ offset = 0 /\ size = 0 /\ declared = 0
    /\ linger = FALSE
    /\ wire = <<>>
    /\ fds = 0
    /\ short = FALSE /\ vanished = FALSE /\ lost = 0

Goto(from, to) == pc = from /\ pc' = to

\* The object is given the next connection: init(sockfd, addr).
Connect ==
    /\ Goto("closed", "read")
    /\ lost < MaxLost
    /\ Cleared
    /\ UNCHANGED <<fds, wire, history>>

-----------------------------------------------------------------------------
(* The worker: parse, then fill m_writebuf.                                *)

\* A request was read; its Connection header says whether to keep the connection.
Request ==
    /\ Goto("read", "process")
    /\ linger' \in BOOLEAN
    /\ wire' = <<>>
    /\ short' = FALSE /\ vanished' = FALSE
    /\ UNCHANGED <<buf, counters, file, fds, place, lost>>

\* mutant: what fits of the line is kept.
AddTruncated(b, part) ==
    IF Len(part) >= BufSize - Len(b) THEN SubSeq(b \o part, 1, BufSize - 1) ELSE b \o part

\* add_response(): what does not fit is left out.
Add(b, part) == IF Len(part) >= BufSize - Len(b) THEN b ELSE b \o part

AddLine(b, name) == Add(b, Bytes(name, 1))
AddHeaders(b, n) == AddLine(AddLine(Add(b, << <<"length", n>> >>), "connection"), "blank")
StatusLine == AddLine(<<>>, "status")

\* process_write(): byte_to_send = m_writeidx
Ready(b) ==
    /\ Goto("process", "out")
    /\ buf' = b
    /\ toSend' = Len(b)
    /\ UNCHANGED <<haveSent, offset, linger, wire, short, lost>>

NoFile == UNCHANGED <<file, fds, len, size, declared, vanished>>

\* 400, 403, 404, 500: status line, headers and a form.
RespondError ==
    /\ Ready(Add(AddHeaders(StatusLine, 1), Bytes("body", 1)))
    /\ NoFile

\* An upload or a deletion: status line and headers.
RespondDone ==
    /\ Ready(AddHeaders(StatusLine, 0))
    /\ NoFile

\* /file/list: add_content() may fail, which nobody looks at.
RespondList(n) ==
    /\ Ready(Add(AddHeaders(AddLine(StatusLine, "type"), n), Bytes("body", n)))
    /\ NoFile

\* stat() gave the size n; open() may fail all the same.
RespondFile(n) ==
    /\ Ready(AddHeaders(StatusLine, n))
    /\ \/ file' = "open" /\ fds' = fds + 1
       \/ file' = "none" /\ fds' = fds
    /\ len' = n /\ size' = n /\ declared' = n
    /\ vanished' = (file' = "none" /\ n > 0)

\* The environment: another process truncates or rewrites the file.
FileShrinks ==
    /\ file = "open" /\ size > 0
    /\ size' = size - 1
    /\ vanished' = TRUE
    /\ UNCHANGED <<pc, buf, counters, file, fds, len, offset, declared, linger, wire, short, lost>>

-----------------------------------------------------------------------------
(* write(), called on EPOLLOUT                                             *)

Nothing == toSend <= 0 /\ file = "none"

WriteBegin ==
    /\ pc = "out"
    /\ IF Nothing THEN pc' = "read" /\ Cleared /\ UNCHANGED fds
                  ELSE pc' = "send" /\ UNCHANGED response
    /\ UNCHANGED <<wire, history>>

\* What send(m_writebuf + byte_have_send, m_writeidx) hands over: behind the
\* response come the zeros of bzero(), then whatever follows the array.
Outgoing(n) ==
    [i \in 1..n |-> IF haveSent + i <= Len(buf) THEN buf[haveSent + i] ELSE <<"stray", 0>>]

\* mutant: byte_have_send is not advanced.
SendUncounted(n) ==
    /\ Goto("send", "file")
    /\ toSend > 0
    /\ wire' = wire \o Outgoing(n)
    /\ toSend' = toSend - n
    /\ short' = (short \/ n < Len(buf))
    /\ UNCHANGED <<buf, haveSent, file, fds, place, linger, vanished, lost>>

\* The socket takes n of the m_writeidx bytes offered.
Send(n) ==
    /\ Goto("send", "file")
    /\ toSend > 0
    /\ wire' = wire \o Outgoing(n)
    /\ toSend' = toSend - n
    /\ haveSent' = haveSent + n
    /\ short' = (short \/ n < Len(buf))
    /\ UNCHANGED <<buf, file, fds, place, linger, vanished, lost>>

HeadSent ==
    /\ Goto("send", "file")
    /\ toSend <= 0
    /\ UNCHANGED <<response, wire, history>>

\* EAGAIN: modfd(EPOLLOUT), return true.
SendAgain ==
    /\ Goto("send", "out")
    /\ toSend > 0
    /\ UNCHANGED <<response, wire, history>>

\* close_conn() knows nothing of m_fd.
CloseConn == lost' = IF file = "open" THEN lost + 1 ELSE lost

\* return false: main() closes the connection.
SendFails ==
    /\ Goto("send", "closed")
    /\ toSend > 0
    /\ CloseConn
    /\ UNCHANGED <<response, wire, short, vanished>>

FileTurn == toSend <= 0 /\ file = "open"

\* mutant: sendfile() is given a copy of m_offset.
SendFileFromStart(n) ==
    /\ Goto("file", "test")
    /\ FileTurn
    /\ offset + n <= size
    /\ n = 0 => len = 0 \/ offset >= size
    /\ wire' = wire \o [i \in 1..n |-> <<"file", offset + i>>]
    /\ len' = len - n
    /\ UNCHANGED <<buf, counters, file, fds, offset, size, declared, linger, history>>

\* sendfile() advances m_offset; it returns 0 at the end of the file.
SendFile(n) ==
    /\ Goto("file", "test")
    /\ FileTurn
    /\ offset + n <= size
    /\ n = 0 => len = 0 \/ offset >= size
    /\ wire' = wire \o [i \in 1..n |-> <<"file", offset + i>>]
    /\ offset' = offset + n
    /\ len' = len - n
    /\ UNCHANGED <<buf, counters, file, fds, size, declared, linger, history>>

\* mutant: tries again at once.
FileAgainAtOnce ==
    /\ Goto("file", "send")
    /\ FileTurn
    /\ UNCHANGED <<response, wire, history>>

FileAgain ==
    /\ Goto("file", "out")
    /\ FileTurn
    /\ UNCHANGED <<response, wire, history>>

\* close(m_fd), return false.
FileFails ==
    /\ Goto("file", "closed")
    /\ FileTurn
    /\ file' = "none" /\ fds' = fds - 1
    /\ UNCHANGED <<buf, counters, place, linger, wire, history>>

NoFileTurn ==
    /\ Goto("file", "test")
    /\ ~FileTurn
    /\ UNCHANGED <<response, wire, history>>

\* mutant: waits for more than the file has.
AllSentAndMore == toSend <= 0 /\ len < 0

AllSent == toSend <= 0 /\ len <= 0

LoopAgain ==
    /\ Goto("test", "send")
    /\ ~AllSent
    /\ UNCHANGED <<response, wire, history>>

\* if(m_fd != -1) close(m_fd)
FileIsClosed == fds' = IF file = "open" THEN fds - 1 ELSE fds

\* mutant: init() is left to forget the file.
KeptNotClosed ==
    /\ Goto("test", "read")
    /\ AllSent /\ linger
    /\ Cleared
    /\ UNCHANGED <<fds, wire, history>>

\* modfd(EPOLLIN), and init() for the next request.
Kept ==
    /\ Goto("test", "read")
    /\ AllSent /\ linger
    /\ FileIsClosed
    /\ Cleared
    /\ UNCHANGED <<wire, history>>

\* return false
NotKept ==
    /\ Goto("test", "closed")
    /\ AllSent /\ ~linger
    /\ FileIsClosed
    /\ file' = "none"
    /\ UNCHANGED <<buf, counters, place, linger, wire, history>>

\* EPOLLRDHUP, end of file or the timer.
HangUp ==
    /\ pc \in {"read", "out"}
    /\ pc' = "closed"
    /\ CloseConn
    /\ UNCHANGED <<response, wire, short, vanished>>

-----------------------------------------------------------------------------
Worker ==
    \/ RespondError \/ RespondDone
    \/ \E n \in Sizes : RespondList(n) \/ RespondFile(n)

WriteStep ==
    \/ \E n \in 1..Len(buf) : Send(n)
    \/ HeadSent \/ SendAgain \/ SendFails
    \/ \E n \in 0..len : SendFile(n)
    \/ FileAgain \/ FileFails \/ NoFileTurn
    \/ LoopAgain \/ Kept \/ NotKept

Next ==
    \/ Connect \/ Request \/ Worker \/ FileShrinks
    \/ WriteBegin \/ WriteStep
    \/ HangUp

Spec == Init /\ [][Next]_vars

\* write() runs on once it is called; nobody has to call it.
FairSpec == Spec /\ WF_vars(WriteStep)

-----------------------------------------------------------------------------
(* Properties                                                              *)

InWrite == pc \in {"send", "file", "test"}

Intended == buf \o Bytes("file", declared)

\* http_conn.h:60-61: byte_have_send bytes went out, byte_to_send are left: what
\* the client has is at any time a prefix of the response, and all of it when
\* write() finds everything sent.
WireExact ==
    /\ pc = "out" \/ InWrite => IsPrefix(wire, Intended)
    /\ pc = "test" /\ AllSent => wire = Intended

\* So it is as long as send() never takes only a part of m_writebuf - however
\* often it takes nothing, and however the file is cut up by sendfile().
WireExactIfWhole == ~short => WireExact

\* A response has the header lines in their order and as many bytes behind them as
\* Content-Length says, or none: a list that does not fit is left out as a whole
\* (http_conn.cpp:404), never cut off.
LengthAnnounced ==
    buf # <<>> => \E type \in {<<>>, Bytes("type", 1)} :
        LET n == buf[Len(type) + 2][2]
            head == Bytes("status", 1) \o type \o << <<"length", n>> >>
                      \o Bytes("connection", 1) \o Bytes("blank", 1) IN
        \/ buf = head \o Bytes("body", n) /\ declared = 0
        \/ buf = head /\ (n = declared \/ Len(buf) + n >= BufSize)

\* Every file opened for a response is closed with it, be the connection kept, closed or
\* sendfile() failing: between two responses none is open but those of connections that
\* were closed in the middle of a response, one for each - close_conn() leaves m_fd to
\* init(), which sets it to -1 (http_conn.cpp:75).
FileClosed ==
    fds = lost + (IF file = "open" /\ (pc = "out" \/ InWrite) THEN 1 ELSE 0)

\* The bytes write() has left to send, and its steps until it sends some or returns.
Left == (IF toSend > 0 THEN toSend ELSE 0) + len
StepsAhead ==
    CASE pc = "send" -> 2
      [] pc = "file" -> IF toSend > 0 THEN 4 ELSE 1
      [] OTHER -> IF AllSent THEN 0 ELSE 3

\* write() does not turn its loop in vain, however the socket cuts the response up: each
\* step sends bytes or comes nearer to one that does or returns, as long as the file is
\* there and as long as its header says.
WriteGoesOn ==
    [][InWrite /\ InWrite' /\ ~vanished'
         => Left' < Left \/ (Left' = Left /\ StepsAhead' < StepsAhead)]_vars

\* A call of write() returns: the event loop is not held up, unless the file of
\* the response vanished between stat(), open() and sendfile().
WriteReturns == InWrite ~> (~InWrite \/ vanished)
=============================================================================
