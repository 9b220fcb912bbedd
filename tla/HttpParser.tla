----------------------------- MODULE HttpParser -----------------------------
(***************************************************************************)
(* http_conn.cpp, the way of one connection's requests into the program:   *)
(* read() fills m_readbuf and, once it is full, a temporary file;          *)
(* process_read() takes the buffer apart line by line and do_request()     *)
(* stores an upload.  The client sends one request at a time, the network  *)
(* cuts it anywhere.  Buffer and stream consist of tokens one position     *)
(* long: a request line, a header, CR, LF, a piece of the body.            *)
(*                                                                         *)
(* A token stands for itself wherever it ends up: lines overwritten in the *)
(* buffer are read as the tokens now there, m_url and m_boundary as the    *)
(* places they point to.  Reading past the buffer's end is not modelled;   *)
(* writing there is noted in "outside".                                    *)
(***************************************************************************)
EXTENDS Integers, Sequences, FiniteSets, FiniteSetsExt, SequencesExt

CONSTANTS BufSize,      \* READ_BUFSIZE
          Messages,     \* requests of the client: [line, headers, body, eol]
          Length,       \* the number in each Content-Length header
          MaxRequests,  \* bound: requests of the client
          MaxPieces,    \* bound: pieces a request arrives in
          NoMsg, NoFile, NoReply

CR == "CR"
LF == "LF"
NUL == "NUL"
LinesOfUse == {"get", "post", "upload"}     \* "upload" is POST /file
Header == {"keep", "close", "bound"} \cup DOMAIN Length
Data == {"part", "data", "more", "end"}     \* "part": boundary up to the blank line; "end": last boundary
Token == LinesOfUse \cup Header \cup Data \cup {"bad", CR, LF, NUL}

\* What a client that keeps to the protocol may send, but for the line ends.
Message == [line : LinesOfUse \cup {"bad"}, headers : Seq(Header),
            body : Seq(Data \cup {CR, LF, NUL}), eol : {<<CR, LF>>, <<CR>>, <<LF>>}]

LengthsOf(m) == {Length[h] : h \in ToSet(m.headers) \cap DOMAIN Length}

\* A body with a part in it is a form of that one part.
OnePart(body) ==
    Contains(body, "part") =>
        /\ body[1] = "part" /\ body[Len(body)] = "end"
        /\ \A i \in 2..(Len(body) - 1) : body[i] \notin {"part", "end"}

\* The codes of do_request() and the parser; an "unsaved" upload is answered 200 like
\* a "stored" one.
Answer == [code : {"bad", "stored", "unsaved", "page"}, method : {"get", "post"},
           linger : BOOLEAN, body : Seq(Token)]

ASSUME ParserAssumption ==
    /\ BufSize \in Nat \ {0} /\ MaxRequests \in Nat /\ MaxPieces \in Nat \ {0}
    /\ \A h \in DOMAIN Length : Length[h] \in Nat \ {0}
    /\ DOMAIN Length \cap (Data \cup {CR, LF, NUL}) = {}
    /\ \A m \in Messages :
        /\ m \in Message
        /\ LengthsOf(m) = {Len(m.body)} \ {0}
        /\ OnePart(m.body)
    /\ NoMsg \notin Messages /\ NoFile \notin Seq(Token) /\ NoReply \notin Answer

VARIABLES msg, rest, sock,  \* the request sent, its tokens under way, those recv() can take
          gone, asked,      \* the client hung up; number of requests sent
          pieces,           \* number of pieces of this request that arrived
          phase,            \* "idle", "reading", "parsing", "deciding", "answering", "closed", "stuck"
          buf, readidx, checkedidx, startline,
          check,            \* m_check_state: "line", "header", "content"
          method, url, linger, length, boundary,    \* url, boundary: places in buf, -1 for none
          tmp, tmplen,      \* the file tmpfd is open on
          stored,           \* the file that uploads are saved as
          intact,           \* history: recv() never stored over this request
          outside,          \* history: the body's terminator was written behind m_readbuf
          reply             \* history: what this request was answered as

client == <<msg, rest, asked, pieces>>
network == <<sock, gone>>
parsed == <<checkedidx, startline, check, method, url, linger, length, boundary>>
conn == <<buf, readidx, parsed, tmp, tmplen>>
history == <<intact, outside, reply>>
vars == <<client, network, phase, conn, stored, history>>

TypeOK ==
    /\ msg \in Messages \cup {NoMsg} /\ rest \in Seq(Token) /\ sock \in Seq(Token)
    /\ gone \in BOOLEAN /\ asked \in 0..MaxRequests /\ pieces \in 0..MaxPieces
    /\ phase \in {"idle", "reading", "parsing", "deciding", "answering", "closed", "stuck"}
    /\ buf \in [0..(BufSize - 1) -> Token]
    /\ readidx \in 0..BufSize /\ checkedidx \in 0..readidx /\ startline \in 0..checkedidx
    /\ check \in {"line", "header", "content"} /\ method \in {"get", "post"}
    /\ url \in -1..(BufSize - 1) /\ boundary \in -1..(BufSize - 1)
    /\ linger \in BOOLEAN /\ length \in Nat
    /\ tmp \in Seq(Token) \cup {NoFile} /\ tmplen \in Int
    /\ stored \in Seq(Token)
    /\ intact \in BOOLEAN /\ outside \in BOOLEAN
    /\ reply \in Answer \cup {NoReply}

\* mutant: m_linger stays.
FreshButLinger ==
    /\ buf' = [i \in 0..(BufSize - 1) |-> NUL]
    /\ readidx' = 0 /\ checkedidx' = 0 /\ startline' = 0
    /\ check' = "line" /\ method' = "get" /\ url' = -1 /\ UNCHANGED linger
    /\ length' = 0 /\ boundary' = -1
    /\ tmp' = NoFile /\ tmplen' = 0

\* init()
Fresh ==
    /\ buf' = [i \in 0..(BufSize - 1) |-> NUL]
    /\ readidx' = 0 /\ checkedidx' = 0 /\ startline' = 0
    /\ check' = "line" /\ method' = "get" /\ url' = -1 /\ linger' = FALSE
    /\ length' = 0 /\ boundary' = -1
    /\ tmp' = NoFile /\ tmplen' = 0

Init ==
    /\ msg = NoMsg /\ rest = <<>> /\ sock = <<>> /\ gone = FALSE
    /\ asked = 0 /\ pieces = 0
    /\ phase = "idle"
    /\ buf = [i \in 0..(BufSize - 1) |-> NUL]
    /\ readidx = 0 /\ checkedidx = 0 /\ startline = 0
    /\ check = "line" /\ method = "get" /\ url = -1 /\ linger = FALSE
    /\ length = 0 /\ boundary = -1
    /\ tmp = NoFile /\ tmplen = 0
    /\ stored = <<>>
    /\ intact = TRUE /\ outside = FALSE /\ reply = NoReply

Goto(from, to) == phase = from /\ phase' = to

-----------------------------------------------------------------------------
(* The client and the network                                              *)

Encode(m) ==
    <<m.line>> \o m.eol \o FlattenSeq([i \in DOMAIN m.headers |-> <<m.headers[i]>> \o m.eol])
      \o m.eol \o m.body

\* What arrives before init() is through is read after it, so is sent after it here.
Send(m) ==
    /\ phase = "idle" /\ ~gone
    /\ rest = <<>> /\ (msg = NoMsg \/ reply # NoReply)
    /\ asked < MaxRequests
    /\ asked' = asked + 1
    /\ msg' = m /\ rest' = Encode(m) /\ pieces' = 0
    /\ intact' = (readidx = 0 /\ sock = <<>>)
    /\ outside' = FALSE /\ reply' = NoReply
    /\ UNCHANGED <<sock, gone, phase, conn, stored>>

Arrive(n) ==
    /\ phase \notin {"closed", "stuck"} /\ ~gone
    /\ n \in 1..Len(rest)
    /\ pieces = MaxPieces - 1 => n = Len(rest)
    /\ pieces' = pieces + 1
    /\ sock' = sock \o SubSeq(rest, 1, n)
    /\ rest' = SubSeq(rest, n + 1, Len(rest))
    /\ UNCHANGED <<msg, gone, asked, phase, conn, stored, history>>

HangUp ==
    /\ phase \notin {"closed", "stuck"} /\ ~gone
    /\ gone' = TRUE
    /\ UNCHANGED <<client, sock, phase, conn, stored, history>>

\* The timer, or EPOLLRDHUP: close_conn()
CloseIdle ==
    /\ Goto("idle", "closed")
    /\ UNCHANGED <<client, network, conn, stored, history>>

\* init(sockfd, addr), for another connection of the same client
Connect ==
    /\ Goto("closed", "idle")
    /\ asked < MaxRequests
    /\ msg' = NoMsg /\ rest' = <<>> /\ sock' = <<>> /\ gone' = FALSE
    /\ pieces' = 0
    /\ Fresh
    /\ reply' = NoReply
    /\ UNCHANGED <<asked, stored, intact, outside>>

-----------------------------------------------------------------------------
(* read(), by the main thread                                              *)

\* EPOLLIN; when the client has hung up main() closes instead.
Event ==
    /\ Goto("idle", "reading")
    /\ sock # <<>> /\ ~gone
    /\ UNCHANGED <<client, network, conn, stored, history>>

Received(n) ==
    /\ n > 0
    /\ buf' = [i \in DOMAIN buf |-> IF i < n THEN sock[i + 1] ELSE buf[i]]
    /\ sock' = SubSeq(sock, n + 1, Len(sock))
    /\ readidx' = readidx + n
    /\ intact' = (intact /\ readidx = 0)
    /\ UNCHANGED <<client, gone, phase, parsed, tmp, tmplen, stored, outside, reply>>

\* mutant: a temporary file is made each time.
SpillAnew ==
    /\ Goto("reading", "parsing")
    /\ readidx >= BufSize
    /\ tmp' = sock
    /\ \E error \in {0} \cup (IF gone THEN {1} ELSE {}) :
          tmplen' = tmplen + Len(sock) - error
    /\ sock' = <<>>
    /\ UNCHANGED <<client, gone, buf, readidx, parsed, stored, history>>

\* mutant: recv() may take READ_BUFSIZE bytes each time.
RecvWholeBuffer ==
    /\ phase = "reading" /\ readidx < BufSize
    /\ Received(Min({Len(sock), BufSize}))

\* recv() stores at m_readbuf, whatever m_readidx is.
Recv ==
    /\ phase = "reading" /\ readidx < BufSize
    /\ Received(Min({Len(sock), BufSize - readidx}))

WouldBlock ==
    /\ Goto("reading", "parsing")
    /\ readidx < BufSize /\ sock = <<>> /\ ~gone
    /\ UNCHANGED <<client, network, conn, stored, history>>

RecvFails ==
    /\ Goto("reading", "closed")
    /\ readidx < BufSize /\ gone
    /\ UNCHANGED <<client, network, conn, stored, history>>

\* read_file(m_sockfd, tmpfd); -1 for an error of a reset connection is added, too.
Spill ==
    /\ Goto("reading", "parsing")
    /\ readidx >= BufSize
    /\ tmp' = (IF tmp = NoFile THEN <<>> ELSE tmp) \o sock
    /\ \E error \in {0} \cup (IF gone THEN {1} ELSE {}) :
          tmplen' = tmplen + Len(sock) - error
    /\ sock' = <<>>
    /\ UNCHANGED <<client, gone, buf, readidx, parsed, stored, history>>

\* mkstemp() fails, which is not looked at: nothing can be written to file -1, and
\* read_file() tries for ever.
SpillWithoutFile ==
    /\ Goto("reading", IF sock = <<>> THEN "parsing" ELSE "stuck")
    /\ readidx >= BufSize /\ tmp = NoFile
    /\ UNCHANGED <<client, network, conn, stored, history>>

-----------------------------------------------------------------------------
(* process_read(), by a worker                                             *)

\* Tokens i..j-1 of m_readbuf; the string at i, which ends at n at the latest.
Slice(i, j) == [k \in 1..(j - i) |-> buf[i + k - 1]]
StringUpTo(n, i) == Slice(i, Min({j \in i..(n - 1) : buf[j] = NUL} \cup {n}))
StringAt(i) == StringUpTo(BufSize, i)

\* parse_line(): where it stops, where the CR of a LINE_OK is (-1: no LINE_OK), and
\* the line once that CR is cleared.
Stop == Min({i \in checkedidx..(readidx - 1) : buf[i] \in {CR, LF}} \cup {readidx})

LineEnd ==
    LET stop == Stop IN
    CASE stop + 1 < readidx /\ buf[stop] = CR /\ buf[stop + 1] = LF -> stop
      [] stop < readidx /\ buf[stop] = LF /\ stop > 1 /\ buf[stop - 1] = CR -> stop - 1
      [] OTHER -> -1

Line == StringUpTo(LineEnd, startline)

TakeLine ==
    /\ phase = "parsing" /\ LineEnd # -1
    /\ buf' = [buf EXCEPT ![LineEnd] = NUL, ![LineEnd + 1] = NUL]
    /\ checkedidx' = LineEnd + 2 /\ startline' = LineEnd + 2
    /\ UNCHANGED <<client, network, readidx, tmp, tmplen, stored, intact, outside>>

Reply(code) ==
    reply' = [code |-> code, method |-> method, linger |-> linger,
              body |-> Slice(checkedidx, Min({checkedidx + length, readidx}))]

\* LINE_OPEN or LINE_BAD: NO_REQUEST in both cases
NoLine ==
    /\ Goto("parsing", "idle")
    /\ check # "content" /\ LineEnd = -1
    /\ checkedidx' = Stop
    /\ UNCHANGED <<client, network, buf, readidx, startline, check, method, url, linger,
                   length, boundary, tmp, tmplen, stored, history>>

RequestLine ==
    /\ check = "line" /\ TakeLine
    /\ \E line \in LinesOfUse :
        /\ Line = <<line>>
        /\ method' = IF line = "get" THEN "get" ELSE "post"
    /\ url' = startline
    /\ check' = "header"
    /\ UNCHANGED <<phase, linger, length, boundary, reply>>

BadRequestLine ==
    /\ check = "line" /\ TakeLine
    /\ \A line \in LinesOfUse : Line # <<line>>
    /\ phase' = "answering"
    /\ Reply("bad")
    /\ UNCHANGED <<check, method, url, linger, length, boundary>>

HeaderLine ==
    /\ check = "header" /\ TakeLine
    /\ Line # <<>>
    /\ LET header == Line[1] IN
        /\ linger' = IF header \in {"keep", "close"} THEN Line # <<"close">> ELSE linger
        /\ length' = IF header \in DOMAIN Length THEN Length[header] ELSE length
        /\ boundary' = IF header = "bound" THEN startline ELSE boundary
    /\ UNCHANGED <<phase, check, method, url, reply>>

BlankLine ==
    /\ check = "header" /\ TakeLine
    /\ Line = <<>>
    /\ check' = IF length # 0 THEN "content" ELSE check
    /\ phase' = IF length # 0 THEN phase ELSE "deciding"
    /\ UNCHANGED <<method, url, linger, length, boundary, reply>>

\* mutants: where the body begins is forgotten; one byte more is waited for.
CompleteByLength == readidx + tmplen >= length
CompleteAndMore == readidx + tmplen > length + checkedidx

Complete == readidx + tmplen >= length + checkedidx

\* parse_content(): text[m_content_length] = 0, text being the place checkedidx
Content ==
    /\ Goto("parsing", "deciding")
    /\ check = "content" /\ Complete
    /\ LET at == checkedidx + length IN
        /\ buf' = IF at < BufSize THEN [buf EXCEPT ![at] = NUL] ELSE buf
        /\ outside' = (outside \/ at >= BufSize)
    /\ startline' = checkedidx
    /\ UNCHANGED <<client, network, readidx, checkedidx, check, method, url, linger, length,
                   boundary, tmp, tmplen, stored, intact, reply>>

ContentMore ==
    /\ Goto("parsing", "idle")
    /\ check = "content" /\ ~Complete
    /\ startline' = checkedidx
    /\ UNCHANGED <<client, network, buf, readidx, checkedidx, check, method, url, linger,
                   length, boundary, tmp, tmplen, stored, history>>

-----------------------------------------------------------------------------
(* do_request(), and what becomes of the connection                        *)

IsUpload == method = "post" /\ buf[url] = "upload"

\* strstr() for the boundary, the file name, the blank line behind it.
Boundary == StringAt(boundary)
Form == StringAt(checkedidx)
HasFile ==
    /\ boundary # -1
    /\ Boundary \in {<<"bound">>, <<>>}
    /\ Contains(Form, "part")

\* The content is what is in front of the next boundary (an empty one is found at
\* once), or without one all that was read.
FileContent ==
    LET start == Min({i \in DOMAIN Form : Form[i] = "part"})
        next == {i \in (start + 1)..Len(Form) : Form[i] \in {"part", "end"}} IN
    CASE Boundary = <<>> -> <<>>
      [] Boundary # <<>> /\ next # {} -> SubSeq(Form, start + 1, Min(next) - 1)
      [] OTHER -> Slice(checkedidx + start, readidx)

Spilled == IF tmp = NoFile THEN <<>> ELSE tmp

\* open() without O_TRUNC: what is longer stays.
Over(new, old) == new \o SubSeq(old, Len(new) + 1, Len(old))

Decide(code) ==
    /\ Goto("deciding", "answering")
    /\ Reply(code)
    /\ UNCHANGED <<client, network, buf, readidx, parsed, intact, outside>>

\* mutant: lseek() is forgotten.
UploadNoSeek ==
    /\ IsUpload /\ HasFile
    /\ Decide("stored")
    /\ stored' = Over(FileContent, stored)
    /\ tmplen' = tmplen + Len(Spilled)
    /\ tmp' = NoFile

Upload ==
    /\ IsUpload /\ HasFile
    /\ Decide("stored")
    /\ stored' = Over(FileContent \o Spilled, stored)
    /\ tmplen' = tmplen + Len(Spilled)
    /\ tmp' = NoFile

\* open() fails, which is not looked at: nothing is written to file -1, ...
UploadUnsaved ==
    /\ IsUpload /\ HasFile
    /\ Spilled = <<>>
    /\ Decide("unsaved")
    /\ tmp' = NoFile
    /\ UNCHANGED <<stored, tmplen>>

\* ... and read_file() tries that for ever when there is something in the temporary file.
UploadStuck ==
    /\ IsUpload /\ HasFile
    /\ Spilled # <<>>
    /\ Goto("deciding", "stuck")
    /\ tmplen' = tmplen + Len(Spilled)
    /\ UNCHANGED <<client, network, buf, readidx, parsed, tmp, stored, history>>

UploadRefused ==
    /\ IsUpload /\ ~HasFile
    /\ Decide("bad")
    /\ UNCHANGED <<stored, tmp, tmplen>>

OtherRequest ==
    /\ ~IsUpload
    /\ Decide("page")
    /\ UNCHANGED <<stored, tmp, tmplen>>

\* write() is done: init(), or back to main(), which closes.  It may fail instead.
Keep ==
    /\ Goto("answering", "idle")
    /\ linger
    /\ Fresh
    /\ UNCHANGED <<client, network, stored, history>>

Drop ==
    /\ Goto("answering", "closed")
    /\ UNCHANGED <<client, network, conn, stored, history>>

-----------------------------------------------------------------------------
Client ==
    \/ \E m \in Messages : Send(m)
    \/ \E n \in 1..Len(rest) : Arrive(n)
    \/ HangUp \/ Connect

Read == Event \/ Recv \/ WouldBlock \/ RecvFails \/ Spill \/ SpillWithoutFile

ProcessRead ==
    \/ NoLine \/ RequestLine \/ BadRequestLine \/ HeaderLine \/ BlankLine
    \/ Content \/ ContentMore

DoRequest == Upload \/ UploadUnsaved \/ UploadStuck \/ UploadRefused \/ OtherRequest

Next == Client \/ CloseIdle \/ Read \/ ProcessRead \/ DoRequest \/ Keep \/ Drop

Spec == Init /\ [][Next]_vars

\* The network delivers, the event loop and the workers run, one of them at a time
\* (the phases exclude each other).  Nobody has to send or to hang up.
FairSpec ==
    /\ Spec
    /\ WF_vars(Arrive(Len(rest)))
    /\ WF_vars((gone /\ CloseIdle) \/ Read \/ ProcessRead \/ DoRequest \/ Keep \/ Drop)

-----------------------------------------------------------------------------
(* Properties                                                              *)

\* The last Connection header says keep-alive.
Lasting(m) ==
    \E i \in DOMAIN m.headers :
        /\ m.headers[i] = "keep"
        /\ \A j \in (i + 1)..Len(m.headers) : m.headers[j] # "close"

\* How much of the body m_readbuf has room for.
Room(m) == BufSize - (Len(Encode(m)) - Len(m.body))

Due(m) ==
    CASE m.line = "bad" -> "bad"
      [] m.line = "upload" -> IF /\ "bound" \in ToSet(m.headers)
                                 /\ Contains(m.body, "part") /\ Room(m) > 0
                              THEN "stored" ELSE "bad"
      [] OTHER -> "page"

\* A request that recv() never stored over is understood as it was sent, in spite of
\* where it was cut and of what the connection was used for before: its method, its
\* Connection header and as much of its body as m_readbuf takes; it is answered only
\* if its lines end in CR LF.  A file that cannot be opened makes no difference.
ParsedAsSent ==
    reply # NoReply /\ intact =>
        /\ msg.eol = <<CR, LF>>
        /\ reply.code = Due(msg) \/ (reply.code = "unsaved" /\ Due(msg) = "stored")
        /\ msg.line # "bad" =>
            /\ reply.method = IF msg.line = "get" THEN "get" ELSE "post"
            /\ reply.linger = Lasting(msg)
            /\ reply.body = SubSeq(msg.body, 1, Min({Len(msg.body), Room(msg)}))

\* What is saved of an upload: the part's content with the CR LF behind it, as the
\* search for the boundary takes back 2 bytes for "--" only; and the last boundary
\* too when the request is longer than m_readbuf or the content has a zero byte.
Saved(m) ==
    LET cut == Len(Encode(m)) <= BufSize
               /\ ~Contains(SubSeq(m.body, 1, Len(m.body) - 1), NUL) IN
    SubSeq(m.body, 2, Len(m.body) - (IF cut THEN 1 ELSE 0))

\* An upload that recv() never stored over is saved as stated above when open() gives
\* a file for it, in front of what a longer one of that name had there, whether it came
\* in the buffer or through the temporary file, and nothing of another request's
\* temporary file is in it.  No other answer touches the file, which is how an upload
\* is answered 200 and not saved when open() fails.
StoredIsUploaded ==
    [][reply' # reply /\ reply' # NoReply /\ intact
         => stored' = IF reply'.code = "stored" THEN Over(Saved(msg), stored) ELSE stored]_vars

\* While a request that recv() never stored over is read, each byte behind a full
\* m_readbuf is in the temporary file, in the socket or under way, once and in the
\* order sent, however often read() came back for more; and tmplen, by which
\* parse_content() decides that the body is complete, counts no byte that is not in
\* the file, and all that are unless the connection was reset.
SpillComplete ==
    msg # NoMsg /\ intact /\ reply = NoReply /\ readidx = BufSize /\ phase # "stuck" =>
        /\ Spilled \o sock \o rest = SubSeq(Encode(msg), BufSize + 1, Len(Encode(msg)))
        /\ tmplen <= Len(Spilled)
        /\ gone \/ tmplen = Len(Spilled)

\* parse_content() puts its zero behind m_readbuf only when the request fills it.
TerminatorInside == [][outside' => outside \/ readidx = BufSize]_vars

\* Neither read() nor process_read() turns its loop in vain, whatever is in the buffer:
\* recv() fills more of it, or the next line is taken behind the last one.
LoopsAdvance ==
    [][/\ phase = "reading" /\ phase' = "reading" => readidx' > readidx
       /\ phase = "parsing" /\ phase' = "parsing" => startline' > startline]_conn

\* A request with proper line ends is answered, unless a part of it was stored over
\* another, the connection is closed or read_file() never returns.
IntactIsAnswered ==
    (msg # NoMsg /\ msg.eol = <<CR, LF>>)
      ~> (reply # NoReply \/ ~intact \/ phase \in {"closed", "stuck"})
=============================================================================
