# A verification project for WebFileServer

TLA+ modules of the server under `src/`, TLC runs that model-check them on small
instances, and TLAPS proofs of what matters most. The repository has no
documentation and no tests; where this text says what the code "says", it means
one of its comments.

Run a check with `tlc -workers 2 -config X.cfg MCModule.tla`; check the proofs
with `tlapm X_proofs.tla`, `X` being a component's module, and `tlapm ProofLemmas.tla`.

## The system

A single process serves files over HTTP/1.1. `main()` owns an epoll set, accepts
connections, reads requests, writes responses and runs the idle timers; eight
detached worker threads parse requests and prepare responses; a log thread
writes the log file.

    client --> listening socket --> main(): epoll_wait()
                                      |  EPOLLIN   read()  -> threadpool::append()
                                      |  EPOLLOUT  write() -> modfd(EPOLLIN)
                                      |  RDHUP     close_conn()
                                      |  SIGALRM   timer_handler() -> tick() -> cb_func() -> close_conn()
                                      v
                                  m_workqueue --> workers: run() -> process()
                                                              process_read(), process_write()
                                                              modfd(EPOLLIN / EPOLLOUT)

| Component | Source | State it keeps | Operations | What is hard about it | What makes it correct |
|---|---|---|---|---|---|
| Thread pool | `threadpool.h` | list of requests, mutex, semaphore, `m_stop` | `append()`, `run()`, destructor | callers and workers interleave; the list changes under the mutex, the post comes after it; `sem_wait` may be interrupted | bounded FIFO queue, each request to one worker, no lost wakeup, mutex always released |
| Locks, semaphore, condition variable | `locker.h` | mutex, semaphore, condition | `lock`, `unlock`, `wait`, `post`, `signal`, `broadcast` | results are ignored by the callers | as POSIX says |
| Idle timers | `lst_timer.h` | doubly linked list of `util_timer` | `add_timer`, `adjust_timer`, `del_timer`, `tick`, destructor | relinking nodes at the head, in the middle and at the tail; deleting while walking; a wall clock | one chain of the live nodes, ascending; a tick fires all that is due and nothing else |
| Event loop | `main.cpp` | epoll set, `users_timer[]`, `timeout`, `stop_server` | handlers of accept, hang-up, read, write, signals, ticks | events of one batch are handled after the world moved on; timers and workers act on the same connection; descriptors are reused | one thread at a time works on a connection; an open connection has its timer; a stalled one is closed |
| Connection life cycle | `http_conn.cpp` | `m_sockfd`, `m_user_count`, registration | `init`, `close_conn`, `process`, `addfd`, `modfd`, `removefd` | `close_conn()` is called by workers and by `main()`; `m_user_count` is a plain int | counter and registrations agree with the open connections |
| Response writer | `http_conn.cpp` | `m_writebuf`, `byte_to_send`, `byte_have_send`, `m_fd`, `m_offset`, `m_len` | `process_write`, `add_response`, `write`, file part of `do_request` | partial sends, EAGAIN, files that change | the client receives exactly the response; the file is closed; `write()` returns |
| Request reader and parser | `http_conn.cpp` | `m_readbuf`, indexes, check state, `tmpfd`, `tmplen` | `read`, `read_file`, `parse_line`, `process_read`, `parse_*`, upload part of `do_request` | requests arrive in pieces, reach past the buffer, follow others on a kept connection | a request is understood as it was sent, what `m_readbuf` does not hold gets into the temporary file in order, an upload answered as saved is saved |
| Users | `http_conn.cpp` | map `users`, the user table | `initmysql_result`, login, register | workers share the map and test it without the lock; database and map are written one after the other; restarts | who was told of success is in the database, a name has one owner, the lock is given back |
| Database connection pool | `sql/` | list of connections, counters | `GetConnection`, `ReleaseConnection`, `DestroyPool` | semaphore and mutex together | a connection has one user |
| Asynchronous log | `log/` | `block_queue`, file, day, line count | `write_log`, `flush`, `async_write_log`, queue operations | a full queue; `full()` and `push()` apart; midnight and file changes between; exit and restart | each line once, in order, in a file of bounded length; the flush thread never sleeps on a line |

`test_pressure/webbench-1.5` is a vendored load generator, `resources/` is data,
`Makefile` has no run-time behaviour: they are not modelled.

## Modules

| Module | Models | State and actions |
|---|---|---|
| `RequestQueue` | what the pool promises | `queue`, `serving`; `Accept`, `Take`, `Finish` |
| `ThreadPool` | `threadpool.h` over `locker.h` | `workqueue` is `m_workqueue`, `lock` the owner of `m_queuelocker`, `sem` the value of `m_queuestat`, `pc`/`req` each thread's place and local; one action per step a thread can be preempted after. Implements `RequestQueue` |
| `TimerSet` | what the timer list promises | `pending`, `expire`, the clock; `Start`, `Cancel`, `Fire`, ticks |
| `TimerList` | `lst_timer.h` and the deadlines `main()` gives | the pointers `head`, `tail`, `next`, `prev` and the nodes `live`; one action per branch of each operation, one step per turn of its loops. Implements `TimerSet` |
| `Server` | `main.cpp`'s loop, the signal pipe, the registrations, `init`/`close_conn`/`process` of `http_conn.cpp` | `reg` is what epoll knows of a descriptor, `user` whether `m_sockfd` is set, `count` is `m_user_count`, `own`/`stale` the slots left to the timer `users_timer[f]` points to and to those it no longer points to, `batch` the events of one `epoll_wait()` not handled yet, `alarm` what became of the last SIGALRM; one action per handler of `main()`, one step of a worker per access to what it shares with `main()`. Its queue is `RequestQueue`, the one `ThreadPool` implements |
| `HttpWriter` | the way of a response to the client | `buf` is `m_writebuf`, `toSend`, `haveSent`, `file`, `len`, `offset` the fields of the same meaning, `fds` the descriptors `open()` gave and `close()` did not take back, which `init()` setting `m_fd` to -1 does not change, `lost` the connections closed in the middle of a file, `wire` what the client got; one action per outcome of each system call, and `Connect` for the next connection the object is given |
| `HttpParser` | the way of a request into the program | `buf` is `m_readbuf`, `readidx`, `checkedidx`, `startline`, `check`, `method`, `url`, `linger`, `length`, `boundary`, `tmplen` the fields of the same meaning, `tmp` the temporary file (`NoFile` for `tmpfd == -1`), `stored` the uploaded file; `rest` and `sock` are what is under way and what `recv()` can take. Actions: client and network (`Send`, `Arrive`, `HangUp`, `Connect`), the outcomes of `read()` and `read_file()`, one turn of `process_read()`'s loop each (`RequestLine`, `HeaderLine`, `BlankLine`, `Content`, ...), the outcomes of `do_request()` for an upload, a failed `open()` among them (`Upload`, `UploadUnsaved`, `UploadStuck`, `UploadRefused`), and what `write()` leaves (`Keep`, `Drop`) |
| `UserStore` | login and registration, the map and its table, the map's filling at start-up | `users` is the map, `rows` the table `user`, `holder` the owner of `m_lock`, `pc`/`req`/`res` each worker's place, its account and `mysql_query()`'s result; `Start` is `initmysql_result()`, `Crash` loses the map and keeps the rows, one action per step of `do_request()` a worker can be preempted after |
| `LogBook` | what the log promises | `todo`, `book`; `Accept`, `Write`, `WriteAtOnce`, `End` |
| `AsyncLog` | `log.cpp`, `log.h`, `block_queue.h` | `queue` is `m_queue`, `asleep` whether the flush thread waits on `m_cond`, `hand` the line it popped, `today`, `count`, `file` are `m_today`, `m_count` and what `m_fp` is open on, `pc`/`day`/`made` each writer's place, `my_tm.tm_mday` and number of lines, `base`, `born` and `gone` what was in the files at the last start, the day then, and what earlier starts lost; `Restart` begins anew on the same files; one action per critical section and branch of `write_log()` and of the flush thread. Implements `LogBook` |
| `MC...` | | instances for TLC: only constants |
| `ThreadPool_proofs`, `TimerList_proofs`, `Server_proofs`, `HttpWriter_proofs`, `HttpParser_proofs`, `UserStore_proofs`, `AsyncLog_proofs` | | the inductive invariant, the lemmas and the theorems of the module each is named after |
| `ProofLemmas` | | facts the library does not state: least and greatest elements of sets of numbers, what `FlattenSeq` puts together |

The composition is by contract: `Server` uses `RequestQueue`, which `ThreadPool`
is proved to implement, and timers as sets of slots left, which is what
`TimerSet` - implemented by `TimerList` - gives it; `HttpParser` and `HttpWriter` let worker and main thread take turns, which is what
`Server`'s `HandOff` shows. `HttpParser` ends a request with its answer (`reply`), which is
where `HttpWriter`'s responses begin; `UserStore` is the part of `do_request()` that several
connections share. `AsyncLog` stands alone: the main thread is
the only one that logs, before its loop and in it (`main.cpp:95`, `main.cpp:140`,
`http_conn.cpp:501`). The second writer of its run is what the class allows and not what this
program does; what holds of the program is what is claimed `Alone`, while one thread logs, and what
needs no such premise.

What each module abstracts from is in its header. The main abstractions:

* Requests, descriptors, timers are model values. What a client sends, and so
  the outcome of `read()`, `process_read()` and `write()`, is a free choice.
* `Server` counts time in time slots. Each timer keeps the slots it has left,
  so no clock grows. Timers that `users_timer[f]` no longer points to
  are a SET of remaining times: two with the same deadline have the same effect.
* A header line of `HttpWriter` is one byte. `sendfile()` and `send()` take any
  number of bytes up to what is offered.
* `HttpParser` reads and stores tokens one position long: a request line, a header, CR, LF,
  a zero, a piece of a body. `m_url` and `m_boundary` are places in the buffer, as in the
  code, so what is later stored there shows through them; other pointers are not kept.
  Strings read past the end of the buffer are not modelled, the terminator that is
  written there is noted in `outside`.
* A client of `HttpParser` sends the next request when the last is answered (no
  pipelining); bodies have the length their header announces. The next message can
  nevertheless meet what the last left in the buffer or the socket.
* `UserStore` leaves what `mysql_query()` does open - an error with or without the row
  added, success, a crash - as it goes through a pointer nothing sets. `users.find()`
  without the lock may say anything while another worker links in a new node.
* `AsyncLog`: whoever holds a mutex of the log waits for nothing, so its critical section is one
  step; `localtime()` uses one buffer for all threads, so a writer may get the day another
  one is converting. A NULL stream ends the program.
* The main thread's handlers are one step each in `Server`, a worker's
  `process()` is cut wherever it touches shared state. Cutting `main()`'s
  handlers as well would only matter where a worker acts on the same
  connection, which `HandOff` excludes as long as nothing is `disturbed`;
  the counter, the one thing shared across connections, is cut on the
  worker's side and its lost updates in both directions are in `CloseDetach`.

## Runs

| Run | Instance | Shows |
|---|---|---|
| `thread_pool` | 2 callers, 2 workers, 2 requests, limit 1, 2 unclaimed posts before interruptions stop | the mutex is held exactly inside the critical sections (`LockDiscipline`); the size test and the empty test still hold when acted upon (`TestsStillHold`); every queued request is covered by a post or a worker (`NoLostWakeup`); every accepted request is processed (`EveryRequestServed`); the pool is a bounded FIFO queue (`ImplementsRequestQueue`) |
| `timer_list` | 4 timers, deadline 1 ahead, clock up to 2 and back | the list is one chain of exactly the live nodes (`Linked`), no pointer that may be followed dangles even inside an operation (`NoDanglingPointer`), it is ascending unless the clock was set back (`AscendingIfMonotone`), each turn of a loop leaves fewer nodes in front of it (`LoopsShorten`), so loops end (`OperationsEnd`), and it is a set of timers that fires all that is due (`ImplementsTimerSet`) |
| `server` | 1 descriptor used by successive connections, 2 workers, deadline 1 slot | an open connection has its timer - also after double dispatch and late closes (`OpenHasTimer`), one whose client stays silent is closed while alarms come (`SilentIsClosed`) |
| `server_shared` | 3 descriptors, 2 workers, queue limit 1, 2 events per `epoll_wait()` | an exclusive hand-off between main thread and workers (`HandOff`) and an exact `m_user_count` (`CountExact`) with batches of several events, several timers in one tick, a full queue that refuses a connection |
| `http_writer` | files and lists of 0 to 3 bytes, a list that does not fit, connections in succession until 2 files are lost | the client gets the response and nothing else as long as `send()` never takes a part (`WireExactIfWhole`), Content-Length is followed by as many bytes as it says or, where they did not fit, by none (`LengthAnnounced`), the open files are the one of the response under way and those of connections closed in mid-response, so that each response that ends has closed its own (`FileClosed`), no step of `write()` is in vain (`WriteGoesOn`), so it returns (`WriteReturns`) |
| `http_parser` | a buffer of 19 tokens, 12 requests (plain, bad, with each line end, with bodies and uploads shorter and longer than the buffer and one that fills it exactly), 3 requests in a row, each in at most 2 pieces | a request that was not stored over is understood as sent, whatever was before it on the connection (`ParsedAsSent`), its upload is saved as `Saved` says when the answer is "stored" and the file is left alone by every other answer, that after a failed `open()` included (`StoredIsUploaded`), what `m_readbuf` does not hold is in the temporary file, in the socket or under way, once and in order (`SpillComplete`), the terminator is written behind the buffer only by a request that fills it (`TerminatorInside`), and with proper line ends it is answered (`IntactIsAnswered`) |
| `user_store` | 2 workers, 2 names, 2 passwords, 3 requests, 2 starts, a table with and without a key | a registration answered with success is in the database, and the map knows nothing else unless a query failed (`ToldIsStored`); with a key on the name two clients are never both told it is theirs (`OneOwner`); the lock is given back (`RequestsAnswered`) |
| `async_log` | 2 writers of 6 lines and 1, a queue of 2, a new file every 2 lines, one midnight, restarts while at most 2 lines are begun; once 4 are begun only a thread that alone logs goes on | a line is in one place and once, and nothing is lost while one thread logs (`NothingVanishes`), lines of a thread are in order but for those written past a full queue (`InOrderUnlessFull`), while one thread logs a file gets from one start of the program its lines and at most the backlog of the one before (`FileBound`), every queued line is written (`EveryLineWritten`), and the log is a log book (`ImplementsLogBook`) |
| `one_shot`, `alarm_lost`, `closes_inactive`, `partial_send` | as above | the findings below |

Why the bounds are enough. A wakeup can only be lost to another worker or caller:
two of each and two requests give every pair of them, and a limit of one lets the
queue reach its limit, its limit plus one and refusal. Four timers give an inner
node with inner neighbours, so that every branch of the list is taken with and
without a neighbour on either side; deadlines one apart with three clock values
give equal, earlier and later deadlines. One descriptor suffices for
reuse, since what a stale timer or late worker hits is the next connection on the
SAME descriptor; three connections with two workers leave one request waiting,
and with the limit of one a queue that refuses is reached (`server_shared`, and
in `server` by double dispatch). Three bytes of a file give a first, a middle and
a last piece. The parser's buffer is chosen so that one upload fits exactly, one is longer and
the others are shorter; two pieces put one cut at every place of a request, between a CR
and its LF too, and every further piece is stored where the second is; three requests give one that leaves something behind, one that meets it, and
a third that meets what the second made of it (a shorter upload over a longer one). The race between
two registrations needs two workers; three requests let a third look at the outcome, two starts put a restart behind
it. A line is lost, or overtakes others, when a queue of two is full: four lines fill the queue and
the flush thread's hand and pass it once, and a second writer can fill it in between. What `FileBound`
grants a later file is 2 + 2 + 1 lines, so the writer that logs alone has six, as many as could exceed
it: a wrong change of the file can put all six into one. A restart
behind at most two lines meets a file of the same day that is empty, has lines in it, or is full.
Two lost files show that the count of `FileClosed` goes on with the next connection.

Named bounds: `SemMax` (waits are interrupted only while fewer posts are
unclaimed), `MaxTime`, `Fits` (responses `m_writebuf` holds), `Slack` (how far
below zero `m_user_count` is followed), `Arrivals` (no client arrives while no
descriptor is free), `MaxEvents` (10000 in the code, 2 or 3 in the runs), `MaxRequests`, `MaxPieces`, `MaxStarts`, `MaxLost` (no connection is accepted once so many files are lost), `Lines` (what the writers write), `Crowd` and `Early` (see `async_log`), `LastDay`, `TTL` (3 slots in
the code, 1 in the runs: the number of slots only delays the same events). `server_shared` has symmetry and stops
at disturbed states (`CONSTRAINT Undisturbed`), of which `HandOff` and `CountExact` say
nothing and which never become undisturbed again, and at states where an alarm was
lost, from which nothing else happens than without an alarm. `OpenHasTimer` beyond
disturbances is `server`'s question. `CHECK_DEADLOCK FALSE` stands
where the system may stop: after the pool is destroyed, after the program ends,
after a connection is closed and no further one is accepted, when clients have nothing more to ask,
and when late closes have leaked every descriptor.

What the disturbances are. `HandOff`, `CountExact` and part of `OpenHasTimer` are
claimed until a connection was reported twice under its first registration
(`Refired`) or a tick closed one a worker held (`Reaped`): from there on two
threads use one object, with consequences that depend on memory the code leaves
unprotected. Everything after a disturbance is still explored, and what
`OpenHasTimer` and `SilentIsClosed` claim there holds (run `server`) - of the model: after a
disturbance `users_timer[f]` may point to a freed timer, which `main()` follows and even relinks
(`main.cpp:149-151`). Here that changes nothing, in the program it may do anything, so what
`OpenHasTimer`, `SilentIsClosed` and the theorem `NoneImmortal` say of disturbed states they say only
as far as the freed memory is harmless. Nor does `HandOff` claim anything of the tick that
closes a connection a worker holds: that is the disturbance `Reaped` itself.
`HandOff` without its premise is false; `one_shot` shows it.

### Fairness

* `ThreadPool`: each thread that can run does (weak fairness per thread), and one
  that waits for the mutex gets it if it is free again and again (strong fairness
  of `WorkerLock`: a POSIX mutex is not starved for ever by two others). Nobody is
  obliged to append; nothing is assumed of interrupted waits or of `Destroy`.
* `TimerList`: a call that has begun goes on.
* `Server`: the main thread handles the events it has collected and runs
  `timer_handler()` after the batch when an alarm was received, workers run, time
  passes, and a signal waiting in the pipe is reported in the end (strong fairness: the
  pipe is level-triggered, and `epoll_wait()` takes 10000 events at a time, more than
  there are). No fairness of clients: they may be silent for ever. Ticks themselves
  are not assumed: main() may miss a SIGALRM (`ReadSignals`) and then none follows, which is
  why `SilentIsClosed` ends there.
* `HttpWriter`: `write()`'s loop goes on once entered. Nobody has to call it again
  after EAGAIN.
* `HttpParser`: what was sent arrives, and the server's steps - of which at most one kind can
  be taken at a time, since main thread and worker take turns - go on. Nobody has to send or to hang up;
  a connection whose client hung up is closed in the end (EPOLLRDHUP).
* `UserStore`: each worker that can run does, and one that waits for `m_lock` gets it if it is
  free again and again. Nobody has to ask, to crash or to start the program again.
* `AsyncLog`: a writer inside `write_log()` and the flush thread run; nothing is assumed of
  wakeups without a broadcast, of midnight, of new lines or of the program's end.

## Proofs

TLC checks the instances above; TLAPS proves, for every value of the constants that the
module's assumption admits, every invariant, every safety action property and every
refinement the passing runs check, and three properties more (`DeadlineHolds`, `LoopsAdvance`,
`AwakeForLines`), which TLC found to hold on the runs' instances before they were proved:

| Module | Theorem | States |
|---|---|---|
| `ThreadPool_proofs` | `TypeCorrect`, `MutualExclusion`, `TestsHold`, `WakeupNeverLost` | `[]TypeOK`, `[]LockDiscipline`, `[]TestsStillHold`, `[]NoLostWakeup` |
| | `PoolImplementsQueue` | `ImplementsRequestQueue` |
| `TimerList_proofs` | `TypeCorrect`, `OneChain`, `NothingDangles`, `StaysAscending` | `[]TypeOK`, `[]Linked`, `[]NoDanglingPointer`, `[]AscendingIfMonotone` |
| | `NoTurnInVain` | the action property `LoopsShorten` |
| | `ListImplementsSet` | `ImplementsTimerSet` |
| `Server_proofs` | `TypeCorrect`, `NeverShared`, `UsersCounted`, `NoneImmortal` | `[]TypeOK`, `[]HandOff`, `[]CountExact`, `[]OpenHasTimer` |
| | `SilentRunsOut` | the action property `DeadlineHolds` |
| `HttpWriter_proofs` | `TypeCorrect`, `WholeSendsAreExact`, `LengthsAnnounced`, `FilesClosed` | `[]TypeOK`, `[]WireExactIfWhole`, `[]LengthAnnounced`, `[]FileClosed` |
| | `WriteNotInVain` | the action property `WriteGoesOn` |
| `HttpParser_proofs` | `TypeCorrect`, `UnderstoodAsSent`, `SpilledInOrder` | `[]TypeOK`, `[]ParsedAsSent`, `[]SpillComplete` |
| | `UploadsSaved`, `TerminatorKept` | the action properties `StoredIsUploaded`, `TerminatorInside` |
| | `LoopsEnd` | the action property `LoopsAdvance` |
| `UserStore_proofs` | `TypeCorrect`, `NoAccountForgotten`, `NamesHaveOneOwner` | `[]TypeOK`, `[]ToldIsStored`, `[]OneOwner` |
| `AsyncLog_proofs` | `TypeCorrect`, `LinesKept`, `FilesInOrder`, `FilesBounded`, `NoSleepOnLines` | `[]TypeOK`, `[]NothingVanishes`, `[]InOrderUnlessFull`, `[]FileBound`, `[]AwakeForLines` |
| | `LogImplementsBook` | `ImplementsLogBook` |

All have one shape: a lemma `Invariant == Spec => []IInv` from `Init => IInv` and a step lemma
per part of `IInv`, each with one step per action; the theorem follows from `IInv`, or, for an
action property or a refinement, from `IInv` and one step.

### What is assumed

Nothing but the assumption named in each module: thread, descriptor and timer sets are finite
(where something is counted) and the distinguished values are no elements of them; limits and
sizes are natural numbers, positive where a zero would make no sense of the code. The bounds
(`SemMax`, `MaxTime`, `MaxRequests`, `MaxPieces`, `MaxStarts`, `MaxLost`, `Crowd`, `Early`, `LastDay`, `Fits`, `Slack`, ...) are
constants too, so the theorems hold whatever they are. Two say more about the environment.
`WriterAssumption` has the buffer longer than an error response (1024 bytes in the code).
`ParserAssumption` says what a client sends that keeps to the protocol: one body as long as every
Content-Length says, which is not 0, and a form of one part. It also keeps header lines apart from
line ends and pieces of a body, which on the wire they are by their text.

### The arguments

* `ThreadPool`. `IInv` is `TypeOK /\ LockDiscipline /\ RequestHeld /\ RoomToPush /\
  TestsStillHold`. `TestsStillHold` is not inductive by itself: that `front()` finds a request needs that
  nobody else is between the test and the pop, which is `LockDiscipline`, and that the list
  stays within limit plus one needs that the size test still holds at the push
  (`RoomToPush`). The refinement needs that a thread inside `append()` or past its pop holds a
  request (`RequestHeld`). `NoLostWakeup` compares a length with the semaphore and two
  cardinalities: `Counted` reduces how an action moves a thread into or out of the two sets to
  adding or removing one element; whatever pops a request, or claims a post, is itself a worker
  on its way to the list, or was one.
* `TimerList`. `Chained` says that there is a row of the members of the list which `head`,
  `tail`, `next` and `prev` follow, sorted unless the clock was set back. Each branch of the operations removes
  the k-th node of a row or puts one in behind it; the lemmas `...Without` and `...With`
  say once what that does to each pointer, whatever k is. In the middle of `adjust_timer()` the
  node it moves is not in the row (`Members`), `Walking` says what it still points to; `Blank` is
  what the constructor sets and a freed node is not asked about. That the
  list is sorted after a move to the end needs that no deadline lies ahead of the next one
  (`Recent`). `Linked` has the row as a ranking of the live nodes; that no two have one rank is part of it, as
  a ring beside the chain would otherwise satisfy it. `LoopsShorten` needs that the walk goes along the row:
  the nodes behind `at` in it are closed under `next` and `at` is not among them. The refinement maps the live nodes, and a step inside an
  operation, to `TimerSet`'s.
* `Server`. As long as nothing is `disturbed`: the pool has a connection once (`Once`), what it
  has cannot be reported (`Apart`), a response in `m_writebuf` is on its way to `EPOLLOUT`
  (`NothingLeft`), so that `process_write()` does not fail and no worker closes a connection
  (`NobodyCloses`), so that `m_user_count`, which workers change without a lock, is exact
  (`Counted`). None of the five is inductive without the others. `OpenHasTimer` needs `TimerOfOpen`,
  which holds after a disturbance too, and so does `DeadlineHolds`: the handlers that set a timer handle an
  event of its connection, `accept()` sets one of a descriptor that is free.
* `HttpWriter`. `FileClosed` counts descriptors: `m_fd` is one exactly while a response has its
  file, every way out of `write()` gives it back first, and only `close_conn()` in mid-response drops one,
  which it adds to `lost`. Between responses all is as `init()` leaves it (`Cleaned`); `byte_have_send` and
  `byte_to_send` share out `m_writebuf`, `m_offset` and `m_len` the file (`Counted`); with whole
  sends nothing is sent or `m_writebuf` and `m_offset` bytes of the file (`SentWhole`). `LengthAnnounced` names
  the header lines and where they stand; a response that lacks one, or has its body cut, violates it. `WriteGoesOn` needs that while a response is under way its
  file is open and as long as its header says, or there is nothing of it to send (`Present`): `sendfile()` at
  the end of a file returns 0, and the loop would turn for ever.
* `HttpParser`. For a request under way that `recv()` never stored over (`Alone`): the
  temporary file, the socket and the network together hold what is not in `m_readbuf`
  (`Streamed`), in the order sent, and `tmplen` is the length of the file but for what a
  reset connection left uncounted, which is `SpillComplete`; from `m_start_line` on the buffer is as sent and then zero (`Held`); and what
  `process_read()` knows after h headers is what they say (`Parsed`, with `Understood(h)`; `m_url` and
  the boundary are places whose tokens must not have been written over). What a request leaves
  behind must not reach the next one: `EmptyIsFresh` says that the buffer is empty only as `init()`
  leaves it, `NothingLeft` that nothing of an answered request is left to arrive on a connection
  that is kept. `UploadsSaved` joins `Streamed` and `Held`: what is written to the file is the buffer's part
  of the body and then the temporary file, together what was sent; of an upload that ends in
  `UploadStuck` nothing more is claimed. `Due` has an upload
  whose head alone fills `m_readbuf` refused, as its form is not there to be searched.
* `UserStore`. A worker whose query succeeded has its row (`RowAdded`); with a key on the name no
  two rows share one (`KeyHolds`); nobody is inside `do_request()` while the program is down (`DownIsOut`). What was
  told to a client is never contradicted, as the rows only grow.
* `AsyncLog`. A line is nowhere before `write_log()` is done with it (`Known`), then somewhere
  (`Kept`), but not twice (`Distinct`); along files, hand and queue only a line its writer wrote
  itself is before an older one of the same thread (`Ordered`); while one thread logs, `push()` finds the
  room `full()` saw (`Room`). `FileBound` has an invariant of its own on top: what the file is called
  (`FileNamed`), how dates run (`DaysInOrder`), and that what is in the file or under way to it is counted by
  `m_count` or was in the backlog (`Bounded`).
  These lemmas are about the steps of a running program (`Running`); a restart has its own
  (`RestartInv`), as it empties queue and hand, starts the count at the lines now in the files
  (`base`), and what it finds nowhere is `gone` for good (`NowhereElse`).

### Induction over data

The library's induction theorems take an operator as a parameter, which the installed provers cannot
instantiate. Where a proof has to follow a sequence to its end it takes the least
counterexample instead, as a set of numbers (`LeastNat`): `FlattenSteps` and `HeaderLines` show so
what a request with any number of headers looks like on the wire. What the parser makes of it needs no induction
of its own, as it goes by steps.

### Model-checked only

What rests on fairness, which with ENABLED is out of the proof system's reach. What the code has to
contribute to each of these is proved; that threads which can run do run is the rest:

| Liveness property | Proved about it |
|---|---|
| `EveryRequestServed` | no wakeup is lost and the mutex is given back (`NoLostWakeup`, `LockDiscipline`); the queue is first in, first out (`ImplementsRequestQueue`) |
| `OperationsEnd` | each turn of a loop has fewer nodes in front of it (`LoopsShorten`) |
| `SilentIsClosed` | the timer is there (`OpenHasTimer`), its deadline is not put off and not passed by (`DeadlineHolds`) |
| `WriteReturns` | each step sends bytes or comes nearer to doing so or to returning (`WriteGoesOn`) |
| `IntactIsAnswered` | the loops of `read()` and `process_read()` end (`LoopsAdvance`); what was read is understood (`ParsedAsSent`) |
| `RequestsAnswered` | the owner of `m_lock` is the worker inside the critical section (`TypeOK`) |
| `EveryLineWritten` | the flush thread does not sleep on a line (`AwakeForLines`); what it takes it writes, in turn (`ImplementsLogBook`) |

The runs that expect a violation show counterexamples, of which there is nothing to prove.

## Findings

1. `threadpool.h:55` tests `>`: the queue holds one request more than
   `m_max_requests`, called its maximum length at line 20 (`TestsStillHold` states the
   limit that holds).
2. `http_conn.cpp:44` computes `event.events | EPOLLONESHOT` and drops the result: a
   new connection is not one-shot until the first `modfd()`, so two workers can
   process it at once (`one_shot`).
3. `main.cpp:120` closes a connection that hung up and leaves its timer in the list;
   it later closes the next, active connection on the same descriptor
   (`closes_inactive`).
4. `main.cpp:130` tests `signals[i]`, `i` being the index of the event: a SIGALRM reported
   behind another event is compared with an uninitialised byte and missed, and no
   alarm follows (`alarm_lost`).
5. `http_conn.cpp:473` offers `m_writeidx` bytes again after a partial `send()`: bytes
   behind the response reach the client (`partial_send`).

6. `http_conn.cpp:144` stores every piece of a request at the start of `m_readbuf`: a request
   that arrives in two `recv()` calls is misread or never answered. `ParsedAsSent` and
   `IntactIsAnswered` speak of requests it did not happen to (`intact`).
7. `http_conn.cpp:428`: a line `parse_line()` finds bad is treated like one that is incomplete;
   the client is not told 400 but waits for its timer (`ParsedAsSent` says that only lines that end
   in CR LF are answered).
8. `http_conn.cpp:312`: the end of an uploaded file is taken back by two bytes, not four: it is
   saved with the CR LF in front of the last boundary. `http_conn.cpp:309`: without a boundary in
   the string - the file has a zero byte, or the request is longer than the buffer - the last
   boundary is saved with it. `Saved` states both.
   `http_conn.cpp:315`: what `open()` returns is not looked at. When it fails, as for a name with a `/`
   in it, the upload is answered with success (`http_conn.cpp:325`) and nothing is saved, or, when a part
   of it is in the temporary file, `read_file()` tries for ever to write that to file -1 (`StoredIsUploaded`
   tells "stored" from "unsaved", `IntactIsAnswered` excepts `stuck`).
9. `http_conn.cpp:260` writes the terminator of a body behind `m_readbuf` when the request
   fills it (`TerminatorInside`).
10. `http_conn.cpp:358` sends the INSERT through the member `mysql`, which nothing sets:
    `initmysql_result()` has a local variable of that name (line 23).
11. `log/log.cpp:71` changes the file when a line is counted, not when it is written: a later file can
    hold a full queue and one line more than `m_split_lines` (`FileBound`). The same bound does not count
    what the day's file had before the program was started again: `log/log.cpp:55` opens it for append
    and counts from 0.

Behaviour the models contain and no property claims, because the code does not
keep it: a file list that does not fit is announced in the header and left out
(`RespondList`; `LengthAnnounced` excepts it); the file of a response is not closed when the connection is closed
in mid-response (`FileClosed` counts it in `lost`); `write()` does not return when `open()` failed or
the file shrank (`WriteReturns` excepts it), nor `read_file()` when `mkstemp()` failed, or `open()` for an
upload of which a part is in the temporary file (`IntactIsAnswered` excepts both); an upload is answered 200 and not
saved when `open()` failed; a long request that is not an upload, or an upload that is refused, leaks its
temporary file, of which `init()` forgets the descriptor; a shorter upload leaves the end of a longer file of its name behind it;
once two workers share a connection,
one that closes late leaves a descriptor leaked and `m_user_count` wrong; the map keeps a user
whose INSERT failed, until the next start (`spoilt`); two writers that fill the queue at once lose a line
(`PushRefused`); lines still queued when `main()` returns are lost (`LogBook`'s `End`).

## Not modelled, and the plan

Every safety property the runs check is proved. What could be added: the composition as theorems.
`Server`'s actions on the pool are `RequestQueue`'s by construction, and `PoolImplementsQueue` shows that the
pool does no others. `Server`'s timers are slots left per descriptor; that
`TimerSet`'s deadlines give it these slots is argued here and not proved.

Left out for good, and why:

* SIGTERM and the end of `main()` (`main.cpp:175-181`): workers are detached, and what one meets in `users[]`
  after `delete[]` is undefined until the process ends; a model could claim nothing of it. The loop over
  `signals[]` that may miss a SIGTERM is `Server`'s `ReadSignals`.
* `accept()` returning -1, which indexes the arrays of `main()` out of bounds (`main.cpp:103`): excluded by `Arrivals`.
* The connection pool: its list, semaphore and mutex are used once, by `main()` alone before any worker
  exists, which takes one connection for `initmysql_result()` and gives it back. Nothing ever waits in it or
  contends for it, so a model could check only what does not happen here. `DestroyPool()`, which unlocks
  twice (`sql_connpool.cpp:76`), runs when the process exits.
* A short `::write()` of an upload (`http_conn.cpp:316`), as on a full disk: its result is not looked at. A failed
  `open()` of the same line is modelled.
* `locker.h`'s `signal()` and `timedwait()`, `block_queue`'s `clear()`, `front()`, `back()` and the `pop()` with a
  timeout: nobody calls them.
* Wording and layout of pages, headers and log lines - so also a log line longer than its buffer
  (`log/log.cpp:96`), a file list longer than its string, a login body without `&` -, names
  of files, addresses, ports and socket options. `m_len` is an `int`: files of 2 GB and more are outside `HttpWriter`'s sizes.
* The load generator (vendored, a client), the pages under `resources/`, the `Makefile`.
