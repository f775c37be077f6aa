# A TLA+ model of the Epoll audio server and its client

This directory models the server (`src/audioserver`) and the client
(`src/audioclient`) of the repository in TLA+: their start-up, their
configuration, their network loops and threads, and how they end. TLC checks
the models on small instances; TLAPS proves the main results for every value of
the constants.

## 1. The system

A client sends audio messages `[NetMsgHeader | data]` over TCP. The server has
one network thread, a set of data queues, worker threads that take messages off
the queues, a status thread that prints counters, and a main thread that starts
and joins the others. The client is a library: `send_pcm` puts data into a local
queue, a network thread connects, sends it and reconnects when the connection is
lost, `close_audio_client` stops the threads.

```
init_audio_client, send_pcm, close_audio_client
        | EnDataQueue          ClientManagement::netWorkFunc
        +--> m_pQueueLocalRcv --> DeDataQueue, TcpClient::sendData --> TCP

clients ==TCP==> EpollServer::epollRun ==callback==> AudioServer::readFunc
                     (listen thread)                      | EnDataQueue
                                                          v
   main: StartServer ... SIGINT ... ~AudioServer    g_pRcvDataQueue[0..N-1]
                                                          | DeDataQueue
   status thread: outputStateFunc  <--- counters ---  workerFunc(0..N-1)
```

| Component | State it keeps | Operations | Interacts with | Correct when |
|---|---|---|---|---|
| Message parser, `AudioServer::readFunc` (AudioServer.cpp 289-496) | `EpollMateData`: buffer, size, start position, bytes read, bytes wanted; byte counters | recv, header check, scan for the next header, enlarge, move, enqueue, consume | the socket; `EnDataQueue`; its return code decides whether `epollRun` closes | what is queued is what was sent; no byte is lost from the accounts; no access behind the buffer; the socket is emptied |
| Network loop, `EpollServer` (EpollServer.cpp 117-290) | sockets, epoll set, event batch, `g_TransMap`, `m_iClientCnt` | accept, dispatch, re-arm, close | kernel; the read and write callbacks | no wake-up is lost; no stale event; exact count; every client is served; it stops on SIGINT |
| Process and threads, `AudioServer`, `systemInitialize` | `g_isExit`, thread handles, counters | `StartServer`, `~AudioServer`, `workerFunc`, `outputStateFunc`, `threadScanThread` | all share `g_isExit`, the queues and the counters, mostly without locks | order and conservation of messages; consistent reports; clean shutdown |
| Data queues, logs: `libmmdecoder.so` | bounded queues with push and pop counters | `EnDataQueue`, `DeDataQueue`, `GetDataQueueInfo` | binary only; modelled from the calls | external |
| Result sending, `writeFunc` | result queue of a connection | send results | nothing fills the queue | not exercised by this code |
| Client network thread, `ClientManagement::netWorkFunc`, `TcpClient` | `g_networkError`, socket; send state (`pSendBuf`, `iWantSendLen`, `iSentBytes`); receive state | connect, receive, take, send, reconnect | server; queues | accepted data is sent once, in order and to the end of what it announces; connections begin with a header; no descriptor is lost |
| Client API and life cycle, `AudioClient.cpp`, `ClientManagement` | the object, its threads and queues, the library's function pointers, `g_isExit` | `init_audio_client`, `send_pcm`, `close_audio_client` | network, status and result thread; timer; caller | closing ends and leaves no thread; nothing deleted or missing is used |
| Start of the server, `main`, `already_running`, `requestListenFunc` | the pid file and its lock, the listening socket | daemon, lock, write the number, bind, listen, die or leave | other servers on the machine; the kernel that cleans up | one server per directory; a dead server refuses nobody; the port is passed on |
| Configuration, `CCfgFileParser`, `readConfig`, `readFunctionConfig` | sections and keys, the settings | parse, look up, check, make the log directory | the files (both calls are commented out) | the content is what the lines mean; a program that goes on has usable settings |
| WAV and file utilities, the `New-TCP`/`Old-TCP` variants | - | - | - | not modelled (section 8) |

**Hard behaviours.** Messages arrive in pieces of any size; the callback must empty an
edge-triggered socket; `errno` is read after calls that do not set it; connections end
while their events wait in a batch; SIGINT comes anywhere; the status thread reads
counters while they move; several workers share the work of one connection. On the
client, connections break between two pieces of a message and while the caller sends or
closes, a header is examined before all of it has come, and a thread works on the object
that was made first, whatever the caller deleted since. Servers are started, killed and
started again while the pid file, its lock and the port of the one before are still
there. PROJECT.json lists these hazards at their lines, each with the properties that
cover it or the reason why none does.

## 2. The modules

| Module | What it models |
|---|---|
| `ReadFunc` | `readFunc` on one connection, byte by byte (in cells) |
| `ReadFuncProofs` | its theorems |
| `EpollServer` | `epollRun` with many connections; `readFunc` by its return codes |
| `EpollServerProofs` | its theorems |
| `ReadCallback` | abstract: what the network loop and a read callback promise each other; the two modules above implement it |
| `AudioServer` | the threads of the process, queues, status reports, start and shutdown |
| `LossyFifo` | abstract: what the server promises about messages |
| `AudioServerProofs` | the theorems of both, and the refinement |
| `ClientNet` | the client: API calls, threads, connecting, sending, reconnecting |
| `ClientNetProofs` | its theorems |
| `ClientRecv` | the other half of `netWorkFunc`: cutting what it receives into messages |
| `ClientRecvProofs` | its theorems |
| `ClientLife` | sessions of the client: init, exceptions, objects, library, closing |
| `ClientLifeProofs` | its theorems |
| `Startup` | server processes that start, lock, listen, serve and end |
| `StartupProofs` | its theorems |
| `CfgParser` | `CCfgFileParser`, with the meaning of each line as the reference |
| `ReadConfig` | `readConfig` and `readFunctionConfig` over `CfgParser` |
| `ReadConfigProofs` | the theorems of both |
| `MC...` | constants for TLC, one module per model that is run |

The three server models overlap on purpose: each looks at the same network thread at
its own grain. `ReadFunc` has every byte of one connection; `EpollServer` keeps
of a callback only recv results, `errno` and the return code; `AudioServer`
keeps of both only that a message has been completed.

What ties `ReadFunc` and `EpollServer` together is `ReadCallback`. It has one
connection: what its socket holds, whether its peer is there, `errno`, and
whether the loop, the callback or nobody has it. The loop may call back only for
a socket that is readable or whose peer is gone; `errno` may be anything then.
The callback may take data, and return when `recv` gave it nothing or
`g_isExit` is set, with the code that `errno` makes of it; it may crash.
`ReadFunc` implements it with `unread` its `Available` and `at` the `WhereInLoop`
of `pc`, checked by `readfunc` and proved; `EpollServer` implements it towards
each connection, which is proved (`Contract` in `EpollServerProofs`). So what
`EpollServer` assumes of callbacks is what `readFunc` does, and `ReadFunc`
assumes of the loop what `epollRun` does. `EpollServer` leaves the crash out.

### ReadFunc

A header is `H` cells, the first with the confirm number and `m_iMsgLen`, the
last with `m_iMsgType`; a cell of the buffer is the index of the stream cell it
holds. So copies, moves and overwriting are exact, and it is visible whether a
queued message is made of the cells that were sent.

| State | Code |
|---|---|
| `rcvBuf, rcvBufSize, rcvStartPos, readLen, wantReadLen` | the fields of `EpollMateData` |
| `headerErrBytes, totalRcvBytes, discardBytes` | the counters |
| `errno`, `pc`, `isExit` | thread-local errno, where the callback is, `g_isExit` |
| `stream, arrived, taken, peer` | the peer and TCP (external) |
| `queued, validBytes, split` | history |

`Callback` is the entry of `readFunc`; `LoopEnds`, `RecvData`, `RecvZero` and
`RecvFails` are the outcomes of one turn of the loop up to `recv`; the five
`FindHeader` actions are one pass from the label `FindHeader` to the test of the
body (lines 350-440), including enlarging and moving in `Settle`; `Enqueue` and
`SkipType` are lines 442-491. `Overrun` says that an access behind the buffer
may kill the process; if it does not, what is read there is zero. One such access
is on the entry: `readFunc` tests the header at `pBuf` before it receives
anything (lines 297-300), also when messages have filled the buffer to its end
(`EntryOverrun`). `errno` is
nondeterministic where other calls (log output) may set it. The branch for
messages above 512 MB is dead, since a valid header announces less than 64 MB;
the assumption `TooLargeIsDead` states this. `memcpy` on overlapping regions
(line 433) is modelled as the forward move that the target's C library does.

### EpollServer

Sockets, peers, portions of unread data, epoll's registered set and ready list,
the batch of events, `g_TransMap`, `m_iClientCnt`, `errno` and the position of
the thread. `EpollWait` takes the whole ready list into the batch, in any order;
the listening socket is level-triggered and stays ready while connections wait.
`DispatchListen`, `DispatchIn`, `DispatchOut` are the branches of the event
loop, `Accept`/`AcceptFails` the accept loop, `RecvData`/`RecvZero`/`RecvFails`/
`ReadStops` the callback with what `epollRun` does after it returned: `Rearm`
(`EPOLL_CTL_MOD`) or `CloseConnection`. Because `getOldEpollMateData` always
answers false, the branch that reuses an old `EpollMateData` never runs and is
left out; so are the `EPOLLERR`/`EPOLLHUP` branch (TCP reports `EPOLLIN` along
with them) and the closing part of the `EPOLLOUT` branch (`writeFunc` returns no
negative code with an empty result queue). `Faults` makes `EPOLL_CTL_ADD` fail
and callbacks run out of buffer room.

### AudioServer and LossyFifo

Every thread's position is `thread[t]`; threads are numbered in the order in
which `StartServer` creates and `~AudioServer` joins them. The listen thread
counts a message (`Receive`), gives it to `EnDataQueue` (`Enqueue` or
`Refused`), and counts a refused one (`Discard`). A worker tests `g_isExit`,
then takes (`Take`) or finds nothing (`TakeNone`). The status thread reads the
queues one at a time (`Snap`), `g_iRcvPcmBlockCnt` twice in either order
(`ReadRcv`, `ReadInc`: two arguments of one call), the discards
(`WriteStatus`), and the receive counter once more (`Keep`). Main creates
(possibly failing), waits for SIGINT, joins; a join of a thread that could not
be created may fail or kill the process, since its `pthread_t` was never
written.

`LossyFifo` is the promise: a message is dropped when offered or delivered once,
in order. `AudioServer` implements it with `chan` the one queue in use and `got`
what the workers took. That the code resets `idx` for each message, and so uses
one queue only, is what makes this true: with the queues used in turn (a mutant)
workers overtake each other.

### ClientNet

Data is counted in units; a unit stands for one or more bytes that TCP takes
together, and the first unit of a message holds its header. A call of `send_pcm`
is a record of the size of its data and of the length its first bytes announce,
because `netWorkFunc` takes the length to send from the data and not from the
queue (ClientManage.cpp 539); `send_pcm` does not enqueue the header it fills.

| State | Code |
|---|---|
| `isExit`, `networkError` | `g_isExit`, `g_networkError` |
| `app`, `at`, `thread` | where the caller and the threads are |
| `sock`, `open`, `linkUp`, `conns` | `TcpClient::sock_fd`, the descriptors held, whether the connection works, how many were made |
| `given`, `accepted`, `queue` | calls of `send_pcm`, those enqueued (history), `m_pQueueLocalRcv` |
| `cur`, `want`, `sent` | `pSendBuf`, `iWantSendLen`, `iSentBytes` |
| `handed` | history: the units TCP took, with connection, message and position |

`Create`, `Created`, `Close`, `Join` and `Closed` are `init_audio_client` and
`close_audio_client` with `initThreadFunc`, `~ClientManagement` and
`~TcpClient`. `LoopTest` to `Retry` are `connectToServer` and its loop,
`RecvNothing` and `RecvLost` the answers of `recv`, `TakeNext` and
`NothingToSend` the label `SEND`, `SendSome` and `SendFails` the answers of
`send`. After `RecvLost` the socket keeps its number until `connectServer`
overwrites it, so that the descriptor stays open. `send` never returns 0 for a
length above 0, so the branch that closes the socket and drops the message
(lines 564-570) is dead.

### ClientRecv

The receive buffer of the client, like that of `ReadFunc` cell by cell, because the code
differs where it matters: `recv` writes to `pBuf + iReadLen` but is offered `iRcvBufSize
- iReadLen` bytes, although `pBuf` stands `iRcvStartPos` bytes into the buffer; the
header is examined whether or not all of it is there; the scan bound is unsigned and
wraps; a message above 512 MB drops all that was read, if it is also longer than the
buffer (`Refuses`); a new connection starts with an empty buffer. A confirm number takes
`C` cells, so that it can be cut in two. `RecvBeyond` and `ScanBeyond` are the turns
that leave the buffer: the model ends in `"overrun"` and `"undefined"`, and says nothing
of what follows. The first needs no header examined too early: whole messages lead
there, when one ends near the end of the buffer and the next is larger than what is
left. `short` is history: a header was examined with fewer than `H` cells there.
`stream` holds what all connections up to now have written, `starts` where they begin.
The result thread (`Take`) is what `ProcRcvQueueData` does.

### ClientLife

One caller and the threads of all the sessions it ever made; a round of a thread
is one step that uses the object it was given. `new` may return a place that was
deleted (`Addr`), so that a stale pointer can come to life again.
`search_management_` is `single`: the constructor sets it once, and each thread
gets the object from it, not from the session that made the thread.
`~ClientManagement` joins in the order `JoinOrder`; `free_memory_thread_` is
never created, so that its join fails or kills the process. `loadDecoderModule`
ends without a `return` on success: its result is any, and `init_audio_client`
goes on or throws. The timer threads are counted, since nothing stops them.
The log of the client is not modelled. `init_audio_client` opens it each time,
asked or not (AudioClient.cpp 133), and the network thread writes it (ClientManage.cpp
453, 499); what else is written, and the closing, depend on `g_writeLog`, which
is false as long as the configuration is not read.

### Startup

Processes, by number, on one machine, all wanting one port; a number is used
again after its process is gone.

| State | Code |
|---|---|
| `main`, `listen` | where the main thread and the listen thread are |
| `dir`, `owner`, `pidFile` | the current directory; per directory who holds the record lock and what the file says |
| `isExit`, `sock` | `g_isExit`, what `m_iServerFd` is |

`Launch` and `Fork` are the command line and `daemon`; `OpenPidFile` to
`WritePid` are `already_running`; `LoadModule` to `Destroy` are
`systemInitialize`; `Bind`, `Listen`, `Create` are the set-up by
`requestListenFunc`, which ignores their results: a server whose port is taken
goes on without one, on some other port if `listen` gives it one, with a socket
that was left blocking. `already_running` ignores the results of `ftruncate`
and `write`, too: `Truncate` may leave the file as it was and `WriteFails` leaves
out the number, and the server goes on; `unnumbered` is history, the processes
this happened to. `Sigint` and `Kill` come anywhere; `CloseFile` and
`CloseSocket` are the kernel, which closes the pid file before the socket.

### CfgParser and ReadConfig

A line is a sequence of tokens (marks, blanks, words), together with what its author
meant: a section, a key and its value, nothing, or something bad. The actions of
`parseFile` translate the code: trimming, cutting at `;` or `'\r'`, sections, `insert`
that keeps the first value. `ContentIsMeaning` compares the content with the meanings of
the lines read so far. Text and meaning of a line are tied by `FilesAssumption`: `Says`
gives, by positions in the text and without any of the parser's string functions, when a
text is a comment, a section, a setting or none of these. So a file of an instance
cannot be given a meaning that suits the parser (TLC refuses it), and the theorems hold
for every file. `ReadConfig` adds the two readers with their different tests of the
result (`< 0` on the server, `!= 0` on the client), defaults and limits, and
`myMakeDir`. They store settings one after the other and may give up in between, so
`QueueSet`, `PortSet` and `AddressSet` are what is stored up to each of these places.
`atol` gives a `long`: what the server stores in an `int` is wrapped (`int32`), and its
port has no upper limit, although `Bind` takes 16 bits (AudioServer.cpp 645). `strcpy`
copies the client's address to 20 bytes and a path to 256; words that are longer are
`HostNames` and `LongNames`, and the model ends in `"overrun"` (`ServerOverruns`,
`ClientOverruns`). A line longer than the buffer makes the copying loop endless; a line
that begins with `=` makes `strrtrim` read in front of its text. Both programs have
commented out the call of their reader; the model is of the code as it stands.

## 3. The runs

| Run | Shows |
|---|---|
| `readfunc` | accounts; nothing left behind but an empty message behind junk; contents and order of what is queued, no false header errors, and no access behind the buffer but on the entry, while no message is split; the only way to leave data in the socket; by refinement of `ReadCallback`, return codes the loop may rely on; arrived data is read |
| `epoll_safety` | no stale event, exact count, no lost wake-up, with faults and at the descriptor limit; the loop ends on SIGINT, under clients that never stop |
| `epoll_live` | every client is accepted and read, resets are closed, nothing is closed with data unread |
| `server_safety` | conservation, reports, order by refinement of `LossyFifo`, joins, with creation failures |
| `server_live` | accepted messages are processed or the server exits; shutdown completes |
| `client` | over all reconnections TCP gets the accepted data in order, once, and to the end, unless it announces less than it is and is cut there; closing ends and leaves no thread |
| `client_recv` | over all splits and reconnections: accounts; the result thread gets the peer's messages whole, from where they begin and in order, and peers that send only messages lose no byte to the header scan, unless a header was examined too early; what arrives is read, unless `recv` is told to write behind the buffer |
| `client_life` | over two sessions and all failures: no thread works on a deleted object or calls a missing function; the first session serves what is sent; closing ends all threads |
| `startup` | one server per directory, whatever fails, named by the pid file unless it failed to write it; refusals and a taken port have a living cause; SIGINT ends a server wherever it is |
| `config` | files of both programs with any line changed or added, and all files of two lines: the content is what the lines mean, a reader that gives up has stored only what it read before, the settings of one that goes on come from the file and keep the reader's limits, reading ends |
| `readfunc_intact` | violation: a message that arrives in two pieces is overwritten (AudioServer.cpp 319) |
| `epoll_duplicate` | violation: the check for duplicate connections is switched off (EpollServer.cpp 42) |

Each property of a passing run has a mutant: a plausible slip in a modelled
definition that makes TLC report the property violated. The type invariants of
the modules with theorems are proved and not run; that of `ReadConfig` is run.

### Known defects that the models contain

These are departures from what the code says of itself, or from what one would
expect. They are part of the checked behaviour, and the properties are stated so
as to allow them and nothing more; where a property has such an exception, its
comment names it.

On the server:

- `recv` with no room left returns 0 and leaves data in a socket that edge-triggered
  mode wants emptied (AudioServer.cpp 319, `AllReadUnlessFull`).
- When messages have filled the buffer to its end, the entry of `readFunc` tests a
  header behind it (AudioServer.cpp 297-300, `OverrunsOnlyOnEntry`).
- The scan stops one position early (AudioServer.cpp 369): an empty message right behind
  junk waits for the next bytes (`NothingLeftBehind`).
- The loop to empty the socket is inside the callback (AudioServer.cpp 315): one client
  that never pauses holds the network thread. `EventuallyAccepted` of `epoll_live` rests
  on clients that pause.
- At the descriptor limit `accept` fails and connections wait (EpollServer.cpp 144);
  `epoll_live` has enough descriptors.
- `recv` returning 0 leaves `errno` as it was; after `EAGAIN` the closed connection is
  kept and stays counted (AudioServer.cpp 331).
- The results of `ftruncate` and `write` are ignored (global.cpp 86, 88): a server may
  run with a pid file that is empty or names a dead one. `OneServer` asks for the number
  unless its own write failed; that there is one server does not depend on it.
- The server's `readConfig` takes half a file for a whole one (global.cpp 178).
  `SettingsInForce` asks for the whole file from the client alone.
- Numbers of the server's file are wrapped to 32 bits, and a port above 65535 is taken
  (global.cpp 198, 202, 210). `SettingsInForce` has the number of the file only if it
  fits.

On the client:

- The length to send is taken from the data, not from the length `send_pcm` was given
  (ClientManage.cpp 539): data that announces less is cut, data that announces nothing
  is dropped, and data that announces more is read behind its end. AudioDataUnit.h 90
  and note.txt speak of messages with a header of their own, which `send_pcm` fills in
  and does not put in front of the data. `NothingDropped` and `AcceptedIsSent` name the
  exception (`SentCut`, `Overrun`).
- Each reconnection leaks a descriptor (TcpClient.cpp 43); when there is none left
  nothing is sent any more (`OutOfFds` in `AcceptedIsSent`).
- The comment of `send_pcm` promises -20 for a full queue (AudioClient.cpp 146-147). The
  code returns 0, whether the queue took the data or not (lines 173-179); so `ClientNet`
  has callers that learn nothing, and `accepted` is history.
- A new connection continues in the middle of the message the old one lost
  (ClientManage.cpp 401): `UnitsInOrder` is over all connections.
- `recv` is offered more bytes than there are from where it writes to the end of the
  buffer (ClientManage.cpp 395), with ordinary whole messages, too. The model ends
  there: `IntactUnlessShort` is about what was queued up to then, and `EventuallyRead`
  names it as an exception.
- A header is examined before it is complete (ClientManage.cpp 416):
  `IntactUnlessShort`.
- `g_isExit` is never reset and `search_management_` never changes: the threads of a
  second session work on the object of the first, or end at once (ClientManage.cpp 62).
  `FirstInitServes` is about the first session. It is also why `NoUseAfterDelete` holds:
  resetting `g_isExit` is its mutant.
- Closing releases neither the queues nor the timer thread of a session.

In both readers of the configuration:

- Settings read before the reader gives up stay (global.cpp 182-207,
  ClientManage.cpp 208-219): `TypeOK` of `ReadConfig` says which.
- A path or an address may be longer than what `strcpy` copies it to (global.cpp
  95, ClientManage.cpp 137, 175), and a line longer than the buffer makes the
  parser run for ever (CCfgFileParser.cpp 57): `EventuallyReturns` names both.

## 4. Bounds

- `ReadFunc`: `H = 2`, buffer 6 cells, block 2 cells, streams of two or three
  messages: empty, short, as long as the buffer, longer than it, of another
  type, cut off, too long, with a header inside the audio, and junk of one or
  two cells. Every split into pieces occurs. So does each branch: scanning with
  and without a hit, enlarging, moving, a buffer filled to its end.
- `EpollServer`: three connections, two of one address, two descriptors and
  faults for safety, with peers that send for ever (`Endless`) and at most one
  unread portion each; two connections with two portions each (so that data is
  read in part, and more comes behind it) for liveness. Two connections are
  enough for one to starve, or be closed while its event waits; the third
  reaches the descriptor limit.
- `AudioServer`: two workers, two messages of two connections (one connection
  for liveness), queues of two: the least with which workers could overtake
  each other, a report could be torn, or a queue could be used in turn. The
  reports repeat without a bound. `MaxMsgs` is the only artificial bound and
  stands in the guard of `Receive`. `MayFail` in `server_safety` holds one
  worker and the scanner, the proofs take any set.

- `ClientNet`: two calls, a queue of one, data with a header of its own (two units) and
  without one, announcing more, less or nothing; two descriptors, and connections that
  break twice. So a message is lost half sent, the queue is full, a second message
  follows the first on another connection, and the descriptors run out. `MaxCalls` and
  `MaxBreaks` are artificial and stand in the guards of `SendPcm` and `Break`.
- `ClientRecv`: `H = 3`, a confirm number of two cells, a buffer of 8 in blocks of 4,
  and words that wrap at 32. Eight sessions: messages empty, short, longer than the
  buffer, too long, with a length that wraps to 0, with the beginning of a confirm
  number inside; junk before and between; two connections, the first cut anywhere. All
  splits occur. The queue holds one message, so that it is full.
- `ClientLife`: two calls of `init_audio_client` (the first object, another one, or its
  place again), a library that is complete and one that lacks a function, queues that
  cannot be opened, a network thread that cannot be created. `MaxInits` and `MaxSends`
  are artificial, in the guards of `InitBegin` and `SendPcm`; the theorems take any
  number.
- `Startup`: two process numbers, used again and again, and two directories, every call
  failing. No counter is bounded. A daemon and a rival of its parent at the same time
  need a third number: the theorems cover it.
- `ReadConfig`: a good file for each program, each with one line replaced by or preceded
  by any of 36 lines, and all files of two of these lines. Among them are numbers that
  do not fit an `int32_t` (TLC's own numbers have 32 bits, so 2^27 stands for 2^32 in
  the conversions), and an address and paths that are too long.

`CHECK_DEADLOCK FALSE` stands where the process really ends or a connection is
closed for good.

## 5. Fairness

On the server weak fairness only, of threads: the epoll thread takes its next
step if it can (`FairSpec` of `ReadFunc` and `EpollServer`), and each thread of
`AudioServer` does. The operating system schedules them; no lock of this code
blocks one of them for ever, `epoll_wait` has a timeout of 2 ms, and the sleeps
are finite. Nothing is assumed of clients, of the arrival of bytes or of SIGINT.
Where a property needs clients to pause, the instance has finitely many sends
(`MaxSend`); `epoll_safety` has clients that never do.

In `Startup` the same holds of the main thread and the set-up of the listen
thread of each process, and of the kernel, which closes what a dead process left
open. Nobody has to start, stop or connect to a server: so a server without its
port may wait in `accept` for ever, which `ExitCompletes` allows. In `ReadConfig`
the reader goes on.

The client's threads and library calls are weakly fair for the same reasons
(`ClientNet`, `ClientRecv`, `ClientLife`). Two assumptions of strong fairness, in
`ClientNet`, are about its environment: an attempt to connect that is made again
and again succeeds at some time (`Connected`), and a server that is connected
reads, so that `send`, tried again and again, takes something (`SendSome`). Both
are needed for `AcceptedIsSent` alone: without them the server might never be
there. `CloseCompletes` does not rest on them. That the caller ever closes is
not assumed.

## 6. What is proved

All theorems hold for every value of the constants under the named assumptions of the
modules (`SizesAssumption`, `TooLargeIsDead`, `StreamsAssumption`, `RecvAssumption`,
`ConnAssumption`, `ServerAssumption`, `DataAssumption`, `LifeAssumption`,
`StartupAssumption`, `FilesAssumption`, `NumberAssumption`, `KBWrapAssumption`,
`LogsAssumption`), which say that sizes and counts are natural numbers, identities
distinct, numbers in a file integers, that an `int32_t` holds the default port and the
default log path fits its buffer, and that a line means what its text says. TLC
evaluates them in the runs.

- `ReadFuncProofs`: type correctness and bounds of all indices; `BytesAccounted`;
  `MessageFitsBuffer`; `NothingLeftBehind`; `OverrunsOnlyOnEntry`; `AllReadUnlessFull`
  (with the exceptions that section 3 names). The invariants are strengthened by what
  holds at each position of the callback, for instance that in `message` the wanted
  bytes are there, and that at `recv` the data of an unsplit message lies within the
  buffer. `IntactUnlessSplit` rests on `IntactInv`: while nothing was split, the cells
  from `rcvStartPos` on are those of the stream that end at `taken` (`Placed`), a known
  header is the one at their front (`HeaderRead`), what is queued lies before them, and
  if the peer sends only messages, they begin at a boundary and no byte was skipped
  (`AtBoundary`). `Boundary` is a recursive function, and the prover has no induction
  over data; that it obeys its equation (`BoundaryEquation`) is got instead from the
  least fixpoint of the set of reachable positions (`ReachedFixpoint`). With it a
  message that is consumed moves the front from one boundary to the next.
  `KeepsContract` is a refinement, step by step: what happens between `find` and
  `message` does not show.
- `EpollServerProofs`: types, `EventsAreLive`, `ClientCntIsOpenSocks`, `NoLostWakeup`.
  The inductive invariant adds that registered sockets are open, that ready and batched
  connections are registered, and that a batch names a connection once. The count is a
  cardinality, so the argument uses that closing removes a member and that a finite set
  loses exactly one. `ClosesOnlyDrained` holds when callbacks have room (`"room" \notin
  Faults`, as in `epoll_live`), whatever `errno` was left behind. That the loop keeps
  `ReadCallback` needs that an event is still right when its turn comes
  (`EventsAreRight`): only the callback of a connection takes data from it, and a batch
  names it once.
- `ClientRecvProofs`: types with the bounds of the buffer (up to a `RecvBeyond`, which
  ends the model), `BytesAccounted`, `IntactUnlessShort`. `IInv` adds what holds at each
  position (`Control`) and that the cells pending in the buffer are, one after the
  other, those before `taken` (`Placed`), which, other than on the server, holds always.
  `IntactInv` is as for `ReadFunc`, over several connections: a new one moves no
  boundary of the old ones (`ConnectBoundary`, by the least position that could be
  moved, `Least`), and begins at one itself.
- `AudioServerProofs`: types (`TypeInv` adds that the last count is not larger than the
  current one, else a report could go below zero); conservation (`Counted` ties the
  queue's counters to its contents); the refinement of `LossyFifo` (`FifoStep`: every
  step is an abstract step or a stutter, using that one queue is in use), and from it
  the order of messages at the workers: a lossy fifo keeps it (`OrderIsKept`) because no
  message has a number its connection has not yet reached (`Numbered`). Further, clean
  shutdown (`LifeInv`: main has created and joined the threads below `at`) and
  consistent reports (`StatusInv`: what was read so far is below the counters that
  follow).
- `ClientNetProofs`: types; clean shutdown (`LifeInv`, as on the server); `UnitsInOrder`
  and `NothingDropped` by `OrderInv`, which says that the queue holds, in order, just
  the accepted calls after `cur`, that `sent + want` is the length of the current
  message, and that the last unit handed to TCP is the one before what is sent next
  (`Reached`): reconnecting changes none of it.
- `ClientLifeProofs`: types, `NoUseAfterDelete`, `CallsKnown`, `FirstInitServes`, for
  any number of sessions. `UseInv` is the argument: all threads work on `single`; once
  that was deleted, `g_isExit` is set and no thread is in its loop; and as long as it is
  also the last object, the threads that may be in their loop are those of its own
  session, for which the destructor waits (`JoinInv`). It rests on `g_isExit` never
  being reset.
- `StartupProofs`: types, `OneServer`, `RefusedByLiving`, `PortPassesOn`, for any number
  of processes and directories. The inductive invariant adds to the types that the lock
  of a directory belongs to the process past `F_SETLK` until the kernel closes its file
  (`LockHeld`), and that this process has written its number once it is past
  `already_running`, unless its `write` failed (`NumberWritten`). The mutual exclusion
  rests on the lock alone.

- `ReadConfigProofs`: `TypeOK`, `ContentIsMeaning`, `SettingsInForce`, for all files of
  lines of any length. `IInv` adds where the parser is (`AtPlace`): while it reads, its
  section is the one the lines so far opened last. The argument has three parts. What
  the string functions cut out of a line is described by positions (`FirstMark`,
  `LtrimSlice`, `RtrimSlice`, `TrimIsBetween`), so the tests of `parseFile` tell the
  four kinds of lines apart as `Says` does (`LineSays`). A further line adds at most one
  key, and its value only if no earlier line set it (`KeysNext`, `NoneSet`, `OneSet`).
  And what `getValue` then finds is `Meant` (`ValuesAreMeant`), from which the settings
  of each reader follow, with the wrap of the client's port to 16 bits and of the
  server's numbers to 32 (`Wraps`, `ServerIsSet`, `ClientIsSet`). The grammar itself is
  checked by two theorems: every text says something (`EveryTextSaysSomething`), so
  `FilesAssumption` excludes no file, and no text says two things
  (`NoTextSaysTwoThings`).

Every invariant and every action property of the passing runs is thus a theorem,
and so are the refinements. Only model-checked are the liveness properties of the
runs (`Eventually...`, `...Completes`, `ExitReturns`, `ExitEndsThreads`,
`AcceptedIsTaken`, `AcceptedIsSent`), because the prover does not reach fairness.

## 7. Plan

Done: `ReadFunc` and `EpollServer` with `ReadCallback`, `AudioServer` with `LossyFifo`;
`ClientNet`, `ClientRecv`, `ClientLife`; `Startup`; `CfgParser`, `ReadConfig`; the
proofs of section 6.

Left, in this order:

1. `ReadFunc` for several connections (the shared `m_bHeadErr`).
2. The composition of client and server over a TCP stream that may break, with
   the abstract specification: what reaches a worker was given to `send_pcm`.

## 8. Not modelled, and why

- `writeFunc`, `TcpSendData`, `getResultID`: no code puts a result into the result
  queue; `EpollServer` models the answer the empty queue gives.
- `TaskMap` but for `addNewNode`, and the branches of `epollRun` that no event reaches
  (section 2).
- Socket options, signal masks, and the thread scanner, which only measures the other
  threads (its start and its join are in `AudioServer`).
- `get_mem_usage`, log texts, time formatting, `g_iMaxBytePerRead`, `g_iMaxMsgByte` and
  the numbers the client's status thread prints (log values).
- The client's address queries, and functions nobody calls: `netWorkFuncOld`,
  `WriteWav2File`, `alterEpollFd`.
- WAV and file utilities: file input and output no thread of either program calls.
- `libmmdecoder.so` itself: a binary, modelled from the calls.
- `New-TCP`, `Old-TCP`, `_backup`: not built.
