------------------------------- MODULE ReadFunc -------------------------------
(***************************************************************************)
(* AudioServer::readFunc on one TCP connection: the epoll read callback    *)
(* that drains the socket into the receive buffer of an EpollMateData and  *)
(* cuts the bytes into [NetMsgHeader | data] messages.                     *)
(*                                                                         *)
(* Bytes are cells.  A header takes H cells: the first one carries the     *)
(* confirm number and m_iMsgLen, the last one m_iMsgType.  The peer writes *)
(* `stream`; cell k of it is known by its index k, and the buffer holds    *)
(* such indices (0: a byte of the buffer nothing was written to).  TCP     *)
(* delivers the cells in order, in pieces of any size.                     *)
(*                                                                         *)
(* The callback runs in the epoll thread alone.  It is split where it      *)
(* calls recv and at its label FindHeader, because the network and         *)
(* g_isExit move in between.                                               *)
(***************************************************************************)
EXTENDS Integers, Sequences

CONSTANTS
    H,              \* NET_MSG_HEADER_LEN, in cells
    MaxRecvBuf,     \* MAX_RECV_BUF_SIZE: the first size of m_pRcvBuf
    MaxNetMsg,      \* g_iMaxNetMsgByte: m_iMsgLen must be below it
    Block,          \* the 1 MB unit an enlarged buffer is rounded up to
    Streams         \* what the peer may write

DataType == {"DT_WAV", "DT_LOG"}
Cell     == [head : BOOLEAN, len : Nat, type : DataType]

\* Memory fresh from operator new[]: blocks of this size are mapped, so zero
\* pages; no confirm number, and the type byte 0 is DT_WAV.
ZeroCell == [head |-> FALSE, len |-> 0, type |-> "DT_WAV"]

ASSUME SizesAssumption ==
    /\ H \in Nat \ {0}
    /\ MaxRecvBuf \in Nat \ {0}
    /\ MaxNetMsg \in Nat
    /\ Block \in Nat \ {0}

\* A valid header never asks for the 512 MB of the branch "too large msg",
\* so that branch (and its stale pBuf) is dead code and is left out.
ASSUME TooLargeIsDead == MaxNetMsg + H <= 512 * Block

ASSUME StreamsAssumption == Streams \subseteq Seq(Cell)

VARIABLES
    stream,         \* the cells the peer writes on this connection
    arrived,        \* how many of them reached this host
    taken,          \* how many recv() returned
    peer,           \* "open", or "fin"/"rst" once the peer closed/reset
    rcvBuf,         \* md->m_pRcvBuf
    rcvBufSize,     \* md->m_iRcvBufSize
    rcvStartPos,    \* md->m_iRcvStartPos
    readLen,        \* md->m_iReadLen
    wantReadLen,    \* md->m_iWantReadLen
    headerErrBytes, \* m_iHeaderErrBytes
    totalRcvBytes,  \* g_iTotalRcvBytes
    discardBytes,   \* g_iDiscardBytes
    errno,          \* thread-local errno: "EAGAIN" or any other code
    pc,             \* where the epoll thread is in readFunc
    isExit,         \* g_isExit
    queued,         \* the messages EnDataQueue accepted, in order
    validBytes,     \* history: iTotalValidBytes, summed over the callbacks
    split           \* history: some recv found a partial message before it

net   == <<stream, arrived, taken, peer>>
md    == <<rcvBuf, rcvBufSize, rcvStartPos, readLen, wantReadLen>>
stats == <<headerErrBytes, totalRcvBytes, discardBytes, validBytes, split>>
vars  == <<net, md, stats, errno, pc, isExit, queued>>

-----------------------------------------------------------------------------
(* The receive buffer *)

ByteAt(p)   == IF p \in DOMAIN rcvBuf THEN rcvBuf[p] ELSE 0
CellAt(p)   == IF ByteAt(p) = 0 THEN ZeroCell ELSE stream[ByteAt(p)]

\* Mutant: m_iMsgLen taken for the length of the whole message.
MsgBytesNoHeader(p) == CellAt(p).len

MsgBytes(p)         == CellAt(p).len + H

\* IsValidNetMsgHeader on the header that starts at p
IsValidNetMsgHeader(p) == CellAt(p).head /\ CellAt(p).len < MaxNetMsg

TypeAt(p) == CellAt(p + H - 1).type
Available == arrived - taken

\* Mutant: the whole buffer, as if the data always started at its front.
IBufSizeStale == rcvBufSize

\* the room behind pBuf
IBufSize      == rcvBufSize - rcvStartPos

\* ((n >> 20) + 1) << 20
RoundUp(n)   == (n - (n % Block)) + Block

-----------------------------------------------------------------------------
Init ==
    /\ stream \in Streams
    /\ arrived = 0 /\ taken = 0 /\ peer = "open"
    /\ rcvBuf = [p \in 0 .. MaxRecvBuf - 1 |-> 0]
    /\ rcvBufSize = MaxRecvBuf
    /\ rcvStartPos = 0 /\ readLen = 0 /\ wantReadLen = 0
    /\ headerErrBytes = 0 /\ totalRcvBytes = 0 /\ discardBytes = 0
    /\ errno = "EAGAIN"          \* the accept loop stopped on it
    /\ pc = "idle" /\ isExit = FALSE
    /\ queued = <<>>
    /\ validBytes = 0 /\ split = FALSE

-----------------------------------------------------------------------------
(* The network and the signal handler *)

Arrive ==
    /\ peer = "open"
    /\ arrived' \in arrived + 1 .. Len(stream)
    /\ UNCHANGED <<stream, taken, peer, md, stats, errno, pc, isExit, queued>>

PeerLeaves ==
    /\ peer = "open"
    /\ peer' \in {"fin", "rst"}
    /\ UNCHANGED <<stream, arrived, taken, md, stats, errno, pc, isExit, queued>>

Exit ==
    /\ ~isExit
    /\ isExit' = TRUE
    /\ UNCHANGED <<net, md, stats, errno, pc, queued>>

-----------------------------------------------------------------------------
(* The callback *)

\* Mutant: the EPOLLHUP branch comes first.
ReadableWhileOpen == Available > 0 /\ peer = "open"

\* the socket reports EPOLLIN
Readable == Available > 0 \/ peer # "open"

\* epoll_wait reports EPOLLIN and the callback is entered.  The dispatcher
\* re-arms with EPOLL_CTL_MOD after each call, so pending data is reported
\* again.  In between the thread made other calls that may have set errno.
Callback ==
    /\ pc = "idle" /\ ~isExit
    /\ Readable
    /\ pc' = "recv"
    /\ errno' \in {errno, "EAGAIN", "other"}
    /\ UNCHANGED <<net, md, stats, isExit, queued>>

\* On entry, before anything was received, IsValidNetMsgHeader is tried on
\* pBuf for a printf.  With less than a header's room behind pBuf the process
\* may die of it; when it survives, the test has no effect (Callback).
EntryOverrun ==
    /\ pc = "idle" /\ ~isExit
    /\ Readable
    /\ IBufSize < H
    /\ pc' = "crashed"
    /\ errno' \in {errno, "EAGAIN", "other"}
    /\ UNCHANGED <<net, md, stats, isExit, queued>>

\* Mutant: 0 is taken for an error.
ReturnStrictly(code) == pc' = IF code > 0 THEN "idle" ELSE "closed"

\* The dispatcher closes the connection for a negative code.
Return(code) == pc' = IF code < 0 THEN "closed" ELSE "idle"

\* The loop condition: while (!g_isExit)
LoopEnds ==
    /\ pc = "recv" /\ isExit
    /\ Return(0)
    /\ UNCHANGED <<net, md, stats, errno, isExit, queued>>

\* recv returned data.  It is stored at pBuf, the start of the message, even
\* when readLen bytes of it are there already; fprintf may set errno.
RecvData ==
    /\ pc = "recv" /\ ~isExit
    /\ Available > 0 /\ IBufSize > 0
    /\ LET n == IF Available < IBufSize THEN Available ELSE IBufSize
       IN  /\ rcvBuf' = [p \in DOMAIN rcvBuf |->
                            IF p \in rcvStartPos .. rcvStartPos + n - 1
                            THEN taken + 1 + p - rcvStartPos
                            ELSE rcvBuf[p]]
           /\ taken' = taken + n
           /\ readLen' = readLen + n
           /\ totalRcvBytes' = totalRcvBytes + n
    /\ split' = (split \/ readLen > 0)
    /\ errno' \in {errno, "other"}
    /\ pc' = "find"
    /\ UNCHANGED <<stream, arrived, peer, rcvBufSize, rcvStartPos, wantReadLen,
                   headerErrBytes, discardBytes, validBytes, isExit, queued>>

\* recv returned 0, at the end of the stream or for want of room: errno is
\* whatever an earlier call left there, and decides.
RecvZero ==
    /\ pc = "recv" /\ ~isExit
    /\ \/ Available > 0 /\ IBufSize = 0
       \/ Available = 0 /\ peer = "fin"
    /\ Return(IF errno = "EAGAIN" THEN 0 ELSE -1)
    /\ UNCHANGED <<net, md, stats, errno, isExit, queued>>

\* recv returned -1: nothing there yet (EAGAIN), or the connection was reset.
RecvFails ==
    /\ pc = "recv" /\ ~isExit
    /\ Available = 0 /\ peer # "fin"
    /\ errno' = IF peer = "open" THEN "EAGAIN" ELSE "other"
    /\ Return(IF peer = "open" THEN 0 ELSE -1)
    /\ UNCHANGED <<net, md, stats, isExit, queued>>

-----------------------------------------------------------------------------
(* From the label FindHeader to the test of the message body *)

\* Mutant: the skipped bytes are not counted.
DropUncounted(skip) == readLen' = readLen - skip /\ UNCHANGED headerErrBytes

\* Drop `skip` bytes in front of the data.
Drop(skip) == /\ readLen' = readLen - skip
              /\ headerErrBytes' = headerErrBytes + skip

\* The room behind pos is too small for the message, or for half a buffer.
TooClose(pos, want) ==
    rcvBufSize - pos < IF want > 0 THEN want ELSE rcvBufSize \div 2

\* Drop `skip` bytes, set m_iWantReadLen, enlarge the buffer when it is too
\* short for the message, move the data to its front when the room behind it
\* is.  MallocRcvBuf resets m_iRcvStartPos.
Settle(skip, want) ==
    LET pos     == rcvStartPos + skip
        len     == readLen - skip
        enlarge == want > rcvBufSize
        size    == IF enlarge THEN RoundUp(want) ELSE rcvBufSize
        move    == ~enlarge /\ TooClose(pos, want)
        rest(p) == IF enlarge THEN 0 ELSE ByteAt(p)
    IN  /\ rcvBuf' = IF enlarge \/ move
                     THEN [p \in 0 .. size - 1 |->
                              IF p < len THEN ByteAt(pos + p) ELSE rest(p)]
                     ELSE rcvBuf
        /\ rcvStartPos' = IF enlarge \/ move THEN 0 ELSE pos
        /\ rcvBufSize' = size
        /\ Drop(skip)
        /\ wantReadLen' = want
        /\ pc' = IF want > 0 /\ len >= want THEN "message" ELSE "recv"
        /\ UNCHANGED <<net, totalRcvBytes, discardBytes, validBytes, split,
                       errno, isExit, queued>>

\* offsets at which the scan for the next header succeeds
Hits == {i \in 1 .. readLen - H - 1 : IsValidNetMsgHeader(rcvStartPos + i)}

\* The header is known already, or not complete yet.
HeaderPending ==
    /\ pc = "find"
    /\ wantReadLen > 0 \/ readLen < H
    /\ Settle(0, wantReadLen)

HeaderRight ==
    /\ pc = "find" /\ wantReadLen = 0 /\ readLen >= H
    /\ IsValidNetMsgHeader(rcvStartPos)
    /\ Settle(0, MsgBytes(rcvStartPos))

\* "wrong header": skip to the first valid one,
HeaderScanHit ==
    /\ pc = "find" /\ wantReadLen = 0 /\ readLen >= H
    /\ ~IsValidNetMsgHeader(rcvStartPos)
    /\ \E i \in Hits : /\ \A j \in Hits : i <= j
                       /\ Settle(i, MsgBytes(rcvStartPos + i))

\* or, when there is none, to where the loop gave up.
HeaderScanMiss ==
    /\ pc = "find" /\ wantReadLen = 0 /\ readLen >= H
    /\ ~IsValidNetMsgHeader(rcvStartPos)
    /\ Hits = {}
    /\ Settle(IF readLen - H > 1 THEN readLen - H ELSE 1, 0)

\* An access behind the end of m_pRcvBuf: the process may die of it.  When it
\* survives, it reads zeros (CellAt) and what it writes there is lost.
Overrun ==
    /\ pc = "find"
    /\ rcvStartPos + readLen > rcvBufSize
    /\ pc' = "crashed"
    /\ UNCHANGED <<net, md, stats, errno, isExit, queued>>

FindHeader ==
    HeaderPending \/ HeaderRight \/ HeaderScanHit \/ HeaderScanMiss \/ Overrun

-----------------------------------------------------------------------------
(* A complete message: hand it to the queue and consume its bytes *)

Message == [type |-> TypeAt(rcvStartPos),
            len  |-> CellAt(rcvStartPos).len,
            data |-> [k \in 1 .. wantReadLen |-> ByteAt(rcvStartPos + k - 1)]]

\* Mutants: one message per recv; one message per callback.
AfterMessageRecv(left)   == "recv"
AfterMessageReturn(left) == IF left >= H THEN "find" ELSE "idle"

\* goto FindHeader while there may be another message
AfterMessage(left) == IF left >= H THEN "find" ELSE "recv"

Consume ==
    /\ rcvStartPos' = rcvStartPos + wantReadLen
    /\ readLen' = readLen - wantReadLen
    /\ wantReadLen' = 0
    /\ validBytes' = validBytes + wantReadLen
    /\ pc' = AfterMessage(readLen - wantReadLen)
    /\ UNCHANGED <<net, rcvBuf, rcvBufSize, headerErrBytes, totalRcvBytes,
                   split, errno, isExit>>

Enqueue ==
    /\ pc = "message" /\ TypeAt(rcvStartPos) = "DT_WAV"
    /\ \/ queued' = Append(queued, Message) /\ UNCHANGED discardBytes
       \/ discardBytes' = discardBytes + wantReadLen /\ UNCHANGED queued
    /\ Consume

\* Any other type is consumed and forgotten.
SkipType ==
    /\ pc = "message" /\ TypeAt(rcvStartPos) # "DT_WAV"
    /\ UNCHANGED <<queued, discardBytes>>
    /\ Consume

-----------------------------------------------------------------------------
Network == Arrive \/ PeerLeaves
Recv    == LoopEnds \/ RecvData \/ RecvZero \/ RecvFails
Server  == Callback \/ EntryOverrun \/ Recv \/ FindHeader \/ Enqueue \/ SkipType

Next == Network \/ Exit \/ Server

\* The epoll thread keeps running.
Spec     == Init /\ [][Next]_vars
FairSpec == Spec /\ WF_vars(Server)
-----------------------------------------------------------------------------
(* Properties *)

\* Every variable has its type, and the indices stay within the stream and
\* the buffer.
TypeOK ==
    /\ stream \in Streams
    /\ arrived \in 0 .. Len(stream) /\ taken \in 0 .. arrived
    /\ peer \in {"open", "fin", "rst"}
    /\ rcvBufSize \in Nat \ {0}
    /\ rcvBuf \in [0 .. rcvBufSize - 1 -> 0 .. Len(stream)]
    /\ rcvStartPos \in 0 .. rcvBufSize
    /\ readLen \in Nat /\ wantReadLen \in Nat
    /\ headerErrBytes \in Nat /\ totalRcvBytes \in Nat
    /\ discardBytes \in Nat /\ validBytes \in Nat
    /\ split \in BOOLEAN /\ isExit \in BOOLEAN
    /\ errno \in {"EAGAIN", "other"}
    /\ pc \in {"idle", "recv", "find", "message", "closed", "crashed"}
    /\ queued \in Seq([type : DataType, len : Nat, data : Seq(0 .. Len(stream))])

\* Every byte recv returned is in exactly one place: consumed with a message,
\* counted as header error, or still pending in m_iReadLen.  The code keeps
\* the five counters at nine places; the sum is what the status log relies on.
BytesAccounted ==
    /\ totalRcvBytes = validBytes + headerErrBytes + readLen
    /\ totalRcvBytes = taken
    /\ discardBytes <= validBytes

\* While a message is incomplete the buffer has room for all of it, so what
\* EnDataQueue is given never reaches behind the end of m_pRcvBuf, whatever
\* was enlarged or moved before.
MessageFitsBuffer ==
    wantReadLen > 0 => rcvStartPos + wantReadLen <= rcvBufSize

\* When the loop reads again or the callback returns, the goto FindHeader
\* loop has left no complete message in the buffer: a known message still
\* misses bytes, or the bytes are too few for a header.  One exception: the
\* scan for a header (line 369) stops one position short, so that an empty
\* message in the last H cells behind bytes that were skipped is left there
\* until more comes.
NothingLeftBehind ==
    pc \in {"recv", "idle"} =>
        IF wantReadLen > 0
        THEN readLen < wantReadLen
        ELSE readLen < H \/ (readLen = H /\ headerErrBytes > 0)

\* Without a recv in the middle of a message, what was received lies within
\* m_pRcvBuf, and the one access behind its end is the test of a header on
\* entry, when messages have left less than a header's room behind pBuf.
OverrunsOnlyOnEntry ==
    ~split => /\ rcvStartPos + readLen <= rcvBufSize
              /\ pc = "crashed" => rcvBufSize - rcvStartPos < H

\* Position k of the stream is where a message starts, going from message to
\* message by their m_iMsgLen.
Boundary[k \in 1 .. Len(stream) + 1] ==
    \/ k = 1
    \/ \E j \in 1 .. k - 1 :
          /\ Boundary[j] /\ stream[j].head /\ stream[j].len < MaxNetMsg
          /\ k = j + H + stream[j].len

\* The peer sent nothing but whole messages (the last may be cut off).
WellFormed ==
    \A k \in 1 .. Len(stream) : Boundary[k] =>
        stream[k].head /\ stream[k].len < MaxNetMsg

Contiguous(m) == \A k \in 1 .. Len(m.data) : m.data[k] = m.data[1] + k - 1

\* m is a message of the stream, with its own header, type and length.
Genuine(m) ==
    /\ Contiguous(m) /\ m.data[1] > 0
    /\ WellFormed => Boundary[m.data[1]]
    /\ stream[m.data[1]].head
    /\ m.len = stream[m.data[1]].len /\ Len(m.data) = H + m.len
    /\ m.type = stream[m.data[1] + H - 1].type

\* "all net message format: [ NetMsgHeader | msg-data]": what is queued are
\* messages the peer sent, each with its own header and its own data, in the
\* order in which they were sent.
MessagesIntact ==
    /\ \A i \in 1 .. Len(queued) : Genuine(queued[i])
    /\ \A i, j \in 1 .. Len(queued) :
          i < j => queued[i].data[Len(queued[i].data)] < queued[j].data[1]

\* As long as every message came whole, what is queued is what was sent, in
\* order, whatever garbage and foreign types lie in between, and a peer that
\* sends only messages never loses a byte to the scan for a header.
IntactUnlessSplit ==
    ~split => MessagesIntact /\ (WellFormed => headerErrBytes = 0)

\* "ET is fast mode(data must be all read in each poll)".  When the callback
\* returns (and the server is not shutting down), the socket is empty, with
\* one exception: messages filled m_pRcvBuf exactly to its end, and recv was
\* called with no room (it then returns 0).
AllReadUnlessFull ==
    [][pc # "idle" /\ pc' = "idle" /\ ~isExit =>
          \/ Available = 0
          \/ IBufSize = 0 /\ (split \/ (readLen = 0 /\ wantReadLen = 0))]_vars

\* readFunc keeps what ReadCallback says of a callback: the loop may rely on
\* its return codes, however the bytes are cut, moved and consumed meanwhile.
WhereInLoop == CASE pc = "idle" -> "loop"
                 [] pc \in {"recv", "find", "message"} -> "callback"
                 [] OTHER -> pc
Contract == INSTANCE ReadCallback WITH unread <- Available, at <- WhereInLoop
KeepsContract == Contract!Spec

Stopped == pc \in {"closed", "crashed"} \/ isExit

\* What has arrived is read in the end, unless the buffer is full to its end.
EventuallyRead == <>[](Available = 0 \/ IBufSize = 0 \/ Stopped)
=============================================================================
