----------------------------- MODULE ClientRecv -----------------------------
(***************************************************************************)
(* The receiving half of the client: netWorkFunc cuts what recv returns    *)
(* into [NetMsgHeader | data] messages and puts them into m_pQueueNetRcv,  *)
(* the result thread (ProcRcvQueueData) takes them out.                    *)
(*                                                                         *)
(* Bytes are cells, known by their position in `stream`, which is all that *)
(* peers have written so far, connection after connection; the buffer      *)
(* holds such positions (0: nothing was written there).  A header takes H  *)
(* cells: the confirm number in the first C, then m_iMsgLen.  A header may *)
(* arrive in pieces like anything else: netWorkFunc looks at it without    *)
(* asking whether all of it is there.                                      *)
(***************************************************************************)
EXTENDS Integers, Sequences

CONSTANTS
    H,          \* NET_MSG_HEADER_LEN, in cells
    C,          \* cells of the confirm number
    RcvBuf,     \* the first size of pRcvBuf
    Block,      \* the 1 MB unit an enlarged buffer is rounded up to
    TooLarge,   \* 512 MB: longer messages are refused
    Word,       \* 2^32: iRcvMsgBytes is a uint32_t
    QueueCap,   \* messages m_pQueueNetRcv holds
    Sessions    \* what the peers write, connection by connection

\* confirm: which cell of a confirm number it is, 0 if it is none of them
Cell     == [confirm : 0 .. C, len : Nat]
\* fresh memory of this size comes as zero pages
ZeroCell == [confirm |-> 0, len |-> 0]

ASSUME RecvAssumption ==
    /\ C \in Nat \ {0} /\ H \in Nat /\ H > C
    /\ RcvBuf \in Nat /\ RcvBuf > H
    /\ Block \in Nat \ {0} /\ TooLarge \in Nat
    /\ Word \in Nat /\ Word > TooLarge + Block /\ TooLarge >= RcvBuf
    /\ QueueCap \in Nat \ {0}
    /\ Sessions \subseteq Seq(Seq(Cell)) \ {<<>>}

VARIABLES
    isExit,         \* g_isExit
    stream,         \* the cells written on the connections up to this one
    coming,         \* what will be written on later ones
    starts,         \* the positions where the connections begin
    arrived, taken, \* how far they came, and how far recv took them
    peer,           \* "open", or "gone" once the connection has ended
    rcvBuf, rcvBufSize, rcvStartPos, readLen,
    rcvMsgBytes,    \* iRcvMsgBytes, 0 while no header is known
    headerErrBytes, \* g_iHeaderErrBytes
    totalRcvBytes,  \* g_iTotalRcvBytes
    queue,          \* m_pQueueNetRcv
    results,        \* the messages the result thread took, in order
    net, deal,      \* where the two threads are
    validBytes,     \* history: bytes consumed as messages
    lostBytes,      \* history: bytes pending when a connection was lost
    short           \* history: a header was looked at with less than H cells

world == <<stream, coming, starts, arrived, taken, peer>>
buf   == <<rcvBuf, rcvBufSize, rcvStartPos, readLen, rcvMsgBytes>>
stats == <<headerErrBytes, totalRcvBytes, validBytes, lostBytes, short>>
out   == <<queue, results, deal>>
vars  == <<isExit, world, buf, stats, out, net>>

Cells == 0 .. RcvBuf - 1

Init ==
    /\ isExit = FALSE
    /\ \E s \in Sessions : stream = Head(s) /\ coming = Tail(s)
    /\ starts = {1}
    /\ arrived = 0 /\ taken = 0 /\ peer = "open"
    /\ rcvBuf = [p \in Cells |-> 0] /\ rcvBufSize = RcvBuf
    /\ rcvStartPos = 0 /\ readLen = 0 /\ rcvMsgBytes = 0
    /\ headerErrBytes = 0 /\ totalRcvBytes = 0
    /\ queue = <<>> /\ results = <<>>
    /\ net = "recv" /\ deal = "loop"
    /\ validBytes = 0 /\ lostBytes = 0 /\ short = FALSE

-----------------------------------------------------------------------------
(* The network, and close_audio_client *)

Available == arrived - taken

Arrive ==
    /\ peer = "open"
    /\ arrived' \in arrived + 1 .. Len(stream)
    /\ UNCHANGED <<isExit, stream, coming, starts, taken, peer, buf, stats, out, net>>

PeerLeaves ==
    /\ peer = "open" /\ peer' = "gone"
    /\ UNCHANGED <<isExit, stream, coming, starts, arrived, taken, buf, stats, out, net>>

Exit ==
    /\ ~isExit /\ isExit' = TRUE
    /\ UNCHANGED <<world, buf, stats, out, net>>

-----------------------------------------------------------------------------
(* Connecting and receiving *)

\* connectToServer has made another connection.  What the old peer wrote and
\* recv did not take is gone.
Connect ==
    /\ net = "connect" /\ ~isExit /\ coming # <<>>
    /\ stream' = stream \o Head(coming) /\ coming' = Tail(coming)
    /\ starts' = starts \cup {Len(stream) + 1}
    /\ arrived' = Len(stream) /\ taken' = Len(stream) /\ peer' = "open"
    /\ net' = "recv"
    /\ UNCHANGED <<isExit, buf, stats, out>>

\* while (!g_isExit)
LoopEnds ==
    /\ net \in {"recv", "connect"} /\ isExit
    /\ net' = "ended"
    /\ UNCHANGED <<isExit, world, buf, stats, out>>

\* pBuf + iReadLen
WriteAt == rcvStartPos + readLen

\* recv is offered iRcvBufSize - iReadLen cells, as if pBuf were pRcvBuf.
Taken == IF Available < rcvBufSize - readLen THEN Available ELSE rcvBufSize - readLen

RecvData ==
    /\ net = "recv" /\ ~isExit
    /\ Available > 0 /\ WriteAt + Taken <= rcvBufSize
    /\ rcvBuf' = [p \in DOMAIN rcvBuf |->
                    IF p \in WriteAt .. WriteAt + Taken - 1
                    THEN taken + 1 + p - WriteAt ELSE rcvBuf[p]]
    /\ taken' = taken + Taken /\ readLen' = readLen + Taken
    /\ totalRcvBytes' = totalRcvBytes + Taken
    /\ net' = "find"
    /\ UNCHANGED <<isExit, stream, coming, starts, arrived, peer, rcvBufSize,
                   rcvStartPos, rcvMsgBytes, headerErrBytes, validBytes, lostBytes, short, out>>

\* More has arrived than fits behind pBuf + iReadLen: recv writes behind the
\* end of the buffer.  Whole messages of a peer that keeps to the protocol
\* lead here, when one of them ends near the end of the buffer.  Nothing can
\* be said of what follows, so the model ends.
RecvBeyond ==
    /\ net = "recv" /\ ~isExit
    /\ Available > 0 /\ WriteAt + Taken > rcvBufSize
    /\ net' = "overrun"
    /\ UNCHANGED <<isExit, world, buf, stats, out>>

\* Mutant: iReadLen keeps its value.
RecvLostKeeps ==
    /\ net = "recv" /\ ~isExit
    /\ Available = 0 /\ peer = "gone"
    /\ lostBytes' = lostBytes + readLen
    /\ rcvMsgBytes' = 0 /\ rcvStartPos' = 0
    /\ net' = "connect"
    /\ UNCHANGED <<isExit, world, rcvBuf, rcvBufSize, readLen, headerErrBytes,
                   totalRcvBytes, validBytes, short, out>>

\* recv returns 0 or an error: what was pending is dropped, and not counted.
RecvLost ==
    /\ net = "recv" /\ ~isExit
    /\ Available = 0 /\ peer = "gone"
    /\ lostBytes' = lostBytes + readLen
    /\ readLen' = 0 /\ rcvMsgBytes' = 0 /\ rcvStartPos' = 0
    /\ net' = "connect"
    /\ UNCHANGED <<isExit, world, rcvBuf, rcvBufSize, headerErrBytes,
                   totalRcvBytes, validBytes, short, out>>

-----------------------------------------------------------------------------
(* From the label FindHeader to the test of the message body *)

ByteAt(p) == IF p \in DOMAIN rcvBuf THEN rcvBuf[p] ELSE 0
CellAt(p) == IF ByteAt(p) = 0 THEN ZeroCell ELSE stream[ByteAt(p)]

\* CONFIRM_NUM == m_iConfirmNum of the header that starts at p
Confirm(p) == \A k \in 0 .. C - 1 : CellAt(p + k).confirm = k + 1

\* iNeedBufSize, and what iRcvMsgBytes makes of it
Need(p)     == CellAt(p + C).len + H
MsgBytes(p) == Need(p) % Word

\* ((n >> 20) + 1) << 20
RoundUp(n) == (n - (n % Block)) + Block

\* Mutant: the message is waited for without recv.
AfterHeaderSpins(want, len) ==
    IF want = 0 THEN "recv" ELSE IF len >= want THEN "message" ELSE "find"

AfterHeader(want, len) == IF want > 0 /\ len >= want THEN "message" ELSE "recv"

\* Mutant: the skipped bytes are not counted.
SkipUncounted(n) == headerErrBytes' = headerErrBytes

Skip(n) == headerErrBytes' = headerErrBytes + n

Looked ==
    /\ short' = (short \/ (rcvMsgBytes = 0 /\ readLen < H))
    /\ UNCHANGED <<isExit, world, totalRcvBytes, validBytes, lostBytes, out>>

\* Skip `skip` bytes; the message there takes `want` bytes (0: unknown).
\* Enlarge the buffer when it is shorter than the message, else move the
\* data to its front when the room behind pBuf is too small.
Settle(skip, want) ==
    LET pos     == rcvStartPos + skip
        len     == readLen - skip
        enlarge == want > rcvBufSize
        size    == IF enlarge THEN RoundUp(want) ELSE rcvBufSize
        move    == size - pos < IF want > 0 THEN want ELSE size \div 2
    IN  /\ rcvBuf' = IF enlarge \/ move
                     THEN [p \in 0 .. size - 1 |->
                              IF p < len THEN ByteAt(pos + p)
                              ELSE IF enlarge THEN 0 ELSE ByteAt(p)]
                     ELSE rcvBuf
        /\ rcvStartPos' = IF enlarge \/ move THEN 0 ELSE pos
        /\ rcvBufSize' = size
        /\ readLen' = len /\ rcvMsgBytes' = want
        /\ Skip(skip)
        /\ net' = AfterHeader(want, len)
        /\ Looked

\* "too large msg": everything that was read is dropped.
DropAll ==
    /\ Skip(readLen)
    /\ readLen' = 0 /\ rcvMsgBytes' = 0 /\ rcvStartPos' = 0
    /\ net' = "recv"
    /\ UNCHANGED <<rcvBuf, rcvBufSize>>
    /\ Looked

\* The message at p is refused: longer than the buffer and than 512 MB.
Refuses(p) == MsgBytes(p) > 0 /\ Need(p) > rcvBufSize /\ Need(p) > TooLarge

\* The header at offset i has the right confirm number.
Found(i) ==
    IF Refuses(rcvStartPos + i)
    THEN DropAll
    ELSE Settle(i, MsgBytes(rcvStartPos + i))

\* The header of the message is known already.
HeaderKnown ==
    /\ net = "find" /\ rcvMsgBytes > 0
    /\ Settle(0, rcvMsgBytes)

Right == Confirm(rcvStartPos) /\ MsgBytes(rcvStartPos) > 0

HeaderRight ==
    /\ net = "find" /\ rcvMsgBytes = 0 /\ Right
    /\ Found(0)

\* The bound of the scan, iReadLen - sizeof(NetMsgHeader), is unsigned: with
\* less than a header there it wraps, and the scan runs through the rest of
\* the buffer and beyond.
ScanEnd == IF readLen >= H THEN readLen - H ELSE rcvBufSize - rcvStartPos
Hits    == {i \in 1 .. ScanEnd - 1 : Confirm(rcvStartPos + i)}

\* "wrong header": skip to the next confirm number,
HeaderScanHit ==
    /\ net = "find" /\ rcvMsgBytes = 0 /\ ~Right
    /\ \E i \in Hits : /\ \A j \in Hits : i <= j
                       /\ i <= readLen
                       /\ Found(i)

\* or, when there is none, to where the loop gave up.
HeaderScanMiss ==
    /\ net = "find" /\ rcvMsgBytes = 0 /\ ~Right
    /\ Hits = {} /\ readLen >= H
    /\ Settle(IF readLen - H > 1 THEN readLen - H ELSE 1, 0)

\* The scan found something behind the data, so that iReadLen wraps, or ran
\* out of the buffer.
ScanBeyond ==
    /\ net = "find" /\ rcvMsgBytes = 0 /\ ~Right
    /\ \/ Hits = {} /\ readLen < H
       \/ Hits # {} /\ \A i \in Hits : i > readLen
    /\ net' = "undefined"
    /\ UNCHANGED <<buf, headerErrBytes>>
    /\ Looked

FindHeader ==
    HeaderKnown \/ HeaderRight \/ HeaderScanHit \/ HeaderScanMiss \/ ScanBeyond

-----------------------------------------------------------------------------
(* A complete message, and the result thread *)

Message == [k \in 1 .. rcvMsgBytes |-> ByteAt(rcvStartPos + k - 1)]

\* if (iReadLen >= NET_MSG_HEADER_LEN) goto FindHeader
AfterMessage(left) == IF left >= H THEN "find" ELSE "recv"

\* EnDataQueue accepts the message or does not; netWorkFunc goes on alike.
EnQueue ==
    /\ net = "message"
    /\ \/ Len(queue) < QueueCap /\ queue' = Append(queue, Message)
       \/ UNCHANGED queue
    /\ rcvStartPos' = rcvStartPos + rcvMsgBytes
    /\ readLen' = readLen - rcvMsgBytes
    /\ rcvMsgBytes' = 0
    /\ validBytes' = validBytes + rcvMsgBytes
    /\ net' = AfterMessage(readLen - rcvMsgBytes)
    /\ UNCHANGED <<isExit, world, rcvBuf, rcvBufSize, headerErrBytes, totalRcvBytes,
                   lostBytes, short, results, deal>>

\* DeDataQueue gives a message: g_iRcvMsgCnt counts it.
Take ==
    /\ deal = "loop" /\ ~isExit /\ queue # <<>>
    /\ results' = Append(results, Head(queue)) /\ queue' = Tail(queue)
    /\ UNCHANGED <<isExit, world, buf, stats, net, deal>>

DealEnds ==
    /\ deal = "loop" /\ isExit /\ deal' = "ended"
    /\ UNCHANGED <<isExit, world, buf, stats, net, queue, results>>

-----------------------------------------------------------------------------
Recv == LoopEnds \/ RecvData \/ RecvBeyond \/ RecvLost
NetWork == Recv \/ FindHeader \/ EnQueue \/ Connect
ProcRcvQueueData == Take \/ DealEnds

\* In C++ nothing is said of what the process does from here on.
Undefined == net \in {"overrun", "undefined"}

Next ==
    /\ ~Undefined
    /\ \/ Arrive \/ PeerLeaves \/ Exit \/ NetWork \/ ProcRcvQueueData

Spec == Init /\ [][Next]_vars

\* The two threads are scheduled.
FairSpec ==
    /\ Spec
    /\ WF_vars(~Undefined /\ NetWork)
    /\ WF_vars(~Undefined /\ ProcRcvQueueData)
-----------------------------------------------------------------------------
(* Properties *)

\* Every variable has its type, and what was read lies within the buffer,
\* as long as RecvBeyond has not written behind it.
TypeOK ==
    /\ isExit \in BOOLEAN
    /\ stream \in Seq(Cell) /\ coming \in Seq(Seq(Cell))
    /\ starts \subseteq 1 .. Len(stream) + 1
    /\ arrived \in 0 .. Len(stream) /\ taken \in 0 .. arrived
    /\ peer \in {"open", "gone"}
    /\ rcvBufSize \in Nat /\ rcvBufSize >= RcvBuf
    /\ rcvBuf \in [0 .. rcvBufSize - 1 -> 0 .. Len(stream)]
    /\ rcvStartPos \in 0 .. rcvBufSize
    /\ readLen \in 0 .. rcvBufSize - rcvStartPos
    /\ rcvMsgBytes \in 0 .. rcvBufSize
    /\ headerErrBytes \in Nat /\ totalRcvBytes \in Nat
    /\ queue \in Seq(Seq(0 .. Len(stream))) /\ results \in Seq(Seq(0 .. Len(stream)))
    /\ net \in {"recv", "find", "message", "connect", "ended", "overrun", "undefined"}
    /\ deal \in {"loop", "ended"}
    /\ validBytes \in Nat /\ lostBytes \in Nat /\ short \in BOOLEAN

\* Every byte recv returned is consumed with a message, counted as header
\* error, pending, or was dropped when a connection was lost (which no
\* counter of the code shows).
BytesAccounted ==
    totalRcvBytes = validBytes + headerErrBytes + lostBytes + readLen

\* The number of a confirmed header of stream cell k, and what it announces.
Header(k)   == /\ k + C \in DOMAIN stream
               /\ \A j \in 0 .. C - 1 : stream[k + j].confirm = j + 1
Announced(k) == stream[k + C].len + H

\* Another connection begins behind position j and up to k.
Broken(j, k) == \E s \in starts : j < s /\ s <= k

\* Position k is where a message starts, going from message to message from
\* the beginning of a connection.
Boundary[k \in 1 .. Len(stream) + 1] ==
    \/ k \in starts
    \/ \E j \in 1 .. k - 1 :
          Boundary[j] /\ Header(j) /\ k = j + Announced(j) /\ ~Broken(j, k)

\* The peers sent nothing but whole messages (the last one of a connection
\* may be cut off, its header too).
WellFormed ==
    \A k \in 1 .. Len(stream) : Boundary[k] =>
        \/ k + H - 1 > Len(stream) \/ Broken(k, k + H - 1)
        \/ Header(k) /\ Announced(k) <= TooLarge

\* m is one of the messages the peer wrote, whole and nothing else.
Genuine(m) ==
    /\ \A k \in 1 .. Len(m) : m[k] = m[1] + k - 1
    /\ m[1] > 0 /\ Header(m[1])
    /\ WellFormed => Boundary[m[1]]
    /\ Len(m) = Announced(m[1])

Delivered == results \o queue

\* "all net message format: [ NetMsgHeader | msg-data]": the result thread
\* is given messages as the peer wrote them, in the order they were written.
MessagesIntact ==
    /\ \A i \in 1 .. Len(Delivered) : Genuine(Delivered[i])
    /\ \A i, j \in 1 .. Len(Delivered) : i < j =>
          Delivered[i][Len(Delivered[i])] < Delivered[j][1]

\* That is so as long as every header was complete when it was looked at and
\* no recv has written behind the buffer (where the model ends), whatever else
\* was split, enlarged, moved, skipped or reconnected; and peers that send
\* only messages never lose a byte to the scan for a header.
IntactUnlessShort ==
    ~short => MessagesIntact /\ (WellFormed => headerErrBytes = 0)

\* What arrives is read in the end, unless the client is closed, no server is
\* there to connect to, or netWorkFunc has left what C++ defines: it wrote
\* behind the buffer (RecvBeyond), or scanned behind it (ScanBeyond), which
\* only a header in pieces can make it do.
EventuallyRead ==
    <>[](\/ Available = 0
         \/ isExit \/ net = "connect"
         \/ net = "overrun"
         \/ net = "undefined" /\ short)
=============================================================================
