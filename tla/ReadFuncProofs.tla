---------------------------- MODULE ReadFuncProofs ----------------------------
(***************************************************************************)
(* Proofs about ReadFunc: type correctness, the byte accounting, the       *)
(* memory safety of the receive buffer and that the messages queued are    *)
(* the messages sent, for every header length, buffer size, rounding unit  *)
(* and every stream the peer may write.                                    *)
(***************************************************************************)
EXTENDS ReadFunc, TLAPS

\* A message that is handed over is complete.
MessageComplete == pc = "message" => wantReadLen > 0 /\ readLen >= wantReadLen

\* What the steps preserve together.
IInv ==
    /\ TypeOK
    /\ BytesAccounted
    /\ MessageFitsBuffer
    /\ NothingLeftBehind
    /\ OverrunsOnlyOnEntry
    /\ MessageComplete

-----------------------------------------------------------------------------
(* The operators the steps are built from *)

\* The cell at any address has its type: a written byte holds a cell of the
\* stream, and everything else reads as zero.
LEMMA CellType ==
    ASSUME TypeOK, NEW p \in Int
    PROVE  /\ ByteAt(p) \in 0 .. Len(stream)
           /\ CellAt(p) \in Cell
<1>1. stream \in Seq(Cell)
  BY StreamsAssumption DEF TypeOK
<1>2. ByteAt(p) \in 0 .. Len(stream)
  BY <1>1 DEF TypeOK, ByteAt
<1>3. CASE ByteAt(p) = 0
  BY <1>2, <1>3 DEF CellAt, ZeroCell, Cell, DataType
<1>4. CASE ByteAt(p) # 0
  <2>1. ByteAt(p) \in 1 .. Len(stream)
    BY <1>1, <1>2, <1>4
  <2>2. stream[ByteAt(p)] \in Cell
    BY <1>1, <2>1
  <2>3. QED
    BY <1>2, <1>4, <2>2 DEF CellAt
<1>5. QED
  BY <1>3, <1>4

\* The length a header announces, with the header itself.
LEMMA MsgBytesType ==
    ASSUME TypeOK, NEW p \in Int
    PROVE  MsgBytes(p) \in Nat /\ MsgBytes(p) >= H /\ MsgBytes(p) > 0
<1>1. CellAt(p) \in Cell
  BY CellType
<1>2. CellAt(p).len \in Nat
  BY <1>1 DEF Cell
<1>3. QED
  BY <1>2, SizesAssumption DEF MsgBytes

\* An enlarged buffer holds the message it was enlarged for.
LEMMA RoundUpFits ==
    ASSUME NEW n \in Nat
    PROVE  RoundUp(n) \in Nat /\ RoundUp(n) > n
<1>1. n % Block \in 0 .. Block - 1
  BY SizesAssumption
<1>2. n % Block <= n
  <2>1. CASE n < Block
    BY <2>1, SizesAssumption
  <2>2. CASE n >= Block
    BY <1>1, <2>2, SizesAssumption
  <2>3. QED
    BY <2>1, <2>2, SizesAssumption
<1>3. QED
  BY <1>1, <1>2, SizesAssumption DEF RoundUp

-----------------------------------------------------------------------------
(* The buffer work common to the steps at FindHeader *)

\* What a step at FindHeader may ask of Settle.  When no message is found the
\* bytes left are too few for a header, or follow on bytes that are skipped.
SettleArgs(skip, want) ==
    /\ skip \in 0 .. readLen
    /\ want \in Nat
    /\ want = 0 => readLen - skip < H \/ (readLen - skip = H /\ skip > 0)
    /\ want = wantReadLen \/ wantReadLen = 0

LEMMA SettleStep ==
    ASSUME IInv, pc = "find",
           NEW skip, NEW want, SettleArgs(skip, want), Settle(skip, want)
    PROVE  IInv'
<1> DEFINE pos     == rcvStartPos + skip
           len     == readLen - skip
           enlarge == want > rcvBufSize
           move    == ~enlarge /\ TooClose(pos, want)
           size    == IF enlarge THEN RoundUp(want) ELSE rcvBufSize
           rest(p) == IF enlarge THEN 0 ELSE ByteAt(p)
<1>1. /\ pos \in Nat /\ len \in Nat /\ len <= readLen
      /\ skip \in Nat /\ want \in Nat /\ rcvBufSize \in Nat \ {0}
      /\ rcvStartPos \in Nat /\ readLen \in Nat /\ headerErrBytes \in Nat
      /\ wantReadLen \in Nat
  BY DEF SettleArgs, IInv, TypeOK
<1>2. /\ size \in Nat \ {0} /\ size >= rcvBufSize /\ want <= size
  BY <1>1, RoundUpFits
<1>3. /\ rcvBuf' = IF enlarge \/ move
                   THEN [p \in 0 .. size - 1 |->
                            IF p < len THEN ByteAt(pos + p) ELSE rest(p)]
                   ELSE rcvBuf
      /\ rcvStartPos' = IF enlarge \/ move THEN 0 ELSE pos
      /\ rcvBufSize' = size
      /\ readLen' = len
      /\ headerErrBytes' = headerErrBytes + skip
      /\ wantReadLen' = want
      /\ pc' = IF want > 0 /\ len >= want THEN "message" ELSE "recv"
      /\ UNCHANGED <<net, totalRcvBytes, discardBytes, validBytes, split,
                     errno, isExit, queued>>
  BY DEF Settle, Drop
<1>4. /\ rcvStartPos' \in 0 .. rcvBufSize'
      /\ wantReadLen' > 0 => rcvStartPos' + wantReadLen' <= rcvBufSize'
  <2>1. CASE enlarge \/ move
    BY <2>1, <1>1, <1>2, <1>3
  <2>2. CASE ~enlarge /\ ~move
    <3>1. ~TooClose(pos, want)
      BY <2>2
    <3>2. rcvBufSize - pos >= 0 /\ (want > 0 => rcvBufSize - pos >= want)
      BY <3>1, <1>1 DEF TooClose
    <3>3. QED
      BY <2>2, <3>2, <1>1, <1>3
  <2>3. QED
    BY <2>1, <2>2
<1>5. rcvBuf' \in [0 .. rcvBufSize' - 1 -> 0 .. Len(stream)]
  <2>1. CASE enlarge \/ move
    <3>1. ASSUME NEW p \in 0 .. size - 1
          PROVE  (IF p < len THEN ByteAt(pos + p) ELSE rest(p))
                    \in 0 .. Len(stream)
      <4>1. pos + p \in Int /\ p \in Int
        BY <1>1, <1>2
      <4>2. ByteAt(pos + p) \in 0 .. Len(stream) /\ ByteAt(p) \in 0 .. Len(stream)
        BY <4>1, CellType DEF IInv
      <4>3. 0 \in 0 .. Len(stream)
        BY DEF IInv, TypeOK
      <4>4. QED
        BY <4>2, <4>3
    <3>2. QED
      BY <2>1, <3>1, <1>3
  <2>2. CASE ~enlarge /\ ~move
    BY <2>2, <1>3 DEF IInv, TypeOK
  <2>3. QED
    BY <2>1, <2>2
<1>6. TypeOK'
  BY <1>1, <1>2, <1>3, <1>4, <1>5 DEF IInv, TypeOK, net
<1>7. BytesAccounted'
  BY <1>1, <1>3 DEF IInv, TypeOK, BytesAccounted, net
<1>8. MessageFitsBuffer'
  BY <1>4 DEF MessageFitsBuffer
<1>9. NothingLeftBehind'
  BY <1>1, <1>3 DEF NothingLeftBehind, SettleArgs
<1>10. OverrunsOnlyOnEntry'
  <2>1. SUFFICES ASSUME ~split
                 PROVE  rcvStartPos' + readLen' <= rcvBufSize' /\ pc' # "crashed"
    BY <1>3 DEF OverrunsOnlyOnEntry
  <2>2. rcvStartPos + readLen <= rcvBufSize
    BY <2>1 DEF IInv, OverrunsOnlyOnEntry
  <2>3. QED
    BY <2>2, <1>1, <1>2, <1>3
<1>11. MessageComplete'
  BY <1>1, <1>3 DEF MessageComplete
<1>12. QED
  BY <1>6, <1>7, <1>8, <1>9, <1>10, <1>11 DEF IInv

-----------------------------------------------------------------------------
(* One lemma for each kind of step *)

\* Every branch at FindHeader calls Settle within its bounds.
LEMMA FindHeaderStep ==
    ASSUME IInv, FindHeader
    PROVE  IInv'
<1>1. /\ pc = "find" /\ readLen \in Nat /\ wantReadLen \in Nat
      /\ rcvStartPos \in Nat /\ H \in Nat \ {0}
  BY SizesAssumption
     DEF IInv, TypeOK, FindHeader, HeaderPending, HeaderRight, HeaderScanHit,
         HeaderScanMiss, Overrun
<1>2. CASE HeaderPending
  <2>1. SettleArgs(0, wantReadLen)
    BY <1>1, <1>2 DEF HeaderPending, SettleArgs
  <2>2. QED
    BY <1>1, <1>2, <2>1, SettleStep DEF HeaderPending
<1>3. CASE HeaderRight
  <2>1. MsgBytes(rcvStartPos) \in Nat /\ MsgBytes(rcvStartPos) > 0
    BY <1>1, MsgBytesType DEF IInv
  <2>2. SettleArgs(0, MsgBytes(rcvStartPos))
    BY <1>1, <1>3, <2>1 DEF HeaderRight, SettleArgs
  <2>3. QED
    BY <1>1, <1>3, <2>2, SettleStep DEF HeaderRight
<1>4. CASE HeaderScanHit
  <2>1. PICK i \in Hits : Settle(i, MsgBytes(rcvStartPos + i))
    BY <1>4 DEF HeaderScanHit
  <2>2. i \in 1 .. readLen - H - 1
    BY DEF Hits
  <2>3. MsgBytes(rcvStartPos + i) \in Nat /\ MsgBytes(rcvStartPos + i) > 0
    BY <1>1, <2>2, MsgBytesType DEF IInv
  <2>4. SettleArgs(i, MsgBytes(rcvStartPos + i))
    BY <1>1, <1>4, <2>2, <2>3 DEF HeaderScanHit, SettleArgs
  <2>5. QED
    BY <1>1, <2>1, <2>4, SettleStep
<1>5. CASE HeaderScanMiss
  <2> DEFINE skip == IF readLen - H > 1 THEN readLen - H ELSE 1
  <2>1. SettleArgs(skip, 0)
    BY <1>1, <1>5 DEF HeaderScanMiss, SettleArgs
  <2>2. QED
    BY <1>1, <1>5, <2>1, SettleStep DEF HeaderScanMiss
<1>6. CASE Overrun
  BY <1>6 DEF Overrun, IInv, TypeOK, BytesAccounted, MessageFitsBuffer,
         NothingLeftBehind, OverrunsOnlyOnEntry, MessageComplete, net, md, stats
<1>7. QED
  BY <1>2, <1>3, <1>4, <1>5, <1>6 DEF FindHeader, IInv

\* recv stores its bytes inside the buffer and inside the stream.
LEMMA RecvStep ==
    ASSUME IInv, Recv
    PROVE  IInv'
<1>1. CASE RecvData
  <2> DEFINE n == IF Available < IBufSize THEN Available ELSE IBufSize
  <2>1. n \in Nat /\ n > 0 /\ taken + n <= arrived
        /\ rcvStartPos + n <= rcvBufSize
    BY <1>1 DEF RecvData, IInv, TypeOK, Available, IBufSize
  <2>2. /\ pc = "recv" /\ pc' = "find"
        /\ rcvBuf' = [p \in DOMAIN rcvBuf |->
                         IF p \in rcvStartPos .. rcvStartPos + n - 1
                         THEN taken + 1 + p - rcvStartPos
                         ELSE rcvBuf[p]]
        /\ taken' = taken + n
        /\ readLen' = readLen + n
        /\ totalRcvBytes' = totalRcvBytes + n
        /\ split' = (split \/ readLen > 0)
        /\ errno' \in {errno, "other"}
        /\ UNCHANGED <<stream, arrived, peer, rcvBufSize, rcvStartPos,
                       wantReadLen, headerErrBytes, discardBytes, validBytes,
                       isExit, queued>>
    BY <1>1 DEF RecvData
  <2> HIDE DEF n
  <2>3. rcvBuf' \in [0 .. rcvBufSize - 1 -> 0 .. Len(stream)]
    <3>1. Len(stream) \in Nat
      BY StreamsAssumption DEF IInv, TypeOK
    <3>2. ASSUME NEW p \in 0 .. rcvBufSize - 1,
                 p \in rcvStartPos .. rcvStartPos + n - 1
          PROVE  taken + 1 + p - rcvStartPos \in 0 .. Len(stream)
      BY <2>1, <3>1, <3>2 DEF IInv, TypeOK
    <3>3. QED
      BY <2>2, <3>2 DEF IInv, TypeOK
  <2>4. TypeOK'
    BY <2>1, <2>2, <2>3 DEF IInv, TypeOK
  <2>5. BytesAccounted'
    BY <2>1, <2>2 DEF IInv, TypeOK, BytesAccounted
  <2>6. MessageFitsBuffer'
    BY <2>2 DEF IInv, MessageFitsBuffer
  <2>7. OverrunsOnlyOnEntry'
    <3>1. /\ rcvStartPos \in Nat /\ readLen \in Nat /\ n \in Nat
          /\ rcvStartPos + n <= rcvBufSize
      BY <2>1 DEF IInv, TypeOK
    <3>2. ~split' => readLen = 0
      <4>1. readLen > 0 => split'
        BY <2>2, Zenon
      <4>2. QED
        BY <3>1, <4>1
    <3>3. QED
      BY <2>2, <3>1, <3>2 DEF OverrunsOnlyOnEntry
  <2>8. NothingLeftBehind' /\ MessageComplete'
    BY <2>2 DEF NothingLeftBehind, MessageComplete
  <2>9. QED
    BY <2>4, <2>5, <2>6, <2>7, <2>8 DEF IInv
<1>2. CASE LoopEnds \/ RecvZero \/ RecvFails
  <2>1. /\ pc = "recv" /\ pc' \in {"idle", "closed"}
        /\ errno' \in {"EAGAIN", "other"}
        /\ UNCHANGED <<net, md, stats, isExit, queued>>
    BY <1>2 DEF LoopEnds, RecvZero, RecvFails, Return, IInv, TypeOK
  <2>2. QED
    BY <2>1 DEF IInv, TypeOK, BytesAccounted, MessageFitsBuffer,
           NothingLeftBehind, OverrunsOnlyOnEntry, MessageComplete, net, md, stats
<1>3. QED
  BY <1>1, <1>2 DEF Recv

\* Consuming a message moves m_iRcvStartPos and m_iReadLen together.
LEMMA ConsumeStep ==
    ASSUME IInv, Enqueue \/ SkipType
    PROVE  IInv'
<1>1. /\ pc = "message" /\ Consume
      /\ wantReadLen > 0 /\ readLen >= wantReadLen
      /\ rcvStartPos + wantReadLen <= rcvBufSize
      /\ discardBytes' \in {discardBytes, discardBytes + wantReadLen}
      /\ queued' \in {queued, Append(queued, Message)}
  BY DEF Enqueue, SkipType, IInv, MessageComplete, MessageFitsBuffer
<1>2. Message \in [type : DataType, len : Nat, data : Seq(0 .. Len(stream))]
  <2>1. rcvStartPos \in Int /\ wantReadLen \in Nat
        /\ rcvStartPos + H - 1 \in Int
    BY SizesAssumption DEF IInv, TypeOK
  <2>2. /\ CellAt(rcvStartPos) \in Cell
        /\ CellAt(rcvStartPos + H - 1) \in Cell
    BY <2>1, CellType DEF IInv
  <2>3. TypeAt(rcvStartPos) \in DataType /\ CellAt(rcvStartPos).len \in Nat
    BY <2>2 DEF TypeAt, Cell
  <2>4. ASSUME NEW k \in 1 .. wantReadLen
        PROVE  ByteAt(rcvStartPos + k - 1) \in 0 .. Len(stream)
    <3>1. rcvStartPos + k - 1 \in Int
      BY <2>1
    <3>2. QED
      BY <3>1, CellType DEF IInv
  <2>5. [k \in 1 .. wantReadLen |-> ByteAt(rcvStartPos + k - 1)]
            \in Seq(0 .. Len(stream))
    BY <2>1, <2>4
  <2>6. QED
    BY <2>3, <2>5 DEF Message
<1>3. TypeOK'
  <2>1. queued' \in Seq([type : DataType, len : Nat, data : Seq(0 .. Len(stream))])
    <3> DEFINE T == [type : DataType, len : Nat, data : Seq(0 .. Len(stream))]
    <3>1. queued \in Seq(T) /\ Message \in T
      BY <1>2 DEF IInv, TypeOK
    <3> HIDE DEF T
    <3>2. queued' \in Seq(T)
      BY <1>1, <3>1
    <3>3. QED
      BY <3>2 DEF T
  <2>2. QED
    BY <1>1, <2>1 DEF Consume, AfterMessage, IInv, TypeOK, net
<1>4. BytesAccounted'
  BY <1>1 DEF Consume, IInv, TypeOK, BytesAccounted, net
<1>5. MessageFitsBuffer'
  BY <1>1 DEF Consume, MessageFitsBuffer
<1>6. NothingLeftBehind'
  BY <1>1, SizesAssumption
     DEF Consume, AfterMessage, IInv, TypeOK, NothingLeftBehind
<1>7. OverrunsOnlyOnEntry'
  BY <1>1 DEF Consume, AfterMessage, IInv, TypeOK, OverrunsOnlyOnEntry
<1>8. MessageComplete'
  BY <1>1 DEF Consume, AfterMessage, MessageComplete
<1>9. QED
  BY <1>3, <1>4, <1>5, <1>6, <1>7, <1>8 DEF IInv

\* The network, the signal handler and epoll_wait leave the buffer alone.
LEMMA OutsideStep ==
    ASSUME IInv, Network \/ Exit \/ Callback \/ EntryOverrun
    PROVE  IInv'
<1>1. CASE Network
  <2>1. /\ stream' = stream /\ taken' = taken
        /\ UNCHANGED <<md, stats, errno, pc, isExit, queued>>
        /\ arrived' \in arrived .. Len(stream)
        /\ peer' \in {"open", "fin", "rst"}
    BY <1>1, StreamsAssumption DEF Network, Arrive, PeerLeaves, IInv, TypeOK
  <2>2. QED
    BY <2>1 DEF IInv, TypeOK, BytesAccounted, MessageFitsBuffer,
           NothingLeftBehind, OverrunsOnlyOnEntry, MessageComplete, md, stats
<1>2. CASE Exit
  BY <1>2 DEF Exit, IInv, TypeOK, BytesAccounted, MessageFitsBuffer,
         NothingLeftBehind, OverrunsOnlyOnEntry, MessageComplete, net, md, stats
<1>3. CASE Callback
  BY <1>3 DEF Callback, IInv, TypeOK, BytesAccounted, MessageFitsBuffer,
         NothingLeftBehind, OverrunsOnlyOnEntry, MessageComplete, net, md, stats
<1>4. CASE EntryOverrun
  BY <1>4, SizesAssumption
     DEF EntryOverrun, IInv, TypeOK, BytesAccounted, MessageFitsBuffer, IBufSize,
         NothingLeftBehind, OverrunsOnlyOnEntry, MessageComplete, net, md, stats
<1>5. QED
  BY <1>1, <1>2, <1>3, <1>4

-----------------------------------------------------------------------------
LEMMA InitIInv == Init => IInv
<1> SUFFICES ASSUME Init PROVE IInv
  OBVIOUS
<1>1. stream \in Seq(Cell) /\ Len(stream) \in Nat
  BY StreamsAssumption DEF Init
<1>2. TypeOK
  BY <1>1, SizesAssumption DEF Init, TypeOK
<1>3. QED
  BY <1>2, SizesAssumption
     DEF Init, IInv, BytesAccounted, MessageFitsBuffer, NothingLeftBehind,
         OverrunsOnlyOnEntry, MessageComplete

LEMMA NextIInv == IInv /\ [Next]_vars => IInv'
<1> SUFFICES ASSUME IInv, [Next]_vars PROVE IInv'
  OBVIOUS
<1>1. CASE UNCHANGED vars
  BY <1>1 DEF IInv, TypeOK, BytesAccounted, MessageFitsBuffer,
         NothingLeftBehind, OverrunsOnlyOnEntry, MessageComplete,
         vars, net, md, stats
<1>2. CASE FindHeader
  BY <1>2, FindHeaderStep
<1>3. CASE Recv
  BY <1>3, RecvStep
<1>4. CASE Enqueue \/ SkipType
  BY <1>4, ConsumeStep
<1>5. CASE Network \/ Exit \/ Callback \/ EntryOverrun
  BY <1>5, OutsideStep
<1>6. QED
  BY <1>1, <1>2, <1>3, <1>4, <1>5 DEF Next, Server

LEMMA SpecIInv == Spec => []IInv
BY InitIInv, NextIInv, PTL DEF Spec

-----------------------------------------------------------------------------
\* The variables of readFunc keep their types: m_iReadLen never gets negative
\* (the throw after a message is dead code) and m_iRcvStartPos stays inside
\* m_pRcvBuf.
THEOREM TypeCorrect == Spec => []TypeOK
<1>1. IInv => TypeOK
  BY DEF IInv
<1>2. QED
  BY <1>1, SpecIInv, PTL

\* Every received byte is consumed, counted as header error or pending,
\* however the stream is cut into recvs and whatever garbage is in it.
THEOREM BytesAreAccounted == Spec => []BytesAccounted
<1>1. IInv => BytesAccounted
  BY DEF IInv
<1>2. QED
  BY <1>1, SpecIInv, PTL

\* What EnDataQueue reads lies inside m_pRcvBuf, for every buffer size and
\* every message length a header may announce.
THEOREM MessagesFitTheBuffer == Spec => []MessageFitsBuffer
<1>1. IInv => MessageFitsBuffer
  BY DEF IInv
<1>2. QED
  BY <1>1, SpecIInv, PTL

\* The FindHeader loop stops with a complete message in the buffer in one
\* case only: an empty one in its last H bytes, behind bytes it has skipped.
THEOREM LoopLeavesNothing == Spec => []NothingLeftBehind
<1>1. IInv => NothingLeftBehind
  BY DEF IInv
<1>2. QED
  BY <1>1, SpecIInv, PTL

\* Without a recv in the middle of a message the one access behind the end of
\* m_pRcvBuf is the test of a header on entry, which readFunc makes before it
\* knows how much there is to read; and that only when messages have left
\* less than a header's room.
THEOREM BoundsHoldAfterEntry == Spec => []OverrunsOnlyOnEntry
<1>1. IInv => OverrunsOnlyOnEntry
  BY DEF IInv
<1>2. QED
  BY <1>1, SpecIInv, PTL

\* The callback returns with unread data in the socket only when messages
\* have filled the buffer exactly to its end, or the server shuts down.
THEOREM ReadsAllUnlessFull == Spec => AllReadUnlessFull
<1> DEFINE P == pc # "idle" /\ pc' = "idle" /\ ~isExit =>
                   \/ Available = 0
                   \/ IBufSize = 0 /\ (split \/ (readLen = 0 /\ wantReadLen = 0))
<1>1. ASSUME IInv, [Next]_vars, pc # "idle", pc' = "idle", ~isExit,
             Available # 0
      PROVE  IBufSize = 0 /\ (split \/ (readLen = 0 /\ wantReadLen = 0))
  <2>1. RecvZero
    BY <1>1 DEF Next, Network, Arrive, PeerLeaves, Exit, Server, Callback,
       EntryOverrun, Recv,
       LoopEnds, RecvData, RecvFails, FindHeader, HeaderPending, HeaderRight,
       HeaderScanHit, HeaderScanMiss, Settle, Overrun, Enqueue, SkipType,
       Consume, AfterMessage, vars
  <2>2. IBufSize = 0
    BY <1>1, <2>1 DEF RecvZero
  <2>3. CASE ~split
    <3>1. /\ rcvStartPos = rcvBufSize
          /\ rcvStartPos + readLen <= rcvBufSize
          /\ wantReadLen > 0 => rcvStartPos + wantReadLen <= rcvBufSize
      BY <1>1, <2>2, <2>3
         DEF IBufSize, IInv, TypeOK, OverrunsOnlyOnEntry, MessageFitsBuffer
    <3>2. QED
      BY <1>1, <2>2, <3>1 DEF IInv, TypeOK
  <2>4. QED
    BY <2>2, <2>3
<1>2. IInv /\ [Next]_vars => [P]_vars
  BY <1>1
<1>3. QED
  BY <1>2, SpecIInv, PTL DEF Spec, AllReadUnlessFull

-----------------------------------------------------------------------------
(* What is queued is what was sent *)

\* the stream position of the first pending byte
First == taken - readLen + 1

\* The pending bytes are the last ones received, in their order.
Placed == \A p \in 0 .. readLen - 1 : ByteAt(rcvStartPos + p) = First + p

\* A whole valid header starts at stream position k and asks for `want` bytes.
Announces(k, want) ==
    stream[k].head /\ stream[k].len < MaxNetMsg /\ want = stream[k].len + H

HeaderRead == wantReadLen > 0 => readLen >= H /\ Announces(First, wantReadLen)

\* What was queued lies before the pending bytes.
QueuedBefore ==
    \A i \in 1 .. Len(queued) : queued[i].data[Len(queued[i].data)] < First

AtBoundary == WellFormed => headerErrBytes = 0 /\ Boundary[First]

\* As long as no recv came in the middle of a message.
IntactInv ==
    ~split => /\ Placed /\ HeaderRead
              /\ MessagesIntact /\ QueuedBefore
              /\ AtBoundary

\* A message starts at j and ends before k.
Spans(j, k) ==
    stream[j].head /\ stream[j].len < MaxNetMsg /\ k = j + H + stream[j].len

\* The positions Boundary holds at when it holds at those of S.
Reached(S) ==
    {k \in 1 .. Len(stream) + 1 :
        k = 1 \/ \E j \in 1 .. k - 1 : j \in S /\ Spans(j, k)}

\* The least set closed under Reached is its own image.
LEMMA ReachedFixpoint ==
    \E S \in SUBSET (1 .. Len(stream) + 1) : S = Reached(S)
<1> DEFINE D == 1 .. Len(stream) + 1
           B == {k \in D : \A S \in SUBSET D : Reached(S) \subseteq S => k \in S}
<1>1. ASSUME NEW S, NEW T, S \subseteq T
      PROVE  Reached(S) \subseteq Reached(T)
  BY <1>1 DEF Reached
<1>2. Reached(B) \subseteq B
  <2>1. ASSUME NEW k \in Reached(B), NEW S \in SUBSET D, Reached(S) \subseteq S
        PROVE  k \in S
    <3>1. B \subseteq S
      BY <2>1
    <3>2. QED
      BY <1>1, <2>1, <3>1
  <2>2. Reached(B) \subseteq D
    BY DEF Reached
  <2>3. QED
    BY <2>1, <2>2
<1>3. B \subseteq Reached(B)
  <2>1. Reached(B) \in SUBSET D
    BY DEF Reached
  <2>2. Reached(Reached(B)) \subseteq Reached(B)
    <3> HIDE DEF B
    <3>1. QED
      BY <1>1, <1>2
  <2>3. QED
    BY <2>1, <2>2
<1>4. B \in SUBSET D /\ B = Reached(B)
  BY <1>2, <1>3
<1>5. QED
  BY <1>4

\* The recursive definition of Boundary has a solution, so Boundary is one.
LEMMA BoundaryEquation ==
    ASSUME TypeOK
    PROVE  Boundary = [k \in 1 .. Len(stream) + 1 |->
                          \/ k = 1
                          \/ \E j \in 1 .. k - 1 :
                                /\ Boundary[j]
                                /\ stream[j].head /\ stream[j].len < MaxNetMsg
                                /\ k = j + H + stream[j].len]
<1> DEFINE D == 1 .. Len(stream) + 1
           Body(f, k) == \/ k = 1
                         \/ \E j \in 1 .. k - 1 :
                               /\ f[j]
                               /\ stream[j].head /\ stream[j].len < MaxNetMsg
                               /\ k = j + H + stream[j].len
           Eq(f) == f = [k \in D |-> Body(f, k)]
<1>1. PICK B \in SUBSET D : B = Reached(B)
  BY ReachedFixpoint
<1> DEFINE g == [k \in D |-> k \in B]
<1>2. Eq(g)
  <2>1. Len(stream) \in Nat
    BY StreamsAssumption DEF TypeOK
  <2>2. ASSUME NEW k \in D
        PROVE  (k \in B) = Body(g, k)
    <3>1. k \in B <=> k = 1 \/ \E j \in 1 .. k - 1 : j \in B /\ Spans(j, k)
      BY <1>1 DEF Reached
    <3>2. ASSUME NEW j \in 1 .. k - 1
          PROVE  j \in B <=> g[j]
      <4>1. j \in D
        BY <2>1
      <4> HIDE DEF D
      <4>2. QED
        BY <4>1
    <3> HIDE DEF g, D
    <3>3. k \in B <=> Body(g, k)
      BY <3>1, <3>2 DEF Spans
    <3>4. CASE k \in B
      <4>1. (k \in B) = TRUE /\ Body(g, k) = TRUE
        BY <3>3, <3>4
      <4> HIDE DEF Body
      <4>2. QED
        BY <4>1
    <3>5. CASE k \notin B
      <4>1. (k \in B) = FALSE /\ Body(g, k) = FALSE
        BY <3>3, <3>5
      <4> HIDE DEF Body
      <4>2. QED
        BY <4>1
    <3>6. QED
      BY <3>4, <3>5
  <2>3. [k \in D |-> k \in B] = [k \in D |-> Body(g, k)]
    <3> HIDE DEF Body, g, D
    <3>1. QED
      BY <2>2
  <2>4. QED
    BY <2>3
<1>3. \E f : Eq(f)
  BY <1>2
<1>4. Boundary = CHOOSE f : Eq(f)
  BY DEF Boundary
<1>5. Eq(Boundary)
  <2> HIDE DEF Eq
  <2>1. QED
    BY <1>3, <1>4
<1>6. QED
  BY <1>5

\* The properties of the stream stay while the stream does.
LEMMA SameStream ==
    ASSUME stream' = stream
    PROVE  Boundary' = Boundary /\ WellFormed' = WellFormed
<1>1. Boundary' = Boundary
  BY DEF Boundary
<1>2. QED
  BY <1>1 DEF WellFormed

LEMMA SameQueue ==
    ASSUME stream' = stream, queued' = queued, MessagesIntact
    PROVE  MessagesIntact'
<1>1. Boundary' = Boundary /\ WellFormed' = WellFormed
  BY SameStream
<1>2. QED
  BY <1>1 DEF MessagesIntact, Genuine, Contiguous

\* The last byte of a queued message has a position in the stream.
LEMMA LastByteType ==
    ASSUME IInv, MessagesIntact, NEW i \in 1 .. Len(queued)
    PROVE  /\ queued[i].len \in Nat /\ queued[i].data \in Seq(0 .. Len(stream))
           /\ Len(queued[i].data) \in Nat \ {0}
           /\ queued[i].data[Len(queued[i].data)] \in Nat
<1>1. /\ queued[i].len \in Nat /\ queued[i].data \in Seq(0 .. Len(stream))
  <2> DEFINE T == [type : DataType, len : Nat, data : Seq(0 .. Len(stream))]
  <2>1. queued \in Seq(T)
    BY DEF IInv, TypeOK
  <2> HIDE DEF T
  <2>2. queued[i] \in T
    BY <2>1
  <2>3. QED
    BY <2>2 DEF T
<1>2. Len(queued[i].data) = H + queued[i].len
  BY DEF MessagesIntact, Genuine
<1>3. Len(queued[i].data) \in Nat \ {0}
  <2>1. H \in Nat \ {0}
    BY SizesAssumption
  <2>2. QED
    BY <1>1, <1>2, <2>1
<1>4. \A s \in Seq(0 .. Len(stream)) :
          Len(s) \in Nat \ {0} => s[Len(s)] \in 0 .. Len(stream)
  OBVIOUS
<1>5. queued[i].data[Len(queued[i].data)] \in 0 .. Len(stream)
  BY <1>1, <1>3, <1>4
<1>6. 0 .. Len(stream) \subseteq Nat
  OBVIOUS
<1>7. QED
  BY <1>1, <1>3, <1>5, <1>6

\* Where the pending bytes lie in the stream.
LEMMA FirstType ==
    ASSUME IInv
    PROVE  /\ Len(stream) \in Nat /\ readLen \in Nat /\ taken \in Nat
           /\ readLen <= taken /\ taken <= Len(stream)
           /\ First \in 1 .. Len(stream) + 1 /\ First + readLen = taken + 1
<1>1. Len(stream) \in Nat
  BY StreamsAssumption DEF IInv, TypeOK
<1>2. QED
  BY <1>1 DEF IInv, TypeOK, BytesAccounted, First

\* Byte p of the pending ones is byte First + p of the stream.
LEMMA PendingByte ==
    ASSUME IInv, Placed, NEW p \in 0 .. readLen - 1
    PROVE  /\ First + p \in 1 .. Len(stream)
           /\ ByteAt(rcvStartPos + p) = First + p
           /\ CellAt(rcvStartPos + p) = stream[First + p]
<1>1. First + p \in 1 .. Len(stream)
  BY FirstType
<1>2. ByteAt(rcvStartPos + p) = First + p
  BY DEF Placed
<1>3. QED
  BY <1>1, <1>2 DEF CellAt

\* The header at byte p of the pending ones is the peer's.
LEMMA PendingHeader ==
    ASSUME IInv, Placed, NEW p \in 0 .. readLen - 1,
           IsValidNetMsgHeader(rcvStartPos + p)
    PROVE  Announces(First + p, MsgBytes(rcvStartPos + p))
<1>1. CellAt(rcvStartPos + p) = stream[First + p]
  BY PendingByte
<1>2. QED
  BY <1>1 DEF IsValidNetMsgHeader, MsgBytes, Announces

\* While the peer sends whole messages, the first pending byte starts a header.
LEMMA NoScan ==
    ASSUME IInv, Placed, AtBoundary, WellFormed, readLen >= H
    PROVE  IsValidNetMsgHeader(rcvStartPos)
<1>1. 0 \in 0 .. readLen - 1 /\ rcvStartPos \in Nat
  BY FirstType, SizesAssumption DEF IInv, TypeOK
<1>2. First + 0 \in 1 .. Len(stream) /\ CellAt(rcvStartPos + 0) = stream[First + 0]
  BY <1>1, PendingByte
<1>3. First + 0 = First /\ rcvStartPos + 0 = rcvStartPos
  BY <1>1, FirstType
<1>4. Boundary[First]
  BY DEF AtBoundary
<1>5. stream[First].head /\ stream[First].len < MaxNetMsg
  BY <1>2, <1>3, <1>4 DEF WellFormed
<1>6. QED
  BY <1>2, <1>3, <1>5 DEF IsValidNetMsgHeader

-----------------------------------------------------------------------------
\* Settle drops bytes in front and keeps the rest in order, moved or not.
LEMMA SettleIntact ==
    ASSUME IInv, IntactInv, pc = "find",
           NEW skip, NEW want, SettleArgs(skip, want), Settle(skip, want),
           ~split /\ want > 0 =>
               readLen - skip >= H /\ Announces(First + skip, want),
           ~split /\ WellFormed => skip = 0
    PROVE  IntactInv'
<1> SUFFICES ASSUME ~split
             PROVE  /\ Placed' /\ HeaderRead'
                    /\ MessagesIntact' /\ QueuedBefore' /\ AtBoundary'
  BY DEF IntactInv, Settle
<1> DEFINE pos     == rcvStartPos + skip
           len     == readLen - skip
           enlarge == want > rcvBufSize
           move    == ~enlarge /\ TooClose(pos, want)
           size    == IF enlarge THEN RoundUp(want) ELSE rcvBufSize
           rest(p) == IF enlarge THEN 0 ELSE ByteAt(p)
<1>1. /\ skip \in Nat /\ want \in Nat /\ skip <= readLen
      /\ rcvStartPos \in Nat /\ rcvBufSize \in Nat /\ headerErrBytes \in Nat
  BY DEF SettleArgs, IInv, TypeOK
<1>2. /\ rcvBuf' = IF enlarge \/ move
                   THEN [p \in 0 .. size - 1 |->
                            IF p < len THEN ByteAt(pos + p) ELSE rest(p)]
                   ELSE rcvBuf
      /\ rcvStartPos' = IF enlarge \/ move THEN 0 ELSE pos
      /\ readLen' = len
      /\ headerErrBytes' = headerErrBytes + skip
      /\ wantReadLen' = want
      /\ stream' = stream /\ taken' = taken /\ queued' = queued
  BY DEF Settle, Drop, net
<1>3. First' = First + skip
  BY <1>1, <1>2, FirstType DEF First
<1>4. Placed /\ HeaderRead /\ MessagesIntact /\ QueuedBefore /\ AtBoundary
  BY DEF IntactInv
<1>5. Placed'
  <2> SUFFICES ASSUME NEW p \in 0 .. len - 1
               PROVE  ByteAt(rcvStartPos + p)' = First + skip + p
    BY <1>2, <1>3 DEF Placed, ByteAt
  <2>1. skip + p \in 0 .. readLen - 1 /\ pos + p = rcvStartPos + (skip + p)
    BY <1>1, FirstType
  <2>2. ByteAt(pos + p) = First + skip + p
    <3>1. ByteAt(pos + p) = First + (skip + p)
      BY <1>4, <2>1, PendingByte
    <3>2. QED
      BY <1>1, <2>1, <3>1, FirstType
  <2>3. CASE enlarge \/ move
    <3>1. rcvStartPos + readLen <= rcvBufSize
      BY DEF IInv, OverrunsOnlyOnEntry
    <3>2. size \in Nat /\ size >= rcvBufSize
      BY <1>1, RoundUpFits
    <3>3. p \in 0 .. size - 1 /\ p < len
      BY <1>1, <3>1, <3>2, FirstType, SMTT(30)
    <3>4. rcvBuf' = [q \in 0 .. size - 1 |->
                        IF q < len THEN ByteAt(pos + q) ELSE rest(q)]
          /\ rcvStartPos' + p = p
      BY <1>2, <2>3
    <3> HIDE DEF size, len, pos, rest, enlarge
    <3>5. p \in DOMAIN rcvBuf' /\ rcvBuf'[p] = ByteAt(pos + p)
      BY <3>3, <3>4
    <3>6. QED
      BY <2>2, <3>4, <3>5 DEF ByteAt
  <2>4. CASE ~(enlarge \/ move)
    <3>1. rcvBuf' = rcvBuf /\ rcvStartPos' = pos
      BY <1>2, <2>4
    <3>2. QED
      BY <2>2, <3>1 DEF ByteAt
  <2>5. QED
    BY <2>3, <2>4
<1>6. HeaderRead'
  BY <1>2, <1>3 DEF HeaderRead, Announces
<1>7. MessagesIntact'
  BY <1>2, <1>4, SameQueue
<1>8. QueuedBefore'
  <2>1. ASSUME NEW i \in 1 .. Len(queued)
        PROVE  queued[i].data[Len(queued[i].data)] < First + skip
    <3> DEFINE last == queued[i].data[Len(queued[i].data)]
    <3>1. last \in Nat /\ last < First
      BY <1>4, LastByteType DEF QueuedBefore
    <3> HIDE DEF last
    <3>2. last < First + skip
      BY <1>1, <3>1, FirstType
    <3>3. QED
      BY <3>2 DEF last
  <2>2. QED
    BY <1>2, <1>3, <2>1 DEF QueuedBefore
<1>9. AtBoundary'
  <2>1. Boundary' = Boundary /\ WellFormed' = WellFormed
    BY <1>2, SameStream
  <2>2. WellFormed => headerErrBytes' = headerErrBytes /\ First' = First
    BY <1>1, <1>2, <1>3, FirstType
  <2>3. QED
    BY <1>4, <2>1, <2>2 DEF AtBoundary
<1>10. QED
  BY <1>5, <1>6, <1>7, <1>8, <1>9

\* A branch at FindHeader drops bytes in front of a header of the peer only.
LEMMA FindHeaderIntact ==
    ASSUME IInv, IntactInv, FindHeader
    PROVE  IntactInv'
<1>1. /\ pc = "find" /\ readLen \in Nat /\ wantReadLen \in Nat
      /\ rcvStartPos \in Nat /\ H \in Nat \ {0}
  BY SizesAssumption
     DEF IInv, TypeOK, FindHeader, HeaderPending, HeaderRight, HeaderScanHit,
         HeaderScanMiss, Overrun
<1>2. CASE HeaderPending
  <2>1. SettleArgs(0, wantReadLen) /\ Settle(0, wantReadLen)
    BY <1>1, <1>2 DEF HeaderPending, SettleArgs
  <2>2. ~split /\ wantReadLen > 0 =>
            readLen - 0 >= H /\ Announces(First + 0, wantReadLen)
    BY <1>1, FirstType DEF IntactInv, HeaderRead
  <2>3. QED
    BY <1>1, <2>1, <2>2, SettleIntact
<1>3. CASE HeaderRight
  <2> DEFINE want == MsgBytes(rcvStartPos)
  <2>1. SettleArgs(0, want) /\ Settle(0, want)
    <3>1. want \in Nat /\ want > 0
      BY <1>1, MsgBytesType DEF IInv
    <3>2. QED
      BY <1>1, <1>3, <3>1 DEF HeaderRight, SettleArgs
  <2>2. ~split => readLen - 0 >= H /\ Announces(First + 0, want)
    <3>1. 0 \in 0 .. readLen - 1 /\ rcvStartPos + 0 = rcvStartPos
      BY <1>1, <1>3 DEF HeaderRight
    <3>2. IsValidNetMsgHeader(rcvStartPos + 0) /\ want = MsgBytes(rcvStartPos + 0)
      BY <1>3, <3>1 DEF HeaderRight
    <3>3. ~split => Announces(First + 0, want)
      BY <3>1, <3>2, PendingHeader DEF IntactInv
    <3>4. QED
      BY <1>1, <1>3, <3>3 DEF HeaderRight
  <2> HIDE DEF want
  <2>3. QED
    BY <1>1, <2>1, <2>2, SettleIntact
<1>4. CASE HeaderScanHit
  <2>1. PICK i \in Hits : Settle(i, MsgBytes(rcvStartPos + i))
    BY <1>4 DEF HeaderScanHit
  <2> DEFINE want == MsgBytes(rcvStartPos + i)
  <2>2. i \in 1 .. readLen - H - 1 /\ IsValidNetMsgHeader(rcvStartPos + i)
    BY DEF Hits
  <2>3. SettleArgs(i, want) /\ Settle(i, want)
    <3>1. want \in Nat /\ want > 0
      BY <1>1, <2>2, MsgBytesType DEF IInv
    <3>2. QED
      BY <1>1, <1>4, <2>1, <2>2, <3>1 DEF HeaderScanHit, SettleArgs
  <2>4. ~split => readLen - i >= H /\ Announces(First + i, want)
    <3>1. i \in 0 .. readLen - 1 /\ readLen - i >= H
      BY <1>1, <2>2
    <3>2. QED
      BY <2>2, <3>1, PendingHeader DEF IntactInv
  <2>5. ~split => ~WellFormed
    BY <1>4, NoScan DEF HeaderScanHit, IntactInv
  <2> HIDE DEF want
  <2>6. QED
    BY <1>1, <2>3, <2>4, <2>5, SettleIntact
<1>5. CASE HeaderScanMiss
  <2> DEFINE skip == IF readLen - H > 1 THEN readLen - H ELSE 1
  <2>1. SettleArgs(skip, 0) /\ Settle(skip, 0)
    BY <1>1, <1>5 DEF HeaderScanMiss, SettleArgs
  <2>2. ~split => ~WellFormed
    BY <1>5, NoScan DEF HeaderScanMiss, IntactInv
  <2> HIDE DEF skip
  <2>3. QED
    BY <1>1, <2>1, <2>2, SettleIntact
<1>6. CASE Overrun
  <2>1. split /\ split' = split
    BY <1>6 DEF Overrun, IInv, OverrunsOnlyOnEntry, IInv, TypeOK, stats
  <2>2. QED
    BY <2>1 DEF IntactInv
<1>7. QED
  BY <1>2, <1>3, <1>4, <1>5, <1>6 DEF FindHeader

\* A step that leaves the stream and the pending bytes alone.
LEMMA SamePending ==
    ASSUME IInv, IntactInv,
           UNCHANGED <<stream, taken, md, stats, queued>>
    PROVE  IntactInv'
<1>1. Boundary' = Boundary /\ WellFormed' = WellFormed
  BY SameStream
<1>2. ~split => MessagesIntact'
  BY SameQueue DEF IntactInv
<1>3. First' = First
  BY DEF First, md
<1>4. QED
  BY <1>1, <1>2, <1>3
     DEF IntactInv, Placed, ByteAt, HeaderRead, Announces, QueuedBefore,
         AtBoundary, md, stats

\* With no message pending, recv puts its bytes where the next one starts.
LEMMA RecvIntact ==
    ASSUME IInv, IntactInv, Recv
    PROVE  IntactInv'
<1>1. CASE RecvData
  <2> DEFINE n == IF Available < IBufSize THEN Available ELSE IBufSize
  <2>1. n \in Nat /\ n > 0 /\ rcvStartPos + n <= rcvBufSize
        /\ rcvStartPos \in Nat /\ rcvBufSize \in Nat
        /\ rcvBuf \in [0 .. rcvBufSize - 1 -> 0 .. Len(stream)]
    BY <1>1 DEF RecvData, IInv, TypeOK, Available, IBufSize
  <2>2. /\ rcvBuf' = [p \in DOMAIN rcvBuf |->
                         IF p \in rcvStartPos .. rcvStartPos + n - 1
                         THEN taken + 1 + p - rcvStartPos
                         ELSE rcvBuf[p]]
        /\ taken' = taken + n
        /\ readLen' = readLen + n
        /\ split' = (split \/ readLen > 0)
        /\ UNCHANGED <<stream, rcvStartPos, wantReadLen, headerErrBytes, queued>>
    BY <1>1 DEF RecvData
  <2> HIDE DEF n
  <2>3. SUFFICES ASSUME ~split'
                 PROVE  /\ Placed' /\ HeaderRead'
                        /\ MessagesIntact' /\ QueuedBefore' /\ AtBoundary'
    BY DEF IntactInv
  <2>4. ~split /\ readLen = 0
    <3>1. ~split /\ ~(readLen > 0)
      BY <2>2, <2>3, Zenon
    <3>2. QED
      BY <3>1, FirstType
  <2>5. First = taken + 1 /\ First' = First /\ readLen' = n
    BY <2>1, <2>2, <2>4, FirstType DEF First
  <2>6. Placed'
    <3>1. ASSUME NEW p \in 0 .. n - 1
          PROVE  ByteAt(rcvStartPos + p)' = First + p
      <4>1. rcvStartPos + p \in DOMAIN rcvBuf
            /\ rcvStartPos + p \in rcvStartPos .. rcvStartPos + n - 1
        BY <2>1
      <4>2. rcvBuf'[rcvStartPos + p] = taken + 1 + (rcvStartPos + p) - rcvStartPos
            /\ rcvStartPos + p \in DOMAIN rcvBuf'
        BY <2>2, <4>1
      <4>3. QED
        BY <2>1, <2>2, <2>5, <4>2, FirstType DEF ByteAt
    <3>2. QED
      BY <2>2, <2>5, <3>1 DEF Placed, ByteAt
  <2>7. HeaderRead'
    BY <2>2, <2>4, SizesAssumption DEF IntactInv, HeaderRead
  <2>8. MessagesIntact'
    BY <2>2, <2>4, SameQueue DEF IntactInv
  <2>9. QueuedBefore' /\ AtBoundary'
    BY <2>2, <2>4, <2>5, SameStream DEF IntactInv, QueuedBefore, AtBoundary
  <2>10. QED
    BY <2>6, <2>7, <2>8, <2>9
<1>2. CASE LoopEnds \/ RecvZero \/ RecvFails
  BY <1>2, SamePending DEF LoopEnds, RecvZero, RecvFails, net
<1>3. QED
  BY <1>1, <1>2 DEF Recv

\* The message handed to EnDataQueue is the one at the first pending byte.
LEMMA MessageGenuine ==
    ASSUME IInv, IntactInv, ~split, pc = "message"
    PROVE  /\ Genuine(Message) /\ Message.data[1] = First
           /\ Len(Message.data) = wantReadLen
           /\ Message.data[wantReadLen] = First + wantReadLen - 1
<1>1. /\ Placed /\ HeaderRead /\ AtBoundary
      /\ wantReadLen \in Nat /\ wantReadLen > 0 /\ readLen >= wantReadLen
      /\ rcvStartPos \in Nat /\ H \in Nat \ {0}
  BY SizesAssumption DEF IntactInv, IInv, TypeOK, MessageComplete
<1>2. Announces(First, wantReadLen) /\ readLen >= H
  BY <1>1 DEF HeaderRead
<1>3. ASSUME NEW k \in 1 .. wantReadLen
      PROVE  ByteAt(rcvStartPos + k - 1) = First + k - 1
  <2>1. k - 1 \in 0 .. readLen - 1 /\ rcvStartPos + k - 1 = rcvStartPos + (k - 1)
    BY <1>1, FirstType
  <2>2. ByteAt(rcvStartPos + (k - 1)) = First + (k - 1)
    BY <1>1, <2>1, PendingByte
  <2>3. QED
    BY <2>1, <2>2, FirstType
<1>4. /\ CellAt(rcvStartPos) = stream[First]
      /\ CellAt(rcvStartPos + H - 1) = stream[First + H - 1]
  <2>1. 0 \in 0 .. readLen - 1 /\ H - 1 \in 0 .. readLen - 1
    BY <1>1, <1>2, FirstType
  <2>2. CellAt(rcvStartPos + 0) = stream[First + 0]
        /\ CellAt(rcvStartPos + (H - 1)) = stream[First + (H - 1)]
    BY <1>1, <2>1, PendingByte
  <2>3. /\ rcvStartPos + 0 = rcvStartPos /\ First + 0 = First
        /\ rcvStartPos + (H - 1) = rcvStartPos + H - 1
        /\ First + (H - 1) = First + H - 1
    BY <1>1, FirstType
  <2>4. QED
    BY <2>2, <2>3
<1>5. Message.data = [k \in 1 .. wantReadLen |-> First + k - 1]
  BY <1>3 DEF Message
<1>6. Len(Message.data) = wantReadLen
  BY <1>1, <1>5
<1>7. ASSUME NEW k \in 1 .. wantReadLen
      PROVE  Message.data[k] = First + k - 1
  BY <1>5
<1>8. 1 \in 1 .. wantReadLen /\ wantReadLen \in 1 .. wantReadLen
  BY <1>1
<1>9. Message.data[1] = First /\ First > 0
  BY <1>7, <1>8, FirstType
<1>10. Contiguous(Message)
  BY <1>6, <1>7, <1>9 DEF Contiguous
<1>11. /\ Message.len = stream[First].len
       /\ Message.type = stream[First + H - 1].type
  BY <1>4 DEF Message, TypeAt
<1>12. Genuine(Message)
  <2>1. stream[First].head /\ wantReadLen = stream[First].len + H
    BY <1>2 DEF Announces
  <2>2. stream[First].len \in Nat
    <3>1. CellAt(rcvStartPos).len \in Nat
      BY <1>1, CellType DEF IInv, Cell
    <3>2. QED
      BY <1>4, <3>1
  <2>3. Len(Message.data) = H + Message.len
    BY <1>1, <1>6, <1>11, <2>1, <2>2
  <2>4. QED
    BY <1>1, <1>9, <1>10, <1>11, <2>1, <2>3 DEF Genuine, AtBoundary
<1>13. QED
  BY <1>6, <1>7, <1>8, <1>9, <1>12

\* Consuming a message leads from its boundary to the next one.
LEMMA ConsumeIntact ==
    ASSUME IInv, IntactInv, Enqueue \/ SkipType
    PROVE  IntactInv'
<1>1. /\ pc = "message" /\ wantReadLen \in Nat /\ wantReadLen > 0
      /\ readLen >= wantReadLen /\ rcvStartPos \in Nat
  BY DEF Enqueue, SkipType, IInv, TypeOK, MessageComplete
<1>2. /\ rcvStartPos' = rcvStartPos + wantReadLen
      /\ readLen' = readLen - wantReadLen
      /\ wantReadLen' = 0
      /\ UNCHANGED <<stream, taken, rcvBuf, headerErrBytes, split>>
      /\ queued' \in {queued, Append(queued, Message)}
  BY DEF Enqueue, SkipType, Consume, net
<1> SUFFICES ASSUME ~split
             PROVE  /\ Placed' /\ HeaderRead'
                    /\ MessagesIntact' /\ QueuedBefore' /\ AtBoundary'
  BY <1>2 DEF IntactInv
<1>3. First' = First + wantReadLen
  BY <1>1, <1>2, FirstType DEF First
<1>4. Placed /\ HeaderRead /\ MessagesIntact /\ QueuedBefore /\ AtBoundary
  BY DEF IntactInv
<1>5. Boundary' = Boundary /\ WellFormed' = WellFormed
  BY <1>2, SameStream
<1>6. Placed'
  <2>1. ASSUME NEW p \in 0 .. readLen - wantReadLen - 1
        PROVE  ByteAt(rcvStartPos + wantReadLen + p) = First + wantReadLen + p
    <3>1. /\ wantReadLen + p \in 0 .. readLen - 1
          /\ rcvStartPos + wantReadLen + p = rcvStartPos + (wantReadLen + p)
      BY <1>1, FirstType
    <3>2. ByteAt(rcvStartPos + (wantReadLen + p)) = First + (wantReadLen + p)
      BY <1>4, <3>1, PendingByte
    <3>3. QED
      BY <1>1, <3>1, <3>2, FirstType
  <2>2. QED
    BY <1>2, <1>3, <2>1 DEF Placed, ByteAt
<1>7. HeaderRead'
  BY <1>2 DEF HeaderRead
<1>8. ASSUME NEW i \in 1 .. Len(queued)
      PROVE  queued[i].data[Len(queued[i].data)] < First
  BY <1>4 DEF QueuedBefore
<1>9. MessagesIntact' /\ QueuedBefore'
  <2>1. CASE queued' = queued
    <3>1. MessagesIntact'
      BY <1>2, <1>4, <2>1, SameQueue
    <3>2. ASSUME NEW i \in 1 .. Len(queued)
          PROVE  queued[i].data[Len(queued[i].data)] < First + wantReadLen
      <4>1. /\ queued[i].data[Len(queued[i].data)] \in Nat
            /\ queued[i].data[Len(queued[i].data)] < First
        BY <1>4, <1>8, LastByteType
      <4>2. First \in Nat
        BY FirstType
      <4>3. QED
        BY <1>1, <4>1, <4>2
    <3>3. QED
      BY <1>3, <2>1, <3>1, <3>2 DEF QueuedBefore
  <2>2. CASE queued' = Append(queued, Message)
    <3> DEFINE Last(m) == m.data[Len(m.data)]
    <3>1. /\ Genuine(Message) /\ Message.data[1] = First
          /\ Last(Message) = First + wantReadLen - 1
      BY <1>1, MessageGenuine
    <3>2. /\ Len(queued) \in Nat /\ Len(queued') = Len(queued) + 1
          /\ queued'[Len(queued) + 1] = Message
          /\ \A i \in 1 .. Len(queued) : queued'[i] = queued[i]
      <4> DEFINE T == [type : DataType, len : Nat, data : Seq(0 .. Len(stream))]
      <4>1. queued \in Seq(T)
        BY DEF IInv, TypeOK
      <4> HIDE DEF T
      <4>2. QED
        BY <2>2, <4>1
    <3>3. ASSUME NEW i \in 1 .. Len(queued')
          PROVE  Genuine(queued'[i])
      <4>1. CASE i \in 1 .. Len(queued)
        BY <1>4, <3>2, <4>1 DEF MessagesIntact
      <4>2. CASE i = Len(queued) + 1
        BY <3>1, <3>2, <4>2
      <4>3. QED
        BY <3>2, <4>1, <4>2
    <3>4. ASSUME NEW i \in 1 .. Len(queued'), NEW j \in 1 .. Len(queued'), i < j
          PROVE  Last(queued'[i]) < queued'[j].data[1]
      <4>1. i \in 1 .. Len(queued)
        BY <3>2, <3>4
      <4>2. CASE j \in 1 .. Len(queued)
        BY <1>4, <3>2, <3>4, <4>1, <4>2 DEF MessagesIntact
      <4>3. CASE j = Len(queued) + 1
        BY <1>8, <3>1, <3>2, <4>1, <4>3
      <4>4. QED
        BY <3>2, <4>2, <4>3
    <3>5. ASSUME NEW i \in 1 .. Len(queued')
          PROVE  Last(queued'[i]) < First + wantReadLen
      <4>1. CASE i \in 1 .. Len(queued)
        <5>1. Last(queued[i]) \in Nat /\ Last(queued[i]) < First
          BY <1>4, <1>8, <4>1, LastByteType
        <5>2. First \in Nat
          BY FirstType
        <5>3. QED
          BY <1>1, <3>2, <4>1, <5>1, <5>2
      <4>2. CASE i = Len(queued) + 1
        <5>1. First \in Nat
          BY FirstType
        <5>2. QED
          BY <1>1, <3>1, <3>2, <4>2, <5>1
      <4>3. QED
        BY <3>2, <4>1, <4>2
    <3>6. MessagesIntact'
      BY <1>2, <1>5, <3>3, <3>4 DEF MessagesIntact, Genuine, Contiguous
    <3>7. QED
      BY <1>3, <3>5, <3>6 DEF QueuedBefore
  <2>3. QED
    BY <1>2, <2>1, <2>2
<1>10. AtBoundary'
  <2>1. SUFFICES ASSUME WellFormed
                 PROVE  Boundary[First + wantReadLen]
    BY <1>2, <1>3, <1>4, <1>5 DEF AtBoundary
  <2>2. Boundary[First] /\ Announces(First, wantReadLen)
    BY <1>1, <1>4, <2>1 DEF AtBoundary, HeaderRead
  <2>3. /\ First + wantReadLen \in 1 .. Len(stream) + 1
        /\ First \in 1 .. (First + wantReadLen) - 1
    BY <1>1, FirstType
  <2>4. /\ stream[First].head /\ stream[First].len < MaxNetMsg
        /\ First + wantReadLen = First + H + stream[First].len
    <3>1. stream[First].len \in Nat
      <4>1. stream \in Seq(Cell) /\ First \in 1 .. Len(stream)
        BY <1>1, StreamsAssumption, FirstType DEF IInv, TypeOK
      <4>2. stream[First] \in Cell
        BY <4>1
      <4>3. QED
        BY <4>2 DEF Cell
    <3>2. QED
      BY <2>2, <3>1, SizesAssumption, FirstType DEF Announces
  <2>5. QED
    <3>1. TypeOK
      BY DEF IInv
    <3>2. Boundary[First + wantReadLen] =
             (\/ First + wantReadLen = 1
              \/ \E j \in 1 .. (First + wantReadLen) - 1 :
                    /\ Boundary[j]
                    /\ stream[j].head /\ stream[j].len < MaxNetMsg
                    /\ First + wantReadLen = j + H + stream[j].len)
      BY <2>3, <3>1, BoundaryEquation
    <3>3. QED
      BY <2>2, <2>3, <2>4, <3>2
<1>11. QED
  BY <1>6, <1>7, <1>9, <1>10

LEMMA InitIntactInv == Init => IntactInv
<1> SUFFICES ASSUME Init PROVE IntactInv
  OBVIOUS
<1>1. First = 1 /\ TypeOK
  BY InitIInv DEF Init, First, IInv
<1>2. Boundary[1]
  <2>1. 1 \in 1 .. Len(stream) + 1
    BY <1>1, StreamsAssumption DEF TypeOK
  <2>2. QED
    BY <1>1, <2>1, BoundaryEquation
<1>3. QED
  BY <1>1, <1>2
     DEF Init, IntactInv, Placed, HeaderRead, MessagesIntact, QueuedBefore,
         AtBoundary

LEMMA NextIntactInv == IInv /\ IntactInv /\ [Next]_vars => IntactInv'
<1> SUFFICES ASSUME IInv, IntactInv, [Next]_vars PROVE IntactInv'
  OBVIOUS
<1>1. CASE FindHeader
  BY <1>1, FindHeaderIntact
<1>2. CASE Recv
  BY <1>2, RecvIntact
<1>3. CASE Enqueue \/ SkipType
  BY <1>3, ConsumeIntact
<1>4. CASE Network \/ Exit \/ Callback \/ EntryOverrun \/ UNCHANGED vars
  BY <1>4, SamePending
     DEF Network, Arrive, PeerLeaves, Exit, Callback, EntryOverrun, vars, net
<1>5. QED
  BY <1>1, <1>2, <1>3, <1>4 DEF Next, Server

LEMMA SpecIntactInv == Spec => []IntactInv
BY SpecIInv, InitIntactInv, NextIntactInv, PTL DEF Spec

\* As long as no recv comes in the middle of a message, the queue is given
\* only messages the peer sent, each with its own header, type and data, in
\* the order in which they were sent; and a peer that sends only messages
\* loses no byte to the scan for a header.  For every stream, however it is
\* cut into recvs, and every buffer size.
THEOREM ContentsAreIntact == Spec => []IntactUnlessSplit
<1>1. IntactInv => IntactUnlessSplit
  BY DEF IntactInv, IntactUnlessSplit, AtBoundary
<1>2. QED
  BY <1>1, SpecIntactInv, PTL

-----------------------------------------------------------------------------
(* The callback as the network loop sees it *)

\* A step that only moves or consumes bytes in the buffer shows nothing.
LEMMA InnerContract ==
    ASSUME pc \in {"find", "message"}, pc' \in {"recv", "find", "message"},
           UNCHANGED <<net, errno, isExit>>
    PROVE  UNCHANGED Contract!vars
BY DEF Contract!vars, WhereInLoop, Available, net

LEMMA FindContract ==
    ASSUME FindHeader
    PROVE  [Contract!Next]_(Contract!vars)
<1>1. CASE Overrun
  <2>1. Contract!Crash
    BY <1>1 DEF Overrun, Contract!Crash, WhereInLoop, Available, net
  <2>2. QED
    BY <2>1 DEF Contract!Next, Contract!Callback
<1>2. ASSUME NEW skip, NEW want, Settle(skip, want)
      PROVE  pc' \in {"recv", "find", "message"} /\ UNCHANGED <<net, errno, isExit>>
  BY <1>2 DEF Settle
<1>3. CASE HeaderPending \/ HeaderRight \/ HeaderScanHit \/ HeaderScanMiss
  <2>1. pc = "find" /\ \E skip, want : Settle(skip, want)
    BY <1>3 DEF HeaderPending, HeaderRight, HeaderScanHit, HeaderScanMiss
  <2>2. QED
    BY <1>2, <2>1, InnerContract
<1>4. QED
  BY <1>1, <1>3 DEF FindHeader

LEMMA ConsumeContract ==
    ASSUME Enqueue \/ SkipType
    PROVE  UNCHANGED Contract!vars
<1>1. pc = "message" /\ Consume
  BY DEF Enqueue, SkipType
<1>2. pc' \in {"recv", "find"} /\ UNCHANGED <<net, errno, isExit>>
  BY <1>1 DEF Consume, AfterMessage
<1>3. QED
  BY <1>1, <1>2, InnerContract

LEMMA RecvContract ==
    ASSUME TypeOK, Recv
    PROVE  Contract!Next
<1> USE DEF Contract!Next, Contract!Callback
<1>1. /\ pc = "recv" /\ WhereInLoop = "callback"
      /\ arrived \in Nat /\ taken \in 0 .. arrived /\ Available \in Nat
      /\ peer \in {"open", "fin", "rst"}
  <2>1. stream \in Seq(Cell)
    BY StreamsAssumption DEF TypeOK
  <2>2. QED
    BY <2>1 DEF Recv, LoopEnds, RecvData, RecvZero, RecvFails, WhereInLoop,
       Available, TypeOK
<1>2. ASSUME NEW code, Return(code)
      PROVE  Contract!Return(code)
  BY <1>2 DEF Return, Contract!Return, WhereInLoop
<1>3. CASE LoopEnds
  <2>1. Contract!Stops
    BY <1>1, <1>2, <1>3 DEF LoopEnds, Contract!Stops, Available, net
  <2>2. QED
    BY <2>1
<1>4. CASE RecvData
  <2> DEFINE n == IF Available < IBufSize THEN Available ELSE IBufSize
  <2>1. IBufSize \in Int
    BY DEF TypeOK, IBufSize
  <2>2. n \in 1 .. Available /\ taken' = taken + n /\ arrived' = arrived
    <3>1. /\ Available > 0 /\ IBufSize > 0
          /\ taken' = taken + n /\ arrived' = arrived
      BY <1>4 DEF RecvData
    <3>2. QED
      BY <1>1, <2>1, <3>1
  <2> HIDE DEF n
  <2>3. Available' \in 0 .. Available - 1
    BY <1>1, <2>2 DEF Available
  <2>4. WhereInLoop' = WhereInLoop /\ errno' \in {errno, "other"}
        /\ ~isExit /\ isExit' = isExit /\ peer' = peer
    BY <1>4 DEF RecvData, WhereInLoop
  <2>5. Contract!RecvData
    BY <1>1, <2>3, <2>4 DEF Contract!RecvData, Contract!InCallback
  <2>6. QED
    BY <2>5
<1>5. CASE RecvZero
  <2>1. /\ ~isExit /\ (Available = 0 => peer = "fin")
        /\ Return(IF errno = "EAGAIN" THEN 0 ELSE -1)
        /\ UNCHANGED <<net, errno, isExit>>
    BY <1>1, <1>5 DEF RecvZero
  <2>2. Contract!RecvZero
    BY <1>1, <1>2, <2>1 DEF Contract!RecvZero, Contract!InCallback, Available, net
  <2>3. QED
    BY <2>2
<1>6. CASE RecvFails
  <2>1. /\ ~isExit /\ Available = 0 /\ peer \in {"open", "rst"}
        /\ errno' = IF peer = "open" THEN "EAGAIN" ELSE "other"
        /\ Return(IF peer = "open" THEN 0 ELSE -1)
        /\ UNCHANGED <<net, isExit>>
    BY <1>1, <1>6 DEF RecvFails
  <2>2. Contract!RecvFails
    BY <1>1, <1>2, <2>1 DEF Contract!RecvFails, Contract!InCallback, Available, net
  <2>3. QED
    BY <2>2
<1>7. QED
  BY <1>3, <1>4, <1>5, <1>6 DEF Recv

LEMMA OutsideContract ==
    ASSUME TypeOK, Network \/ Exit \/ Callback \/ EntryOverrun
    PROVE  Contract!Next
<1> USE DEF Contract!Next, Contract!World, Contract!Loop
<1>1. /\ arrived \in Nat /\ taken \in 0 .. arrived /\ Available \in Nat
      /\ peer \in {"open", "fin", "rst"} /\ Len(stream) \in Nat
  <2>1. stream \in Seq(Cell)
    BY StreamsAssumption DEF TypeOK
  <2>2. QED
    BY <2>1 DEF Available, TypeOK
<1>2. CASE Arrive
  <2>1. Available' > Available
    <3>1. arrived' \in arrived + 1 .. Len(stream) /\ taken' = taken
      BY <1>2 DEF Arrive
    <3>2. arrived \in Int /\ taken \in Int /\ Len(stream) \in Int
      BY <1>1
    <3>3. arrived' \in Int /\ arrived' > arrived
      BY <3>1, <3>2
    <3>4. Available' = arrived' - taken /\ Available = arrived - taken
      BY <3>1 DEF Available
    <3>5. \A x, y, z \in Int : x < y => x - z < y - z
      OBVIOUS
    <3>6. arrived - taken < arrived' - taken
      BY <3>2, <3>3, <3>5
    <3>7. QED
      BY <3>4, <3>6
  <2>2. Contract!Arrive
    BY <1>2, <2>1 DEF Arrive, Contract!Arrive, WhereInLoop
  <2>3. QED
    BY <2>2
<1>3. CASE PeerLeaves
  <2>1. Contract!PeerLeaves
    BY <1>3 DEF PeerLeaves, Contract!PeerLeaves, WhereInLoop, Available
  <2>2. QED
    BY <2>1
<1>4. CASE Exit
  <2>1. Contract!Exit
    BY <1>4 DEF Exit, Contract!Exit, WhereInLoop, Available, net
  <2>2. QED
    BY <2>1
<1>5. CASE Callback
  <2>1. Available > 0 \/ peer \in {"fin", "rst"}
    BY <1>1, <1>5 DEF Callback, Readable
  <2>2. Contract!Call
    BY <1>5, <2>1 DEF Callback, Contract!Call, WhereInLoop, Available, net
  <2>3. QED
    BY <2>2
<1>6. CASE EntryOverrun
  <2>1. Available > 0 \/ peer \in {"fin", "rst"}
    BY <1>1, <1>6 DEF EntryOverrun, Readable
  <2>2. Contract!Call
    BY <1>6, <2>1 DEF EntryOverrun, Contract!Call, WhereInLoop, Available, net
  <2>3. QED
    BY <2>2
<1>7. QED
  BY <1>2, <1>3, <1>4, <1>5, <1>6 DEF Network

\* To the loop readFunc is a callback as ReadCallback describes it: it takes
\* what the socket holds and returns for no other reason, and with no other
\* code, than the answers of recv and g_isExit; cutting, moving, enlarging
\* and enqueuing do not show.
THEOREM CallbackKeepsContract == Spec => KeepsContract
<1>1. Init => Contract!Init
  BY DEF Init, Contract!Init, WhereInLoop, Available
<1>2. TypeOK /\ [Next]_vars => [Contract!Next]_(Contract!vars)
  <2> SUFFICES ASSUME TypeOK, [Next]_vars
               PROVE  [Contract!Next]_(Contract!vars)
    OBVIOUS
  <2>1. CASE UNCHANGED vars
    BY <2>1 DEF vars, net, Contract!vars, WhereInLoop, Available
  <2>2. CASE FindHeader
    BY <2>2, FindContract
  <2>3. CASE Enqueue \/ SkipType
    BY <2>3, ConsumeContract
  <2>4. CASE Recv
    BY <2>4, RecvContract
  <2>5. CASE Network \/ Exit \/ Callback \/ EntryOverrun
    BY <2>5, OutsideContract
  <2>6. QED
    BY <2>1, <2>2, <2>3, <2>4, <2>5 DEF Next, Server
<1>3. QED
  BY <1>1, <1>2, TypeCorrect, PTL DEF Spec, Contract!Spec, KeepsContract
=============================================================================
