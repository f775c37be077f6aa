---------------------------- MODULE ClientRecvProofs ----------------------------
(***************************************************************************)
(* Proofs about ClientRecv: type correctness and memory safety of the      *)
(* receive buffer, the byte accounting, and that the messages handed to    *)
(* the result thread are the messages sent, for every size of header,      *)
(* buffer, block and queue and every sequence of connections.              *)
(***************************************************************************)
EXTENDS ClientRecv, SequenceTheorems, WellFoundedInduction, TLAPS

\* the stream position of the first pending byte
First == taken - readLen + 1

\* The pending bytes are the last ones received, in their order, and of one
\* connection; only a complete message is handed over; and the buffer was
\* never enlarged for a message above 512 MB.
Placed == \A p \in 0 .. readLen - 1 : ByteAt(rcvStartPos + p) = First + p

Control ==
    /\ readLen <= taken
    /\ net = "connect" => readLen = 0 /\ rcvMsgBytes = 0
    /\ net = "message" => rcvMsgBytes > 0 /\ readLen >= rcvMsgBytes
    /\ \A s \in starts : s <= First
    /\ rcvBufSize <= TooLarge + Block

\* What the steps preserve together.
IInv == TypeOK /\ BytesAccounted /\ Control /\ Placed

-----------------------------------------------------------------------------
(* The operators the steps are built from *)

LEMMA Sizes ==
    /\ C \in Nat \ {0} /\ H \in Nat /\ H > C
    /\ RcvBuf \in Nat /\ RcvBuf > H
    /\ Block \in Nat \ {0} /\ TooLarge \in Nat
    /\ Word \in Nat \ {0} /\ Word > TooLarge + Block /\ TooLarge >= RcvBuf
BY RecvAssumption

LEMMA ZeroCellType == ZeroCell \in Cell
<1>1. 0 \in 0 .. C
  BY Sizes
<1>2. QED
  BY <1>1 DEF ZeroCell, Cell

\* The cell at any address has its type.
LEMMA CellType ==
    ASSUME TypeOK, NEW p \in Int
    PROVE  /\ Len(stream) \in Nat
           /\ ByteAt(p) \in 0 .. Len(stream)
           /\ CellAt(p).len \in Nat
<1>1. stream \in Seq(Cell) /\ Len(stream) \in Nat
  BY DEF TypeOK
<1>2. ByteAt(p) \in 0 .. Len(stream)
  BY <1>1 DEF TypeOK, ByteAt
<1>3. CellAt(p) \in Cell
  <2>1. CASE ByteAt(p) = 0
    BY <2>1, ZeroCellType DEF CellAt
  <2>2. CASE ByteAt(p) # 0
    <3>1. ByteAt(p) \in 1 .. Len(stream)
      BY <1>1, <1>2, <2>2
    <3>2. stream[ByteAt(p)] \in Cell
      BY <1>1, <3>1
    <3>3. QED
      BY <2>2, <3>2 DEF CellAt
  <2>3. QED
    BY <2>1, <2>2
<1>4. QED
  BY <1>1, <1>2, <1>3 DEF Cell

\* What iRcvMsgBytes makes of the announced length.
LEMMA MsgBytesType ==
    ASSUME TypeOK, NEW p \in Int
    PROVE  /\ Need(p) \in Nat /\ Need(p) >= H
           /\ MsgBytes(p) \in Nat
           /\ Need(p) <= TooLarge + Block => MsgBytes(p) = Need(p) /\ MsgBytes(p) > 0
<1>1. CellAt(p + C).len \in Nat
  <2>1. p + C \in Int
    BY Sizes
  <2>2. QED
    BY <2>1, CellType
<1>2. Need(p) \in Nat /\ Need(p) >= H
  BY <1>1, Sizes DEF Need
<1>3. MsgBytes(p) \in Nat
  <2>1. Need(p) % Word \in 0 .. Word - 1
    BY <1>2, Sizes
  <2>2. QED
    BY <2>1, Sizes DEF MsgBytes
<1>4. Need(p) <= TooLarge + Block => MsgBytes(p) = Need(p)
  <2>1. ASSUME NEW n \in Nat, n < Word
        PROVE  n % Word = n
    BY <2>1, Sizes
  <2>2. QED
    BY <1>2, <2>1, Sizes DEF MsgBytes
<1>5. QED
  BY <1>2, <1>3, <1>4, Sizes

\* An enlarged buffer holds the message it was enlarged for.
LEMMA RoundUpFits ==
    ASSUME NEW n \in Nat
    PROVE  RoundUp(n) \in Nat /\ RoundUp(n) > n /\ RoundUp(n) <= n + Block
<1>1. n % Block \in 0 .. Block - 1 /\ n % Block <= n
  BY Sizes
<1>2. QED
  BY <1>1, Sizes DEF RoundUp

\* Where the pending bytes lie in the stream.
LEMMA FirstType ==
    ASSUME IInv
    PROVE  /\ Len(stream) \in Nat /\ readLen \in Nat /\ taken \in Nat
           /\ arrived \in Nat /\ taken <= arrived /\ arrived <= Len(stream)
           /\ First \in 1 .. Len(stream) + 1 /\ First + readLen = taken + 1
           /\ rcvStartPos \in Nat /\ rcvBufSize \in Nat
           /\ rcvStartPos + readLen <= rcvBufSize
           /\ rcvMsgBytes \in Nat /\ rcvMsgBytes <= rcvBufSize
<1>1. Len(stream) \in Nat
  BY DEF IInv, TypeOK
<1>2. QED
  BY <1>1 DEF IInv, TypeOK, Control, First

\* Byte p of the pending ones is byte First + p of the stream.
LEMMA PendingByte ==
    ASSUME IInv, NEW p \in 0 .. readLen - 1
    PROVE  /\ First + p \in 1 .. Len(stream)
           /\ ByteAt(rcvStartPos + p) = First + p
           /\ CellAt(rcvStartPos + p) = stream[First + p]
<1>1. First + p \in 1 .. Len(stream)
  BY FirstType
<1>2. ByteAt(rcvStartPos + p) = First + p
  BY DEF IInv, Placed
<1>3. QED
  BY <1>1, <1>2 DEF CellAt

-----------------------------------------------------------------------------
(* The buffer work common to the steps at FindHeader *)

LEMMA SettleStep ==
    ASSUME IInv, net = "find", NEW skip \in 0 .. readLen, NEW want \in Nat,
           want <= rcvBufSize \/ want <= TooLarge,
           Settle(skip, want)
    PROVE  IInv' /\ First' = First + skip
<1> DEFINE pos     == rcvStartPos + skip
           len     == readLen - skip
           enlarge == want > rcvBufSize
           size    == IF enlarge THEN RoundUp(want) ELSE rcvBufSize
           move    == size - pos < IF want > 0 THEN want ELSE size \div 2
           cell(p) == IF p < len THEN ByteAt(pos + p)
                      ELSE IF enlarge THEN 0 ELSE ByteAt(p)
<1>1. /\ pos \in Nat /\ len \in Nat /\ skip \in Nat /\ len <= readLen
      /\ pos + len <= rcvBufSize /\ pos + len = rcvStartPos + readLen
      /\ rcvBufSize \in Nat /\ headerErrBytes \in Nat
  BY FirstType DEF IInv, TypeOK
<1>2. size \in Nat /\ size >= rcvBufSize /\ want <= size
  BY <1>1, RoundUpFits
<1>3. size <= TooLarge + Block
  <2>1. CASE enlarge
    BY <1>1, <2>1, RoundUpFits, Sizes
  <2>2. CASE ~enlarge
    BY <2>2 DEF IInv, Control
  <2>3. QED
    BY <2>1, <2>2
<1>4. /\ rcvBuf' = IF enlarge \/ move
                   THEN [p \in 0 .. size - 1 |-> cell(p)] ELSE rcvBuf
      /\ rcvStartPos' = IF enlarge \/ move THEN 0 ELSE pos
      /\ rcvBufSize' = size
      /\ readLen' = len /\ rcvMsgBytes' = want
      /\ headerErrBytes' = headerErrBytes + skip
      /\ net' = IF want > 0 /\ len >= want THEN "message" ELSE "recv"
      /\ short' \in BOOLEAN
      /\ UNCHANGED <<isExit, world, totalRcvBytes, validBytes, lostBytes, out>>
  BY DEF Settle, Skip, Looked, AfterHeader, IInv, TypeOK
<1>5. First' = First + skip /\ UNCHANGED <<stream, starts, taken, arrived>>
  <2>1. readLen' = readLen - skip /\ UNCHANGED <<stream, starts, taken, arrived>>
    BY <1>4 DEF world
  <2>2. taken \in Int /\ readLen \in Int /\ skip \in Int
    BY FirstType
  <2>3. First' = taken - (readLen - skip) + 1
    BY <2>1 DEF First
  <2>4. QED
    BY <2>1, <2>2, <2>3 DEF First
<1>6. /\ rcvBuf' \in [0 .. size - 1 -> 0 .. Len(stream)]
      /\ \A p \in 0 .. len - 1 : ByteAt(rcvStartPos + p)' = First + skip + p
      /\ rcvStartPos' \in 0 .. size /\ len \in 0 .. size - rcvStartPos'
  <2>1. ASSUME NEW p \in 0 .. len - 1
        PROVE  ByteAt(pos + p) = First + skip + p
    <3>1. skip + p \in 0 .. readLen - 1 /\ pos + p = rcvStartPos + (skip + p)
      <4>1. skip \in Nat /\ readLen \in Nat /\ rcvStartPos \in Nat
        BY FirstType
      <4>2. p \in Nat /\ p < readLen - skip
        BY <4>1
      <4>3. QED
        BY <4>1, <4>2
    <3>2. ByteAt(rcvStartPos + (skip + p)) = First + (skip + p)
      BY <3>1, PendingByte
    <3>3. QED
      BY <1>1, <3>1, <3>2, FirstType, SMTT(30)
  <2>2. CASE enlarge \/ move
    <3>1. rcvBuf' = [p \in 0 .. size - 1 |-> cell(p)] /\ rcvStartPos' = 0
      BY <1>4, <2>2
    <3>2. ASSUME NEW p \in 0 .. size - 1
          PROVE  cell(p) \in 0 .. Len(stream)
      <4>1. pos + p \in Int /\ p \in Int
        BY <1>1, <1>2
      <4>2. /\ ByteAt(pos + p) \in 0 .. Len(stream)
            /\ ByteAt(p) \in 0 .. Len(stream) /\ 0 \in 0 .. Len(stream)
        BY <4>1, CellType, FirstType DEF IInv
      <4>3. QED
        BY <4>2
    <3>3. ASSUME NEW p \in 0 .. len - 1
          PROVE  p \in 0 .. size - 1 /\ cell(p) = First + skip + p
      BY <1>1, <1>2, <2>1
    <3> HIDE DEF cell, size, len, pos, move, enlarge
    <3>4. rcvBuf' \in [0 .. size - 1 -> 0 .. Len(stream)]
      BY <3>1, <3>2
    <3>5. ASSUME NEW p \in 0 .. len - 1
          PROVE  ByteAt(rcvStartPos + p)' = First + skip + p
      <4>1. rcvStartPos' + p = p
        BY <3>1
      <4>2. p \in DOMAIN rcvBuf' /\ rcvBuf'[p] = First + skip + p
        BY <3>1, <3>3
      <4>3. QED
        BY <4>1, <4>2 DEF ByteAt
    <3>6. QED
      BY <1>1, <1>2, <3>1, <3>4, <3>5
  <2>3. CASE ~(enlarge \/ move)
    <3>1. rcvBuf' = rcvBuf /\ rcvStartPos' = pos /\ size = rcvBufSize
      BY <1>4, <2>3
    <3>2. rcvBuf' \in [0 .. size - 1 -> 0 .. Len(stream)]
      BY <3>1 DEF IInv, TypeOK
    <3>3. \A p \in 0 .. len - 1 : ByteAt(rcvStartPos + p)' = First + skip + p
      BY <2>1, <3>1 DEF ByteAt
    <3>4. QED
      BY <1>1, <3>1, <3>2, <3>3
  <2>4. QED
    BY <2>2, <2>3
<1> HIDE DEF pos, size, move, cell
<1>7. TypeOK'
  <2>1. /\ rcvBufSize' \in Nat /\ rcvBufSize' >= RcvBuf
        /\ rcvBuf' \in [0 .. rcvBufSize' - 1 -> 0 .. Len(stream)]
        /\ rcvStartPos' \in 0 .. rcvBufSize'
        /\ readLen' \in 0 .. rcvBufSize' - rcvStartPos'
        /\ rcvMsgBytes' \in 0 .. rcvBufSize'
        /\ headerErrBytes' \in Nat
    <3>1. rcvBufSize' = size /\ readLen' = len /\ rcvMsgBytes' = want
          /\ headerErrBytes' = headerErrBytes + skip
      BY <1>4
    <3>2. rcvBufSize >= RcvBuf
      BY DEF IInv, TypeOK
    <3> HIDE DEF len
    <3>3. rcvBuf' \in [0 .. rcvBufSize' - 1 -> 0 .. Len(stream)]
      BY <1>6, <3>1
    <3>4. rcvStartPos' \in 0 .. rcvBufSize' /\ readLen' \in 0 .. rcvBufSize' - rcvStartPos'
      BY <1>6, <3>1
    <3>5. rcvBufSize' \in Nat /\ rcvBufSize' >= RcvBuf
      BY <1>1, <1>2, <3>1, <3>2, Sizes
    <3>6. rcvMsgBytes' \in 0 .. rcvBufSize' /\ headerErrBytes' \in Nat
      BY <1>1, <1>2, <3>1
    <3>7. QED
      BY <3>3, <3>4, <3>5, <3>6
  <2>2. net' \in {"recv", "message"}
    BY <1>4
  <2>3. /\ short' \in BOOLEAN
        /\ UNCHANGED <<isExit, world, totalRcvBytes, validBytes, lostBytes, out>>
    BY <1>4
  <2>4. QED
    BY <2>1, <2>2, <2>3 DEF IInv, TypeOK, world, out
<1>8. BytesAccounted'
  BY <1>1, <1>4, FirstType DEF IInv, TypeOK, BytesAccounted
<1>9. Control'
  <2>1. readLen' <= taken'
    <3>1. readLen' = len /\ taken' = taken
      BY <1>4, <1>5
    <3> HIDE DEF len
    <3>2. QED
      BY <1>1, <3>1, FirstType, SMTT(30)
  <2>2. net' # "connect" /\ (net' = "message" => want > 0 /\ len >= want)
    BY <1>4
  <2>3. \A s \in starts : s <= First + skip
    <3>1. \A s \in starts : s \in Int /\ s <= First
      BY FirstType DEF IInv, TypeOK, Control
    <3>2. First \in Int /\ skip \in Nat
      BY <1>1, FirstType
    <3> HIDE DEF First
    <3>3. QED
      BY <3>1, <3>2
  <2>4. QED
    BY <1>4, <1>5, <1>3, <2>1, <2>2, <2>3 DEF Control
<1>10. Placed'
  BY <1>4, <1>5, <1>6 DEF Placed, ByteAt
<1>11. QED
  BY <1>5, <1>7, <1>8, <1>9, <1>10 DEF IInv

\* "too large msg" drops what is pending.
LEMMA DropAllStep ==
    ASSUME IInv, net = "find", DropAll
    PROVE  IInv' /\ First' = First + readLen
<1>1. /\ readLen' = 0 /\ rcvMsgBytes' = 0 /\ rcvStartPos' = 0
      /\ headerErrBytes' = headerErrBytes + readLen
      /\ net' = "recv" /\ short' \in BOOLEAN
      /\ UNCHANGED <<rcvBuf, rcvBufSize, isExit, world, totalRcvBytes,
                     validBytes, lostBytes, out>>
  BY DEF DropAll, Skip, Looked, IInv, TypeOK
<1>2. First' = First + readLen
  BY <1>1, FirstType DEF First, world
<1>3. TypeOK'
  BY <1>1, FirstType DEF IInv, TypeOK, world, out
<1>4. BytesAccounted'
  BY <1>1, FirstType DEF IInv, TypeOK, BytesAccounted
<1>5. Control' /\ Placed'
  BY <1>1, <1>2, FirstType, SMTT(30) DEF IInv, TypeOK, Control, Placed, world
<1>6. QED
  BY <1>2, <1>3, <1>4, <1>5 DEF IInv

-----------------------------------------------------------------------------
(* One lemma for each kind of step *)

\* What is not refused has a length iRcvMsgBytes can hold, and fits the buffer
\* or the limit.
LEMMA NotRefused ==
    ASSUME IInv, NEW p \in Int, ~Refuses(p)
    PROVE  /\ MsgBytes(p) \in Nat
           /\ MsgBytes(p) <= rcvBufSize \/ MsgBytes(p) <= TooLarge
           /\ MsgBytes(p) > 0 => MsgBytes(p) = Need(p)
<1>1. /\ MsgBytes(p) \in Nat /\ Need(p) \in Nat
      /\ Need(p) <= TooLarge + Block => MsgBytes(p) = Need(p)
  BY MsgBytesType DEF IInv
<1>2. MsgBytes(p) = 0 \/ Need(p) <= rcvBufSize \/ Need(p) <= TooLarge
  <2> DEFINE n == Need(p)
             m == MsgBytes(p)
  <2>1. ~(m > 0 /\ n > rcvBufSize /\ n > TooLarge)
    BY DEF Refuses
  <2>2. m \in Nat /\ n \in Nat /\ rcvBufSize \in Nat
    BY <1>1, FirstType
  <2> HIDE DEF n, m
  <2>3. m = 0 \/ n <= rcvBufSize \/ n <= TooLarge
    BY <2>1, <2>2, Sizes
  <2>4. QED
    BY <2>3 DEF n, m
<1>3. rcvBufSize <= TooLarge + Block
  BY DEF IInv, Control
<1> DEFINE n == Need(p)
           m == MsgBytes(p)
<1>4. /\ m \in Nat /\ n \in Nat /\ rcvBufSize \in Nat
      /\ n <= TooLarge + Block => m = n
      /\ m = 0 \/ n <= rcvBufSize \/ n <= TooLarge
  BY <1>1, <1>2, FirstType
<1> HIDE DEF n, m
<1>5. /\ m <= rcvBufSize \/ m <= TooLarge
      /\ m > 0 => m = n
  BY <1>3, <1>4, Sizes
<1>6. QED
  BY <1>1, <1>5 DEF n, m

\* A branch that found the confirm number settles there or drops everything.
LEMMA FoundStep ==
    ASSUME IInv, net = "find", NEW i \in 0 .. readLen, Found(i)
    PROVE  IInv' /\ First' \in {First + i, First + readLen}
<1>1. rcvStartPos + i \in Int
  BY FirstType
<1>2. CASE Refuses(rcvStartPos + i)
  BY <1>2, DropAllStep DEF Found
<1>3. CASE ~Refuses(rcvStartPos + i)
  BY <1>1, <1>3, NotRefused, SettleStep DEF Found
<1>4. QED
  BY <1>2, <1>3

LEMMA FindHeaderStep ==
    ASSUME IInv, FindHeader
    PROVE  IInv'
<1>1. net = "find" /\ 0 \in 0 .. readLen
  BY FirstType
     DEF FindHeader, HeaderKnown, HeaderRight, HeaderScanHit, HeaderScanMiss,
         ScanBeyond
<1>2. CASE HeaderKnown
  BY <1>1, <1>2, SettleStep, FirstType DEF HeaderKnown
<1>3. CASE HeaderRight
  BY <1>1, <1>3, FoundStep DEF HeaderRight
<1>4. CASE HeaderScanHit
  <2>1. PICK i \in Hits : i <= readLen /\ Found(i)
    BY <1>4 DEF HeaderScanHit
  <2>2. i \in 0 .. readLen
    BY <2>1, FirstType DEF Hits
  <2>3. QED
    BY <1>1, <2>1, <2>2, FoundStep
<1>5. CASE HeaderScanMiss
  <2> DEFINE skip == IF readLen - H > 1 THEN readLen - H ELSE 1
  <2>1. skip \in 0 .. readLen /\ Settle(skip, 0)
    BY <1>5, FirstType, Sizes DEF HeaderScanMiss
  <2> HIDE DEF skip
  <2>2. QED
    BY <1>1, <2>1, SettleStep, Sizes
<1>6. CASE ScanBeyond
  <2>1. /\ net' = "undefined" /\ short' \in BOOLEAN
        /\ UNCHANGED <<buf, headerErrBytes, isExit, world, totalRcvBytes,
                       validBytes, lostBytes, out>>
    BY <1>6 DEF ScanBeyond, Looked, IInv, TypeOK
  <2>2. QED
    BY <2>1 DEF IInv, TypeOK, BytesAccounted, Control, Placed, First, ByteAt,
       buf, world, out
<1>7. QED
  BY <1>2, <1>3, <1>4, <1>5, <1>6 DEF FindHeader

\* recv stores its bytes inside the buffer and inside the stream.
LEMMA RecvDataStep ==
    ASSUME IInv, RecvData
    PROVE  IInv' /\ First' = First
<1> DEFINE n == Taken
<1>1. /\ n \in Nat /\ taken + n <= arrived /\ WriteAt + n <= rcvBufSize
      /\ WriteAt = rcvStartPos + readLen
      /\ rcvBuf \in [0 .. rcvBufSize - 1 -> 0 .. Len(stream)]
  <2>1. rcvBuf \in [0 .. rcvBufSize - 1 -> 0 .. Len(stream)]
    BY DEF IInv, TypeOK
  <2>2. /\ taken \in Nat /\ arrived \in Nat /\ taken <= arrived
        /\ rcvBufSize \in Nat /\ readLen \in Nat /\ rcvStartPos \in Nat
        /\ readLen <= rcvBufSize
    BY FirstType
  <2>3. WriteAt + Taken <= rcvBufSize
    BY DEF RecvData
  <2>4. n \in Nat /\ taken + n <= arrived
    BY <2>2 DEF Taken, Available
  <2>5. QED
    BY <2>1, <2>3, <2>4 DEF WriteAt
<1>2. /\ rcvBuf' = [p \in DOMAIN rcvBuf |->
                       IF p \in WriteAt .. WriteAt + n - 1
                       THEN taken + 1 + p - WriteAt ELSE rcvBuf[p]]
      /\ taken' = taken + n /\ readLen' = readLen + n
      /\ totalRcvBytes' = totalRcvBytes + n
      /\ net = "recv" /\ net' = "find"
      /\ UNCHANGED <<isExit, stream, coming, starts, arrived, peer, rcvBufSize,
                     rcvStartPos, rcvMsgBytes, headerErrBytes, validBytes,
                     lostBytes, short, out>>
  BY DEF RecvData
<1> HIDE DEF n
<1>3. /\ taken \in Nat /\ arrived \in Nat /\ arrived <= Len(stream)
       /\ Len(stream) \in Nat /\ readLen \in Nat /\ rcvStartPos \in Nat
       /\ rcvBufSize \in Nat /\ First = taken - readLen + 1
  BY FirstType DEF First
<1>4. First' = First
  <2>1. First' = (taken + n) - (readLen + n) + 1
    BY <1>2 DEF First
  <2>2. QED
    BY <1>1, <2>1, FirstType DEF First
<1>5. rcvBuf' \in [0 .. rcvBufSize - 1 -> 0 .. Len(stream)]
  <2>1. ASSUME NEW p \in 0 .. rcvBufSize - 1, p \in WriteAt .. WriteAt + n - 1
        PROVE  taken + 1 + p - WriteAt \in 0 .. Len(stream)
    <3>1. p \in Int /\ WriteAt \in Int /\ p >= WriteAt /\ p < WriteAt + n
      BY <1>1, <1>3, <2>1
    <3>2. QED
      BY <1>1, <1>3, <3>1
  <2>2. QED
    BY <1>1, <1>2, <2>1
<1>6. TypeOK'
  <2>1. /\ taken' \in 0 .. arrived
        /\ readLen' \in 0 .. rcvBufSize - rcvStartPos
        /\ totalRcvBytes' \in Nat
    BY <1>1, <1>2, FirstType DEF IInv, TypeOK
  <2>2. QED
    BY <1>2, <1>5, <2>1 DEF IInv, TypeOK, out
<1>7. BytesAccounted'
  BY <1>1, <1>2, FirstType DEF IInv, TypeOK, BytesAccounted
<1>8. Control'
  <2>1. readLen' <= taken'
    BY <1>1, <1>2, FirstType DEF IInv, Control
  <2>2. QED
    BY <1>2, <1>4, <2>1 DEF IInv, Control
<1>9. Placed'
  <2>1. ASSUME NEW p \in 0 .. readLen + n - 1
        PROVE  ByteAt(rcvStartPos + p)' = First + p
    <3>1. p \in Nat /\ p < readLen + n
      BY <1>1, <1>3
    <3>2. rcvStartPos + p \in DOMAIN rcvBuf
      BY <1>1, <1>3, <3>1
    <3>3. CASE p < readLen
      <4>1. ByteAt(rcvStartPos + p) = First + p
        BY <3>3, PendingByte, FirstType
      <4>2. ~(rcvStartPos + p \in WriteAt .. WriteAt + n - 1)
        <5>1. WriteAt = rcvStartPos + readLen
          BY DEF WriteAt
        <5>2. rcvStartPos + p < WriteAt /\ WriteAt \in Nat
          BY <1>3, <3>1, <3>3, <5>1
        <5>3. QED
          BY <1>3, <3>1, <5>2, SMTT(30)
      <4>3. QED
        BY <1>2, <3>2, <4>1, <4>2 DEF ByteAt
    <3>4. CASE p >= readLen
      <4>1. rcvStartPos + p \in WriteAt .. WriteAt + n - 1
        BY <1>1, <1>3, <3>1, <3>4
      <4>2. ByteAt(rcvStartPos + p)' = taken + 1 + (rcvStartPos + p) - WriteAt
        BY <1>2, <3>2, <4>1 DEF ByteAt
      <4>3. QED
        BY <1>1, <1>3, <3>1, <4>2
    <3>5. QED
      BY <1>1, <3>3, <3>4, FirstType, SMTT(30)
  <2>2. readLen' = readLen + n
    BY <1>2
  <2>3. \A p \in 0 .. readLen' - 1 : ByteAt(rcvStartPos + p)' = First' + p
    BY <1>1, <1>4, <1>3, <2>1, <2>2
  <2>4. QED
    BY <2>3, Zenon DEF Placed
<1>10. QED
  BY <1>4, <1>6, <1>7, <1>8, <1>9 DEF IInv

\* A step that leaves the stream, the buffer and the counters alone.
LEMMA OtherRecvStep ==
    ASSUME IInv, LoopEnds \/ RecvBeyond \/ RecvLost
    PROVE  IInv'
<1>1. CASE LoopEnds \/ RecvBeyond
  <2>1. net' \in {"ended", "overrun"}
        /\ UNCHANGED <<isExit, world, buf, stats, out>>
    BY <1>1 DEF LoopEnds, RecvBeyond
  <2>2. QED
    BY <2>1 DEF IInv, TypeOK, BytesAccounted, Control, Placed, First, ByteAt,
       buf, world, stats, out
<1>2. CASE RecvLost
  <2>1. /\ lostBytes' = lostBytes + readLen
        /\ readLen' = 0 /\ rcvMsgBytes' = 0 /\ rcvStartPos' = 0
        /\ net' = "connect"
        /\ UNCHANGED <<isExit, world, rcvBuf, rcvBufSize, headerErrBytes,
                       totalRcvBytes, validBytes, short, out>>
    BY <1>2 DEF RecvLost
  <2>2. First' = First + readLen
    <3>1. First' = taken - 0 + 1
      BY <2>1 DEF First, world
    <3>2. QED
      BY <3>1, FirstType
  <2>3. TypeOK'
    BY <2>1, FirstType, SMTT(30) DEF IInv, TypeOK, world, out
  <2>4. BytesAccounted'
    BY <2>1, FirstType DEF IInv, TypeOK, BytesAccounted
  <2>5. Control' /\ Placed'
    BY <2>1, <2>2, FirstType, SMTT(30) DEF IInv, TypeOK, Control, Placed, world
  <2>6. QED
    BY <2>3, <2>4, <2>5 DEF IInv
<1>3. QED
  BY <1>1, <1>2

\* Another connection adds to the stream, behind all that was taken.
LEMMA ConnectStep ==
    ASSUME IInv, Connect
    PROVE  /\ IInv'
           /\ Len(stream') >= Len(stream)
           /\ \A k \in 1 .. Len(stream) : stream'[k] = stream[k]
           /\ First' = Len(stream) + 1
<1>1. /\ stream \in Seq(Cell) /\ coming \in Seq(Seq(Cell)) /\ coming # <<>>
      /\ net = "connect" /\ readLen = 0
  BY DEF Connect, IInv, TypeOK, Control
<1>2. Head(coming) \in Seq(Cell) /\ Tail(coming) \in Seq(Seq(Cell))
  BY <1>1, HeadTailProperties
<1>3. /\ stream' = stream \o Head(coming) /\ coming' = Tail(coming)
      /\ starts' = starts \cup {Len(stream) + 1}
      /\ arrived' = Len(stream) /\ taken' = Len(stream) /\ peer' = "open"
      /\ net' = "recv"
      /\ UNCHANGED <<isExit, buf, stats, out>>
  BY DEF Connect
<1>4. /\ stream' \in Seq(Cell) /\ Len(stream) \in Nat /\ Len(stream') \in Nat
      /\ Len(stream') >= Len(stream)
      /\ \A k \in 1 .. Len(stream) : stream'[k] = stream[k]
  <2>1. Len(stream) \in Nat /\ Len(Head(coming)) \in Nat
    BY <1>1, <1>2
  <2>2. stream' \in Seq(Cell) /\ Len(stream') = Len(stream) + Len(Head(coming))
    BY <1>1, <1>2, <1>3, ConcatProperties
  <2>3. ASSUME NEW k \in 1 .. Len(stream)
        PROVE  stream'[k] = stream[k]
    BY <1>1, <1>2, <1>3, <2>1, ConcatProperties
  <2>4. QED
    BY <2>1, <2>2, <2>3
<1>5. First' = Len(stream) + 1 /\ First <= Len(stream) + 1
  <2>1. First' = Len(stream) - 0 + 1
    BY <1>1, <1>3 DEF First, buf
  <2>2. QED
    BY <1>4, <2>1, FirstType
<1>6. TypeOK'
  <2>1. 0 .. Len(stream) \subseteq 0 .. Len(stream')
    BY <1>4
  <2>2. /\ queue' \in Seq(Seq(0 .. Len(stream')))
        /\ results' \in Seq(Seq(0 .. Len(stream')))
    <3> DEFINE S == 0 .. Len(stream)
               T == 0 .. Len(stream')
    <3>1. S \subseteq T
      BY <2>1
    <3>2. queue \in Seq(Seq(S)) /\ results \in Seq(Seq(S))
      BY DEF IInv, TypeOK
    <3> HIDE DEF S, T
    <3>3. Seq(S) \subseteq Seq(T)
      BY <3>1, SeqMonotonic
    <3>4. queue \in Seq(Seq(T)) /\ results \in Seq(Seq(T))
      BY <3>2, <3>3, SeqMonotonic
    <3>5. QED
      BY <1>3, <3>4 DEF out, T
  <2>3. rcvBuf' \in [0 .. rcvBufSize' - 1 -> 0 .. Len(stream')]
    <3>1. rcvBuf \in [0 .. rcvBufSize - 1 -> 0 .. Len(stream)]
      BY DEF IInv, TypeOK
    <3>2. QED
      BY <1>3, <2>1, <3>1 DEF buf
  <2>4. starts' \subseteq 1 .. Len(stream') + 1
    <3>1. starts \subseteq 1 .. Len(stream) + 1
      BY DEF IInv, TypeOK
    <3>2. Len(stream) + 1 \in 1 .. Len(stream') + 1
          /\ 1 .. Len(stream) + 1 \subseteq 1 .. Len(stream') + 1
      BY <1>4
    <3>3. QED
      BY <1>3, <3>1, <3>2
  <2>5. QED
    BY <1>2, <1>3, <1>4, <2>2, <2>3, <2>4, SMTT(30) DEF IInv, TypeOK, buf, stats, out
<1>7. BytesAccounted'
  BY <1>3 DEF IInv, BytesAccounted, buf, stats
<1>8. Control' /\ Placed'
  <2>1. \A s \in starts' : s <= First'
    <3>1. \A s \in starts : s \in Int /\ s <= First
      BY FirstType DEF IInv, TypeOK, Control
    <3>2. First \in Int
      BY FirstType
    <3> HIDE DEF First
    <3>3. QED
      BY <1>3, <1>4, <1>5, <3>1, <3>2
  <2>2. rcvBufSize' <= TooLarge + Block
    BY <1>3 DEF IInv, Control, buf
  <2>3. QED
    BY <1>1, <1>3, <1>4, <2>1, <2>2 DEF Control, Placed, buf
<1>9. QED
  BY <1>4, <1>5, <1>6, <1>7, <1>8 DEF IInv

\* The two ends of the queue, and all that was put into it.
LEMMA DeliveredByTake ==
    ASSUME NEW S, NEW r \in Seq(S), NEW q \in Seq(S), q # <<>>
    PROVE  Append(r, Head(q)) \o Tail(q) = r \o q
<1>1. /\ Head(q) \in S /\ Tail(q) \in Seq(S) /\ Len(Tail(q)) = Len(q) - 1
      /\ \A i \in 1 .. Len(Tail(q)) : Tail(q)[i] = q[i + 1]
  BY HeadTailProperties
<1>2. /\ Len(r) \in Nat /\ Len(q) \in Nat /\ Len(q) > 0 /\ Head(q) = q[1]
  OBVIOUS
<1> DEFINE rh == Append(r, Head(q))
<1>3. /\ rh \in Seq(S) /\ Len(rh) = Len(r) + 1
      /\ \A i \in 1 .. Len(r) : rh[i] = r[i]
      /\ rh[Len(r) + 1] = q[1]
  BY <1>1, <1>2, AppendProperties
<1> HIDE DEF rh
<1>4. /\ rh \o Tail(q) \in Seq(S) /\ r \o q \in Seq(S)
      /\ Len(rh \o Tail(q)) = Len(r) + Len(q)
      /\ Len(r \o q) = Len(r) + Len(q)
  <2>1. /\ rh \o Tail(q) \in Seq(S) /\ r \o q \in Seq(S)
        /\ Len(rh \o Tail(q)) = Len(rh) + Len(Tail(q))
        /\ Len(r \o q) = Len(r) + Len(q)
    BY <1>1, <1>3, ConcatProperties
  <2>2. Len(rh) + Len(Tail(q)) = Len(r) + Len(q)
    BY <1>1, <1>2, <1>3
  <2>3. QED
    BY <2>1, <2>2
<1>5. ASSUME NEW i \in 1 .. Len(r) + Len(q)
      PROVE  (rh \o Tail(q))[i] = (r \o q)[i]
  <2>1. (r \o q)[i] = IF i <= Len(r) THEN r[i] ELSE q[i - Len(r)]
    BY <1>2, ConcatProperties
  <2>2. (rh \o Tail(q))[i] = IF i <= Len(rh) THEN rh[i] ELSE Tail(q)[i - Len(rh)]
    <3>1. i \in 1 .. Len(rh) + Len(Tail(q))
      BY <1>1, <1>2, <1>3
    <3>2. QED
      BY <1>1, <1>3, <3>1, ConcatProperties
  <2>3. CASE i <= Len(r)
    BY <1>2, <1>3, <2>1, <2>2, <2>3
  <2>4. CASE i = Len(r) + 1
    BY <1>2, <1>3, <2>1, <2>2, <2>4
  <2>5. CASE i > Len(r) + 1
    <3>1. /\ i - Len(rh) \in 1 .. Len(Tail(q))
          /\ (i - Len(rh)) + 1 = i - Len(r)
      BY <1>1, <1>2, <1>3, <2>5
    <3>2. Tail(q)[i - Len(rh)] = q[i - Len(r)]
      BY <1>1, <3>1
    <3>3. QED
      BY <1>2, <1>3, <2>1, <2>2, <2>5, <3>2
  <2>6. i \in Int /\ Len(r) \in Int
    BY <1>2
  <2>7. i <= Len(r) \/ i = Len(r) + 1 \/ i > Len(r) + 1
    BY <2>6
  <2>8. QED
    BY <2>3, <2>4, <2>5, <2>7, Zenon
<1>6. QED
  BY <1>4, <1>5, SeqEqual DEF rh

LEMMA DeliveredByEnQueue ==
    ASSUME NEW S, NEW r \in Seq(S), NEW q \in Seq(S), NEW m \in S
    PROVE  r \o Append(q, m) = Append(r \o q, m)
<1>1. <<m>> \in Seq(S) /\ r \o q \in Seq(S)
  BY ConcatProperties
<1>2. r \o Append(q, m) = r \o (q \o <<m>>)
  BY AppendIsConcat
<1>3. Append(r \o q, m) = (r \o q) \o <<m>>
  BY <1>1, AppendIsConcat
<1>4. QED
  BY <1>1, <1>2, <1>3, ConcatAssociative

\* What the network thread hands over consists of cells of the stream.
LEMMA MessageType ==
    ASSUME IInv
    PROVE  Message \in Seq(0 .. Len(stream))
<1>1. ASSUME NEW k \in 1 .. rcvMsgBytes
      PROVE  ByteAt(rcvStartPos + k - 1) \in 0 .. Len(stream)
  <2>1. rcvStartPos + k - 1 \in Int
    BY FirstType
  <2>2. QED
    BY <2>1, CellType DEF IInv
<1>2. rcvMsgBytes \in Nat
  BY FirstType
<1>3. QED
  BY <1>1, <1>2 DEF Message

LEMMA EnQueueStep ==
    ASSUME IInv, EnQueue
    PROVE  /\ IInv'
           /\ First' = First + rcvMsgBytes
           /\ \/ Delivered' = Delivered
              \/ Delivered' = Append(Delivered, Message)
<1>1. /\ readLen \in Nat /\ rcvMsgBytes \in Nat /\ rcvMsgBytes > 0
      /\ readLen >= rcvMsgBytes /\ rcvStartPos \in Nat /\ rcvBufSize \in Nat
      /\ rcvStartPos + readLen <= rcvBufSize
      /\ taken \in Nat /\ readLen <= taken
  BY FirstType DEF EnQueue, IInv, Control
<1>2. /\ queue' \in {queue, Append(queue, Message)}
      /\ rcvStartPos' = rcvStartPos + rcvMsgBytes
      /\ readLen' = readLen - rcvMsgBytes
      /\ rcvMsgBytes' = 0
      /\ validBytes' = validBytes + rcvMsgBytes
      /\ net' \in {"find", "recv"}
      /\ UNCHANGED <<isExit, world, rcvBuf, rcvBufSize, headerErrBytes,
                     totalRcvBytes, lostBytes, short, results, deal>>
  BY DEF EnQueue, AfterMessage
<1>3. First' = First + rcvMsgBytes
  <2>1. First' = taken - (readLen - rcvMsgBytes) + 1
    BY <1>2 DEF First, world
  <2>2. QED
    BY <1>1, <2>1 DEF First
<1>4. /\ queue' \in Seq(Seq(0 .. Len(stream)))
      /\ \/ Delivered' = Delivered
         \/ Delivered' = Append(Delivered, Message)
  <2> DEFINE T == Seq(0 .. Len(stream))
  <2>1. queue \in Seq(T) /\ results \in Seq(T) /\ Message \in T
    BY MessageType DEF IInv, TypeOK
  <2> HIDE DEF T
  <2>2. queue' \in Seq(T)
    BY <1>2, <2>1
  <2>3. results \o Append(queue, Message) = Append(results \o queue, Message)
    BY <2>1, DeliveredByEnQueue
  <2>4. Delivered' = Delivered \/ Delivered' = Append(Delivered, Message)
    BY <1>2, <2>3 DEF Delivered
  <2>5. QED
    BY <2>2, <2>4 DEF T
<1>5. TypeOK'
  <2>1. /\ rcvStartPos' \in 0 .. rcvBufSize
        /\ readLen' \in 0 .. rcvBufSize - rcvStartPos'
        /\ rcvMsgBytes' \in 0 .. rcvBufSize
        /\ validBytes' \in Nat
    BY <1>1, <1>2 DEF IInv, TypeOK
  <2>2. QED
    BY <1>2, <1>4, <2>1 DEF IInv, TypeOK, world
<1>6. BytesAccounted'
  BY <1>1, <1>2 DEF IInv, TypeOK, BytesAccounted
<1>7. Control'
  <2>1. \A s \in starts : s <= First + rcvMsgBytes
    <3>1. \A s \in starts : s \in Int /\ s <= First
      BY FirstType DEF IInv, TypeOK, Control
    <3>2. First \in Int
      BY FirstType
    <3>3. QED
      BY <1>1, <3>1, <3>2
  <2>2. rcvBufSize' <= TooLarge + Block
    BY <1>2 DEF IInv, Control
  <2>3. QED
    BY <1>1, <1>2, <1>3, <2>1, <2>2 DEF Control, world
<1>8. Placed'
  <2>1. ASSUME NEW p \in 0 .. readLen' - 1
        PROVE  ByteAt(rcvStartPos + p)' = First' + p
    <3>1. /\ rcvMsgBytes + p \in 0 .. readLen - 1
          /\ rcvStartPos' + p = rcvStartPos + (rcvMsgBytes + p)
      BY <1>1, <1>2
    <3>2. ByteAt(rcvStartPos + (rcvMsgBytes + p)) = First + (rcvMsgBytes + p)
      BY <3>1, PendingByte
    <3>3. ByteAt(rcvStartPos + p)' = First + (rcvMsgBytes + p)
      BY <1>2, <3>1, <3>2 DEF ByteAt
    <3>4. First \in Int
      BY FirstType
    <3>5. QED
      BY <1>1, <1>2, <1>3, <3>3, <3>4
  <2>2. QED
    BY <2>1, Zenon DEF Placed
<1>9. QED
  BY <1>3, <1>4, <1>5, <1>6, <1>7, <1>8 DEF IInv

LEMMA TakeStep ==
    ASSUME IInv, Take
    PROVE  IInv' /\ Delivered' = Delivered
<1>1. /\ results' = Append(results, Head(queue)) /\ queue' = Tail(queue)
      /\ queue # <<>>
      /\ UNCHANGED <<isExit, world, buf, stats, net, deal>>
  BY DEF Take
<1>2. /\ queue' \in Seq(Seq(0 .. Len(stream)))
      /\ results' \in Seq(Seq(0 .. Len(stream)))
      /\ Delivered' = Delivered
  <2> DEFINE T == Seq(0 .. Len(stream))
  <2>1. queue \in Seq(T) /\ results \in Seq(T)
    BY DEF IInv, TypeOK
  <2> HIDE DEF T
  <2>2. Head(queue) \in T /\ Tail(queue) \in Seq(T)
    BY <1>1, <2>1, HeadTailProperties
  <2>3. queue' \in Seq(T) /\ results' \in Seq(T)
    BY <1>1, <2>1, <2>2, AppendProperties
  <2>4. Delivered' = Delivered
    BY <1>1, <2>1, DeliveredByTake DEF Delivered
  <2>5. QED
    BY <2>3, <2>4 DEF T
<1>3. QED
  BY <1>1, <1>2 DEF IInv, TypeOK, BytesAccounted, Control, Placed, First, ByteAt,
     world, buf, stats

\* The network, the caller and the end of the result thread.
LEMMA OutsideStep ==
    ASSUME IInv, Arrive \/ PeerLeaves \/ Exit \/ DealEnds \/ UNCHANGED vars
    PROVE  IInv'
<1>1. /\ UNCHANGED <<stream, coming, starts, taken, buf, stats, queue, results,
                     net>>
      /\ isExit' \in BOOLEAN /\ peer' \in {"open", "gone"}
      /\ deal' \in {"loop", "ended"}
      /\ arrived' \in 0 .. Len(stream) /\ taken' \in 0 .. arrived'
  <2>1. arrived \in 0 .. Len(stream) /\ taken \in 0 .. arrived
        /\ Len(stream) \in Nat
    BY DEF IInv, TypeOK
  <2>2. CASE Arrive
    BY <2>1, <2>2 DEF Arrive, IInv, TypeOK, out
  <2>3. CASE PeerLeaves \/ Exit \/ DealEnds \/ UNCHANGED vars
    BY <2>1, <2>3
       DEF PeerLeaves, Exit, DealEnds, IInv, TypeOK, out, world, vars
  <2>4. QED
    BY <2>2, <2>3
<1>2. QED
  BY <1>1 DEF IInv, TypeOK, BytesAccounted, Control, Placed, First, ByteAt,
     buf, stats

-----------------------------------------------------------------------------
LEMMA InitIInv == Init => IInv
<1> SUFFICES ASSUME Init PROVE IInv
  OBVIOUS
<1>1. stream \in Seq(Cell) /\ coming \in Seq(Seq(Cell)) /\ Len(stream) \in Nat
  <2>1. PICK s \in Sessions : stream = Head(s) /\ coming = Tail(s)
    BY DEF Init
  <2>2. s \in Seq(Seq(Cell)) /\ s # <<>>
    BY RecvAssumption
  <2>3. stream \in Seq(Cell) /\ coming \in Seq(Seq(Cell))
    BY <2>1, <2>2, HeadTailProperties
  <2>4. QED
    BY <2>3
<1>2. TypeOK
  <2>1. /\ rcvBufSize = RcvBuf /\ RcvBuf \in Nat
        /\ rcvBuf \in [0 .. rcvBufSize - 1 -> 0 .. Len(stream)]
    BY <1>1, Sizes DEF Init, Cells
  <2>2. starts \subseteq 1 .. Len(stream) + 1
        /\ arrived \in 0 .. Len(stream) /\ taken \in 0 .. arrived
    BY <1>1 DEF Init
  <2>3. /\ rcvStartPos \in 0 .. rcvBufSize
        /\ readLen \in 0 .. rcvBufSize - rcvStartPos
        /\ rcvMsgBytes \in 0 .. rcvBufSize
    BY <2>1 DEF Init
  <2>4. /\ queue \in Seq(Seq(0 .. Len(stream)))
        /\ results \in Seq(Seq(0 .. Len(stream)))
    BY DEF Init
  <2>5. /\ isExit \in BOOLEAN /\ peer \in {"open", "gone"}
        /\ headerErrBytes \in Nat /\ totalRcvBytes \in Nat
        /\ net = "recv" /\ deal = "loop"
        /\ validBytes \in Nat /\ lostBytes \in Nat /\ short \in BOOLEAN
    BY DEF Init
  <2>6. rcvBufSize \in Nat /\ rcvBufSize >= RcvBuf
    BY <2>1
  <2>7. QED
    BY <1>1, <2>1, <2>2, <2>3, <2>4, <2>5, <2>6 DEF TypeOK
<1>3. rcvBufSize <= TooLarge + Block
  BY Sizes DEF Init
<1>4. QED
  BY <1>2, <1>3 DEF Init, IInv, BytesAccounted, Control, Placed, First

LEMMA NextIInv == IInv /\ [Next]_vars => IInv'
<1> SUFFICES ASSUME IInv, [Next]_vars PROVE IInv'
  OBVIOUS
<1>1. CASE FindHeader
  BY <1>1, FindHeaderStep
<1>2. CASE RecvData
  BY <1>2, RecvDataStep
<1>3. CASE LoopEnds \/ RecvBeyond \/ RecvLost
  BY <1>3, OtherRecvStep
<1>4. CASE EnQueue
  BY <1>4, EnQueueStep
<1>5. CASE Connect
  BY <1>5, ConnectStep
<1>6. CASE Take
  BY <1>6, TakeStep
<1>7. CASE Arrive \/ PeerLeaves \/ Exit \/ DealEnds \/ UNCHANGED vars
  BY <1>7, OutsideStep
<1>8. QED
  BY <1>1, <1>2, <1>3, <1>4, <1>5, <1>6, <1>7
     DEF Next, NetWork, Recv, ProcRcvQueueData

LEMMA SpecIInv == Spec => []IInv
BY InitIInv, NextIInv, PTL DEF Spec

-----------------------------------------------------------------------------
(* Where messages start *)

\* The header at position k and the message it announces.
LEMMA HeaderType ==
    ASSUME TypeOK, NEW k \in Nat, Header(k)
    PROVE  /\ k + C \in 1 .. Len(stream)
           /\ stream[k + C].len \in Nat
           /\ Announced(k) \in Nat /\ Announced(k) >= H
<1>1. stream \in Seq(Cell)
  BY DEF TypeOK
<1>2. k + C \in 1 .. Len(stream)
  BY <1>1 DEF Header
<1>3. stream[k + C] \in Cell
  BY <1>1, <1>2
<1>4. stream[k + C].len \in Nat
  BY <1>3 DEF Cell
<1>5. QED
  BY <1>2, <1>4, Sizes DEF Announced

LEMMA HeadersAreTyped ==
    TypeOK => \A k \in Nat : Header(k) => Announced(k) \in Nat /\ Announced(k) >= H
BY HeaderType

\* A message starts at j and the next one at k.
Leads(j, k) == Header(j) /\ k = j + Announced(j) /\ ~Broken(j, k)

\* The positions Boundary holds at when it holds at those of S.
Reached(S) ==
    {k \in 1 .. Len(stream) + 1 :
        k \in starts \/ \E j \in 1 .. k - 1 : j \in S /\ Leads(j, k)}

\* The least set closed under Reached is its own image.
LEMMA ReachedFixpoint ==
    \E S \in SUBSET (1 .. Len(stream) + 1) : S = Reached(S)
<1> DEFINE D == 1 .. Len(stream) + 1
           B == {k \in D : \A S \in SUBSET D : Reached(S) \subseteq S => k \in S}
<1>1. ASSUME NEW S, NEW T, S \subseteq T
      PROVE  Reached(S) \subseteq Reached(T)
  BY <1>1 DEF Reached
<1>2. Reached(B) \subseteq B
  <2>1. ASSUME NEW k \in Reached(B), NEW S \in SUBSET D, Reached(S) \subseteq S
        PROVE  k \in S
    <3>1. B \subseteq S
      BY <2>1
    <3>2. QED
      BY <1>1, <2>1, <3>1
  <2>2. Reached(B) \subseteq D
    BY DEF Reached
  <2>3. QED
    BY <2>1, <2>2
<1>3. B \subseteq Reached(B)
  <2>1. Reached(B) \in SUBSET D
    BY DEF Reached
  <2>2. Reached(Reached(B)) \subseteq Reached(B)
    <3> HIDE DEF B
    <3>1. QED
      BY <1>1, <1>2
  <2>3. QED
    BY <2>1, <2>2
<1>4. B \in SUBSET D /\ B = Reached(B)
  BY <1>2, <1>3
<1>5. QED
  BY <1>4

\* The recursive definition of Boundary has a solution, so Boundary is one.
LEMMA BoundaryEquation ==
    ASSUME TypeOK
    PROVE  \A k \in 1 .. Len(stream) + 1 :
              Boundary[k] <=>
                 k \in starts \/ \E j \in 1 .. k - 1 : Boundary[j] /\ Leads(j, k)
<1> DEFINE D == 1 .. Len(stream) + 1
           Body(f, k) == \/ k \in starts
                         \/ \E j \in 1 .. k - 1 :
                               /\ f[j] /\ Header(j) /\ k = j + Announced(j)
                               /\ ~Broken(j, k)
           Eq(f) == f = [k \in D |-> Body(f, k)]
<1>1. PICK B \in SUBSET D : B = Reached(B)
  BY ReachedFixpoint
<1> DEFINE g == [k \in D |-> k \in B]
<1>2. Eq(g)
  <2>1. Len(stream) \in Nat
    BY DEF TypeOK
  <2>2. ASSUME NEW k \in D
        PROVE  (k \in B) = Body(g, k)
    <3>1. k \in B <=> k \in starts \/ \E j \in 1 .. k - 1 : j \in B /\ Leads(j, k)
      BY <1>1 DEF Reached
    <3>2. ASSUME NEW j \in 1 .. k - 1
          PROVE  j \in B <=> g[j]
      <4>1. j \in D
        BY <2>1
      <4> HIDE DEF D
      <4>2. QED
        BY <4>1
    <3> HIDE DEF g, D
    <3>3. k \in B <=> Body(g, k)
      BY <3>1, <3>2 DEF Leads
    <3>4. CASE k \in B
      <4>1. (k \in B) = TRUE /\ Body(g, k) = TRUE
        BY <3>3, <3>4
      <4> HIDE DEF Body
      <4>2. QED
        BY <4>1
    <3>5. CASE k \notin B
      <4>1. (k \in B) = FALSE /\ Body(g, k) = FALSE
        BY <3>3, <3>5
      <4> HIDE DEF Body
      <4>2. QED
        BY <4>1
    <3>6. QED
      BY <3>4, <3>5
  <2>3. [k \in D |-> k \in B] = [k \in D |-> Body(g, k)]
    <3> HIDE DEF Body, g, D
    <3>1. QED
      BY <2>2
  <2>4. QED
    BY <2>3
<1>3. \E f : Eq(f)
  BY <1>2
<1>4. Boundary = CHOOSE f : Eq(f)
  BY DEF Boundary
<1>5. Eq(Boundary)
  <2> HIDE DEF Eq
  <2>1. QED
    BY <1>3, <1>4
<1>6. ASSUME NEW k \in D
      PROVE  Boundary[k] = Body(Boundary, k)
  BY <1>5
<1>7. QED
  BY <1>6 DEF Leads

\* The properties of the stream stay while the stream does.
LEMMA SameStream ==
    ASSUME stream' = stream, starts' = starts
    PROVE  Boundary' = Boundary /\ WellFormed' = WellFormed
<1>1. Boundary' = Boundary
  BY DEF Boundary, Header, Announced, Broken
<1>2. QED
  BY <1>1 DEF WellFormed, Header, Announced, Broken

\* A nonempty set of numbers has a least one.
LEMMA Least ==
    ASSUME NEW T \in SUBSET Nat, T # {}
    PROVE  \E x \in T : \A y \in T : x <= y
<1>1. \E R : /\ IsWellFoundedOn(R, Nat)
             /\ \A x, y \in Nat : y < x => <<y, x>> \in R
  <2> DEFINE R == OpToRel(<, Nat)
  <2>1. IsWellFoundedOn(R, Nat)
    BY NatLessThanWellFounded
  <2>2. \A x, y \in Nat : y < x => <<y, x>> \in R
    BY DEF OpToRel
  <2> HIDE DEF R
  <2>3. QED
    BY <2>1, <2>2
<1>2. PICK R : /\ IsWellFoundedOn(R, Nat)
               /\ \A x, y \in Nat : y < x => <<y, x>> \in R
  BY <1>1
<1>3. PICK x \in T : \A y \in T : ~(<<y, x>> \in R)
  BY <1>2, WFMin
<1>4. \A y \in T : ~(y < x)
  BY <1>2, <1>3
<1>5. QED
  BY <1>4

\* Another connection moves no boundary of the ones before it.
LEMMA ConnectBoundary ==
    ASSUME IInv, Connect
    PROVE  /\ \A k \in 1 .. Len(stream) : Boundary'[k] <=> Boundary[k]
           /\ Boundary'[Len(stream) + 1]
           /\ WellFormed' => WellFormed
<1> DEFINE N == Len(stream)
<1>1. /\ N \in Nat /\ Len(stream') \in Nat /\ Len(stream') >= N
      /\ \A k \in 1 .. N : stream'[k] = stream[k]
      /\ starts' = starts \cup {N + 1}
      /\ TypeOK /\ TypeOK'
      /\ stream \in Seq(Cell) /\ stream' \in Seq(Cell)
      /\ starts \subseteq 1 .. N + 1
  <2>1. IInv' /\ Len(stream') >= N
        /\ \A k \in 1 .. N : stream'[k] = stream[k]
    BY ConnectStep
  <2>2. /\ TypeOK /\ stream \in Seq(Cell) /\ N \in Nat
        /\ starts \subseteq 1 .. N + 1
    BY DEF IInv, TypeOK
  <2>3. TypeOK' /\ stream' \in Seq(Cell) /\ Len(stream') \in Nat
    <3>1. TypeOK'
      BY <2>1 DEF IInv
    <3>2. stream' \in Seq(Cell)
      BY <3>1 DEF TypeOK
    <3>3. QED
      BY <3>1, <3>2
  <2>4. starts' = starts \cup {N + 1}
    BY DEF Connect
  <2>5. QED
    BY <2>1, <2>2, <2>3, <2>4
<1>2. \A k \in 1 .. Len(stream') + 1 :
         Boundary'[k] <=> \/ k \in starts'
                          \/ \E j \in 1 .. k - 1 : Boundary'[j] /\ Leads(j, k)'
  <2>1. (\A k \in 1 .. Len(stream) + 1 :
              Boundary[k] <=>
                 k \in starts \/ \E j \in 1 .. k - 1 : Boundary[j] /\ Leads(j, k))'
    BY <1>1, BoundaryEquation, PTL
  <2>2. QED
    BY <2>1
<1>3. (\A k \in Nat : Header(k) => Announced(k) \in Nat /\ Announced(k) >= H)'
  <2>1. TypeOK'
    BY <1>1
  <2>2. QED
    BY <2>1, HeadersAreTyped, PTL
<1>4. ASSUME NEW j \in Nat \ {0}, j + C <= N
      PROVE  (Header(j)' <=> Header(j)) /\ Announced(j)' = Announced(j)
  <2>1. j + C \in 1 .. N /\ j + C \in 1 .. Len(stream')
    BY <1>1, <1>4, Sizes
  <2>2. ASSUME NEW i \in 0 .. C - 1
        PROVE  stream'[j + i] = stream[j + i]
    <3>1. j + i \in 1 .. N
      BY <1>1, <1>4, Sizes
    <3>2. QED
      BY <1>1, <3>1
  <2>3. stream'[j + C] = stream[j + C]
    BY <1>1, <2>1
  <2>4. /\ DOMAIN stream = 1 .. N
        /\ DOMAIN stream' = 1 .. Len(stream')
    <3>1. stream \in Seq(Cell) /\ stream' \in Seq(Cell)
      BY <1>1
    <3>2. QED
      BY <3>1
  <2>5. /\ j + C \in DOMAIN stream
        /\ j + C \in DOMAIN stream'
    BY <2>1, <2>4
  <2>6. Header(j)' <=> Header(j)
    BY <2>2, <2>5 DEF Header
  <2>7. Announced(j)' = Announced(j)
    BY <2>3 DEF Announced
  <2>8. QED
    BY <2>6, <2>7
<1>5. ASSUME NEW k \in 1 .. N, NEW j \in 1 .. k - 1
      PROVE  Leads(j, k)' <=> Leads(j, k)
  <2>1. Broken(j, k)' <=> Broken(j, k)
    BY <1>1 DEF Broken
  <2>2. j \in Nat \ {0} /\ j < k /\ k <= N
    BY <1>1
  <2>3. CASE j + C <= N
    BY <1>4, <2>1, <2>2, <2>3 DEF Leads
  <2>4. CASE j + C > N
    <3>1. ~(Header(j) /\ k = j + Announced(j))
      <4>1. Header(j) => Announced(j) \in Nat /\ Announced(j) >= H
        BY <1>1, <2>2, HeadersAreTyped
      <4>2. QED
        BY <1>1, <2>2, <2>4, <4>1, Sizes
    <3>2. ~(Header(j)' /\ k = j + Announced(j)')
      <4>1. Header(j)' => Announced(j)' \in Nat /\ Announced(j)' >= H
        BY <1>3, <2>2
      <4>2. QED
        BY <1>1, <2>2, <2>4, <4>1, Sizes
    <3>3. QED
      BY <3>1, <3>2 DEF Leads
  <2>5. QED
    BY <1>1, <2>2, <2>3, <2>4, Sizes
<1>6. \A k \in 1 .. N : Boundary'[k] <=> Boundary[k]
  <2> DEFINE T == {k \in 1 .. N : ~(Boundary'[k] <=> Boundary[k])}
  <2>1. SUFFICES ASSUME T # {}
                 PROVE  FALSE
    OBVIOUS
  <2>2. PICK k \in T : \A y \in T : k <= y
    <3>1. T \in SUBSET Nat
      BY <1>1
    <3> HIDE DEF T
    <3>2. QED
      BY <2>1, <3>1, Least
  <2>3. k \in 1 .. N /\ ~(Boundary'[k] <=> Boundary[k])
    BY <2>2
  <2>4. ASSUME NEW j \in 1 .. k - 1
        PROVE  Boundary'[j] <=> Boundary[j]
    <3>1. j \in 1 .. N /\ j < k
      BY <1>1, <2>3
    <3>2. QED
      BY <2>2, <2>3, <3>1
  <2>5. k \in starts' <=> k \in starts
    BY <1>1, <2>3
  <2>6. k \in 1 .. N + 1 /\ k \in 1 .. Len(stream') + 1
    BY <1>1, <2>3
  <2>7. Boundary[k] <=>
           k \in starts \/ \E j \in 1 .. k - 1 : Boundary[j] /\ Leads(j, k)
    BY <1>1, <2>6, BoundaryEquation
  <2>8. Boundary'[k] <=>
           k \in starts' \/ \E j \in 1 .. k - 1 : Boundary'[j] /\ Leads(j, k)'
    BY <1>2, <2>6
  <2>9. ASSUME NEW j \in 1 .. k - 1
        PROVE  Leads(j, k)' <=> Leads(j, k)
    BY <1>5, <2>3
  <2>10. QED
    BY <2>3, <2>4, <2>5, <2>7, <2>8, <2>9
<1>7. Boundary'[N + 1]
  <2>1. N + 1 \in starts' /\ N + 1 \in 1 .. Len(stream') + 1
    BY <1>1
  <2>2. QED
    BY <1>2, <2>1
<1>8. ASSUME WellFormed'
      PROVE  WellFormed
  <2> SUFFICES ASSUME NEW k \in 1 .. N, Boundary[k],
                      k + H - 1 <= N, ~Broken(k, k + H - 1)
               PROVE  Header(k) /\ Announced(k) <= TooLarge
    BY <1>1, Sizes DEF WellFormed
  <2>1. k \in Nat \ {0} /\ k + C <= N /\ k \in 1 .. Len(stream')
    BY <1>1, Sizes
  <2>2. Boundary'[k]
    BY <1>6
  <2>3. ~(k + H - 1 > Len(stream'))
    BY <1>1, <2>1, Sizes
  <2>4. ~Broken(k, k + H - 1)'
    BY <1>1, <2>1, Sizes DEF Broken
  <2>5. Header(k)' /\ Announced(k)' <= TooLarge
    BY <1>8, <2>1, <2>2, <2>3, <2>4 DEF WellFormed
  <2>6. QED
    BY <1>4, <2>1, <2>5
<1>9. QED
  BY <1>6, <1>7, <1>8

-----------------------------------------------------------------------------
(* What the result thread is given is what was sent *)

HeaderRead ==
    rcvMsgBytes > 0 => /\ readLen >= H /\ Header(First)
                       /\ rcvMsgBytes = Announced(First)

\* What was handed over lies before the pending bytes.
DeliveredBefore ==
    \A i \in 1 .. Len(Delivered) : Delivered[i][Len(Delivered[i])] < First

AtBoundary ==
    WellFormed => /\ headerErrBytes = 0
                  /\ net \in {"recv", "find", "message"} => Boundary[First]

\* As long as no header was looked at before all of it was there.
IntactInv ==
    ~short => HeaderRead /\ MessagesIntact /\ DeliveredBefore /\ AtBoundary

\* The last byte of a message has a position in the stream.
LEMMA LastByteType ==
    ASSUME IInv, MessagesIntact, NEW i \in 1 .. Len(Delivered)
    PROVE  /\ Delivered[i] \in Seq(0 .. Len(stream))
           /\ Len(Delivered[i]) \in Nat \ {0}
           /\ Delivered[i][1] \in Nat \ {0}
           /\ Delivered[i][1] + C \in 1 .. Len(stream)
           /\ Delivered[i][Len(Delivered[i])] \in Nat
<1>1. Delivered[i] \in Seq(0 .. Len(stream))
  <2> DEFINE T == Seq(0 .. Len(stream))
  <2>1. queue \in Seq(T) /\ results \in Seq(T)
    BY DEF IInv, TypeOK
  <2> HIDE DEF T
  <2>2. Delivered \in Seq(T)
    BY <2>1, ConcatProperties DEF Delivered
  <2>3. Delivered[i] \in T
    BY <2>2, ElementOfSeq
  <2>4. QED
    BY <2>3 DEF T
<1> DEFINE m == Delivered[i]
<1>2. /\ m[1] > 0 /\ Header(m[1]) /\ Len(m) = Announced(m[1])
  BY DEF MessagesIntact, Genuine
<1> HIDE DEF m
<1>3. Len(m) \in Nat /\ stream \in Seq(Cell)
  BY <1>1 DEF m, IInv, TypeOK
<1>4. m[1] + C \in 1 .. Len(stream) /\ stream[m[1] + C] \in Cell
  BY <1>2, <1>3 DEF Header
<1>5. Len(m) # 0
  <2>1. stream[m[1] + C].len \in Nat /\ H > 0 /\ H \in Nat
    BY <1>4, Sizes DEF Cell
  <2>2. QED
    BY <1>2, <2>1 DEF Announced
<1>6. 1 \in 1 .. Len(m) /\ Len(m) \in 1 .. Len(m)
  BY <1>3, <1>5
<1>7. m[1] \in 0 .. Len(stream) /\ m[Len(m)] \in 0 .. Len(stream)
  BY <1>1, <1>6, ElementOfSeq DEF m
<1>8. QED
  BY <1>1, <1>2, <1>3, <1>4, <1>5, <1>7 DEF m

\* What was handed over stays in order before the pending bytes.
LEMMA SameDelivered ==
    ASSUME IInv, MessagesIntact, DeliveredBefore,
           UNCHANGED <<stream, starts, Delivered>>,
           First' \in Int, First' >= First
    PROVE  MessagesIntact' /\ DeliveredBefore'
<1>1. Boundary' = Boundary /\ WellFormed' = WellFormed
  BY SameStream
<1>2. MessagesIntact'
  BY <1>1 DEF MessagesIntact, Genuine, Header, Announced
<1>3. ASSUME NEW i \in 1 .. Len(Delivered)
      PROVE  Delivered[i][Len(Delivered[i])] < First'
  <2> DEFINE last == Delivered[i][Len(Delivered[i])]
  <2>1. last \in Nat /\ last < First
    BY LastByteType DEF DeliveredBefore
  <2>2. First \in Int
    BY FirstType
  <2> HIDE DEF last
  <2>3. last < First'
    BY <2>1, <2>2
  <2>4. QED
    BY <2>3 DEF last
<1>4. QED
  BY <1>2, <1>3 DEF DeliveredBefore

\* A step that leaves what is pending where it is, or adds to it.
LEMMA SamePending ==
    ASSUME IInv, IntactInv,
           UNCHANGED <<stream, starts, rcvMsgBytes, headerErrBytes, Delivered,
                       First>>,
           readLen' \in Nat, readLen' >= readLen,
           ~short' => ~short,
           net' \in {"recv", "find", "message"} =>
               net \in {"recv", "find", "message"}
    PROVE  IntactInv'
<1> SUFFICES ASSUME ~short'
             PROVE  HeaderRead' /\ MessagesIntact' /\ DeliveredBefore' /\ AtBoundary'
  BY DEF IntactInv
<1>1. HeaderRead /\ MessagesIntact /\ DeliveredBefore /\ AtBoundary
  BY DEF IntactInv
<1>2. Boundary' = Boundary /\ WellFormed' = WellFormed
  BY SameStream
<1>3. First \in Int /\ readLen \in Nat /\ H \in Nat
  BY FirstType, Sizes
<1>4. MessagesIntact' /\ DeliveredBefore'
  BY <1>1, <1>3, SameDelivered
<1>5. HeaderRead'
  BY <1>1, <1>3 DEF HeaderRead, Header, Announced
<1>6. AtBoundary'
  BY <1>1, <1>2 DEF AtBoundary
<1>7. QED
  BY <1>4, <1>5, <1>6

-----------------------------------------------------------------------------
\* A header that is pending as a whole is the peer's.
LEMMA PendingHeader ==
    ASSUME IInv, NEW p \in Nat, p + H <= readLen
    PROVE  /\ Confirm(rcvStartPos + p) <=> Header(First + p)
           /\ Need(rcvStartPos + p) = Announced(First + p)
<1>1. /\ First \in Nat /\ rcvStartPos \in Nat /\ readLen \in Nat
      /\ stream \in Seq(Cell)
  BY FirstType DEF IInv, TypeOK
<1>2. ASSUME NEW k \in 0 .. C
      PROVE  /\ First + p + k \in 1 .. Len(stream)
             /\ CellAt(rcvStartPos + p + k) = stream[First + p + k]
  <2>1. /\ p + k \in 0 .. readLen - 1
        /\ rcvStartPos + p + k = rcvStartPos + (p + k)
        /\ First + p + k = First + (p + k)
    BY <1>1, Sizes
  <2>2. /\ First + (p + k) \in 1 .. Len(stream)
        /\ CellAt(rcvStartPos + (p + k)) = stream[First + (p + k)]
    BY <2>1, PendingByte
  <2>3. QED
    BY <2>1, <2>2
<1>3. C \in 0 .. C /\ \A k \in 0 .. C - 1 : k \in 0 .. C
  BY Sizes
<1>4. Need(rcvStartPos + p) = Announced(First + p)
  BY <1>2, <1>3 DEF Need, Announced
<1>5. First + p + C \in DOMAIN stream
  BY <1>1, <1>2, <1>3
<1>6. Confirm(rcvStartPos + p) <=> Header(First + p)
  BY <1>2, <1>3, <1>5 DEF Confirm, Header
<1>7. QED
  BY <1>4, <1>6

\* While peers send whole messages, the first pending byte starts a header.
LEMMA NoScan ==
    ASSUME IInv, AtBoundary, WellFormed, net = "find", readLen >= H
    PROVE  Right /\ Need(rcvStartPos) <= TooLarge
<1>1. /\ First \in Nat /\ First >= 1 /\ rcvStartPos \in Nat /\ readLen \in Nat
      /\ taken \in Nat /\ First + readLen = taken + 1 /\ taken <= Len(stream)
      /\ Len(stream) \in Nat
  BY FirstType
<1>2. First \in 1 .. Len(stream) /\ ~(First + H - 1 > Len(stream))
  BY <1>1, Sizes
<1>3. ~Broken(First, First + H - 1)
  <2>1. \A s \in starts : s \in Int /\ s <= First
    BY <1>1 DEF IInv, TypeOK, Control
  <2>2. QED
    BY <1>1, <2>1 DEF Broken
<1>4. Boundary[First]
  BY DEF AtBoundary
<1>5. Header(First) /\ Announced(First) <= TooLarge
  BY <1>2, <1>3, <1>4 DEF WellFormed
<1>6. Confirm(rcvStartPos) /\ Need(rcvStartPos) = Announced(First)
  <2>1. /\ Confirm(rcvStartPos + 0) <=> Header(First + 0)
        /\ Need(rcvStartPos + 0) = Announced(First + 0)
    <3>1. 0 \in Nat /\ 0 + H <= readLen
      BY Sizes
    <3>2. QED
      BY <3>1, PendingHeader
  <2>2. rcvStartPos + 0 = rcvStartPos /\ First + 0 = First
    BY <1>1
  <2>3. QED
    BY <1>5, <2>1, <2>2
<1>7. MsgBytes(rcvStartPos) > 0
  <2>1. /\ Need(rcvStartPos) \in Nat
        /\ Need(rcvStartPos) <= TooLarge + Block => MsgBytes(rcvStartPos) > 0
    <3>1. rcvStartPos \in Int /\ TypeOK
      BY <1>1 DEF IInv
    <3>2. QED
      BY <3>1, MsgBytesType, Zenon
  <2>2. Need(rcvStartPos) <= TooLarge
    BY <1>5, <1>6
  <2> DEFINE n == Need(rcvStartPos)
  <2>3. n \in Nat /\ n <= TooLarge
    BY <2>1, <2>2
  <2> HIDE DEF n
  <2>4. n <= TooLarge + Block
    BY <2>3, Sizes
  <2>5. QED
    BY <2>1, <2>4 DEF n
<1>8. QED
  BY <1>5, <1>6, <1>7 DEF Right

-----------------------------------------------------------------------------
\* Settle drops bytes in front of a whole header of the peer.
LEMMA SettleIntact ==
    ASSUME IInv, IntactInv, net = "find",
           NEW skip \in 0 .. readLen, NEW want \in Nat, Settle(skip, want),
           want <= rcvBufSize \/ want <= TooLarge,
           ~short' /\ want > 0 =>
               /\ skip + H <= readLen /\ Header(First + skip)
               /\ want = Announced(First + skip),
           ~short' /\ WellFormed => skip = 0
    PROVE  IntactInv'
<1>1. /\ readLen' = readLen - skip /\ rcvMsgBytes' = want
      /\ headerErrBytes' = headerErrBytes + skip
      /\ ~short' => ~short
      /\ UNCHANGED <<stream, starts, Delivered>>
  BY DEF Settle, Skip, Looked, world, out, Delivered
<1>2. /\ First' = First + skip /\ First \in Int /\ skip \in Nat
      /\ readLen \in Nat /\ headerErrBytes \in Nat
  <2>1. First' = First + skip
    BY SettleStep
  <2>2. First \in Int /\ skip \in Nat /\ readLen \in Nat
    BY FirstType
  <2>3. headerErrBytes \in Nat
    BY DEF IInv, TypeOK
  <2>4. QED
    BY <2>1, <2>2, <2>3
<1> SUFFICES ASSUME ~short'
             PROVE  HeaderRead' /\ MessagesIntact' /\ DeliveredBefore' /\ AtBoundary'
  BY DEF IntactInv
<1>3. HeaderRead /\ MessagesIntact /\ DeliveredBefore /\ AtBoundary
  BY <1>1 DEF IntactInv
<1>4. MessagesIntact' /\ DeliveredBefore'
  <2>1. First' \in Int /\ First' >= First
    BY <1>2
  <2>2. QED
    BY <1>1, <1>3, <2>1, SameDelivered
<1>5. HeaderRead'
  <2>1. want > 0 => readLen - skip >= H
    BY <1>2, Sizes
  <2>2. QED
    BY <1>1, <1>2, <2>1 DEF HeaderRead, Header, Announced
<1>6. AtBoundary'
  <2>1. Boundary' = Boundary /\ WellFormed' = WellFormed
    BY <1>1, SameStream
  <2>2. WellFormed => headerErrBytes' = headerErrBytes /\ First' = First
    BY <1>1, <1>2
  <2>3. QED
    BY <1>3, <2>1, <2>2 DEF AtBoundary
<1>7. QED
  BY <1>4, <1>5, <1>6

\* The header at offset i, of the peer's when it was there as a whole.
LEMMA FoundIntact ==
    ASSUME IInv, IntactInv, net = "find", rcvMsgBytes = 0,
           NEW i \in 0 .. readLen, Confirm(rcvStartPos + i), Found(i),
           ~short' => i + H <= readLen,
           ~short' /\ WellFormed => i = 0 /\ Need(rcvStartPos) <= TooLarge
    PROVE  IntactInv'
<1>1. i \in Nat /\ rcvStartPos \in Nat /\ readLen \in Nat /\ First \in Nat
  BY FirstType
<1> DEFINE pos == rcvStartPos + i
<1>2. pos \in Int
  BY <1>1
<1>3. CASE Refuses(pos)
  <2>1. DropAll
    BY <1>3 DEF Found
  <2>2. /\ readLen' = 0 /\ rcvMsgBytes' = 0
        /\ ~short' => ~short
        /\ UNCHANGED <<stream, starts, Delivered>>
    BY <2>1 DEF DropAll, Looked, world, out, Delivered
  <2>3. First' = First + readLen
    BY <2>1, DropAllStep
  <2> SUFFICES ASSUME ~short'
               PROVE  HeaderRead' /\ MessagesIntact' /\ DeliveredBefore' /\ AtBoundary'
    BY DEF IntactInv
  <2>4. MessagesIntact /\ DeliveredBefore
    BY <2>2 DEF IntactInv
  <2>5. MessagesIntact' /\ DeliveredBefore'
    <3>1. First' \in Int /\ First' >= First
      BY <1>1, <2>3
    <3>2. QED
      BY <2>2, <2>4, <3>1, SameDelivered
  <2>6. ~WellFormed
    <3>1. ASSUME i = 0
          PROVE  ~(Need(rcvStartPos) <= TooLarge)
      <4>1. pos = rcvStartPos
        BY <1>1, <3>1
      <4>2. Need(pos) \in Nat /\ Need(pos) > TooLarge
        BY <1>2, <1>3, MsgBytesType DEF IInv, Refuses
      <4> HIDE DEF pos
      <4>3. QED
        BY <4>1, <4>2, Sizes
    <3>2. QED
      BY <3>1
  <2>7. AtBoundary'
    BY <2>2, <2>6, SameStream DEF AtBoundary
  <2>8. HeaderRead'
    BY <2>2 DEF HeaderRead
  <2>9. QED
    BY <2>5, <2>7, <2>8
<1>4. CASE ~Refuses(pos)
  <2> DEFINE want == MsgBytes(pos)
  <2>1. Settle(i, want)
    BY <1>4 DEF Found
  <2>2. /\ want \in Nat
        /\ want <= rcvBufSize \/ want <= TooLarge
        /\ want > 0 => want = Need(pos)
    BY <1>2, <1>4, NotRefused
  <2>3. ~short' /\ want > 0 =>
            /\ i + H <= readLen /\ Header(First + i)
            /\ want = Announced(First + i)
    <3> SUFFICES ASSUME ~short', want > 0
                 PROVE  Header(First + i) /\ want = Announced(First + i)
      OBVIOUS
    <3>1. Header(First + i) /\ Need(pos) = Announced(First + i)
      BY <1>1, PendingHeader
    <3>2. QED
      BY <2>2, <3>1
  <2> HIDE DEF want
  <2>4. QED
    BY <2>1, <2>2, <2>3, SettleIntact
<1>5. QED
  BY <1>3, <1>4

LEMMA FindHeaderIntact ==
    ASSUME IInv, IntactInv, FindHeader
    PROVE  IntactInv'
<1>1. /\ net = "find" /\ 0 \in 0 .. readLen /\ readLen \in Nat
      /\ rcvStartPos \in Nat /\ rcvStartPos + 0 = rcvStartPos
      /\ First \in Nat /\ First + 0 = First
      /\ rcvMsgBytes \in Nat
  BY FirstType
     DEF FindHeader, HeaderKnown, HeaderRight, HeaderScanHit, HeaderScanMiss,
         ScanBeyond
<1>2. short' = (short \/ (rcvMsgBytes = 0 /\ readLen < H))
  BY DEF FindHeader, HeaderKnown, HeaderRight, HeaderScanHit, HeaderScanMiss,
         ScanBeyond, Found, Settle, DropAll, Looked
<1>3. ~short' => ~short /\ (rcvMsgBytes = 0 => readLen >= H)
  <2>1. ~short' => ~short /\ ~(rcvMsgBytes = 0 /\ readLen < H)
    BY <1>2, Zenon
  <2>2. QED
    BY <1>1, <2>1, Sizes
<1>4. CASE HeaderKnown
  <2>1. Settle(0, rcvMsgBytes)
    BY <1>4 DEF HeaderKnown
  <2>2. ~short' /\ rcvMsgBytes > 0 =>
            /\ 0 + H <= readLen /\ Header(First + 0)
            /\ rcvMsgBytes = Announced(First + 0)
    BY <1>1, <1>3, Sizes DEF IntactInv, HeaderRead
  <2>3. rcvMsgBytes \in Nat /\ rcvMsgBytes <= rcvBufSize
    BY FirstType
  <2>4. QED
    BY <1>1, <2>1, <2>2, <2>3, SettleIntact
<1>5. CASE HeaderRight
  <2>1. rcvMsgBytes = 0 /\ Confirm(rcvStartPos + 0) /\ Found(0)
    BY <1>1, <1>5 DEF HeaderRight, Right
  <2>2. ~short' => 0 + H <= readLen
    BY <1>1, <1>3, <2>1, Sizes
  <2>3. ~short' /\ WellFormed => Need(rcvStartPos) <= TooLarge
    BY <1>1, <1>3, <2>1, NoScan DEF IntactInv
  <2>4. QED
    BY <1>1, <2>1, <2>2, <2>3, FoundIntact
<1>6. CASE HeaderScanHit
  <2>1. PICK i \in Hits : i <= readLen /\ Found(i)
    BY <1>6 DEF HeaderScanHit
  <2>2. rcvMsgBytes = 0 /\ ~Right
    BY <1>6 DEF HeaderScanHit
  <2>3. i \in 1 .. ScanEnd - 1 /\ Confirm(rcvStartPos + i)
    BY DEF Hits
  <2>4. i \in 0 .. readLen
    BY <1>1, <2>1, <2>3
  <2>5. ~short' => i + H <= readLen
    BY <1>1, <1>3, <2>2, <2>3, <2>4, Sizes DEF ScanEnd
  <2>6. ~short' => ~WellFormed
    BY <1>1, <1>3, <2>2, NoScan DEF IntactInv
  <2>7. QED
    BY <1>1, <2>1, <2>2, <2>3, <2>4, <2>5, <2>6, FoundIntact
<1>7. CASE HeaderScanMiss
  <2> DEFINE skip == IF readLen - H > 1 THEN readLen - H ELSE 1
  <2>1. skip \in 0 .. readLen /\ Settle(skip, 0) /\ rcvMsgBytes = 0 /\ ~Right
    BY <1>1, <1>7, Sizes DEF HeaderScanMiss
  <2>2. ~short' => ~WellFormed
    BY <1>1, <1>3, <2>1, NoScan DEF IntactInv
  <2> HIDE DEF skip
  <2>3. QED
    BY <1>1, <2>1, <2>2, SettleIntact, Sizes
<1>8. CASE ScanBeyond
  <2>1. /\ UNCHANGED <<stream, starts, rcvMsgBytes, headerErrBytes, Delivered,
                       First, readLen>>
        /\ net' = "undefined"
    BY <1>8 DEF ScanBeyond, Looked, world, out, buf, Delivered, First
  <2>2. QED
    BY <1>1, <1>3, <2>1, SamePending
<1>9. QED
  BY <1>4, <1>5, <1>6, <1>7, <1>8 DEF FindHeader

-----------------------------------------------------------------------------
\* The other steps at recv.
LEMMA RecvIntact ==
    ASSUME IInv, IntactInv, Recv
    PROVE  IntactInv'
<1>1. readLen \in Nat /\ First \in Int
  BY FirstType
<1>2. CASE RecvData
  <2>1. First' = First
    BY <1>2, RecvDataStep
  <2>2. /\ UNCHANGED <<stream, starts, rcvMsgBytes, headerErrBytes, short>>
        /\ Delivered' = Delivered
        /\ net = "recv" /\ readLen' = readLen + Taken
    BY <1>2 DEF RecvData, out, Delivered
  <2>3. readLen' \in Nat /\ readLen' >= readLen
    <3>1. Taken \in Nat
      BY FirstType, SMTT(30) DEF Taken, Available
    <3>2. QED
      BY <1>1, <2>2, <3>1
  <2>4. QED
    BY <2>1, <2>2, <2>3, SamePending
<1>3. CASE LoopEnds \/ RecvBeyond
  <2>1. /\ UNCHANGED <<stream, starts, rcvMsgBytes, headerErrBytes, Delivered,
                       First, readLen, short>>
        /\ net' \in {"ended", "overrun"}
    BY <1>3 DEF LoopEnds, RecvBeyond, world, buf, stats, out, Delivered, First
  <2>2. QED
    BY <1>1, <2>1, SamePending
<1>4. CASE RecvLost
  <2>1. /\ readLen' = 0 /\ rcvMsgBytes' = 0 /\ net' = "connect"
        /\ UNCHANGED <<stream, starts, taken, headerErrBytes, short>>
        /\ Delivered' = Delivered
    BY <1>4 DEF RecvLost, world, out, Delivered
  <2>2. First' = taken + 1 /\ First' \in Int /\ First' >= First
    <3>1. First' = taken - 0 + 1
      BY <2>1 DEF First
    <3>2. taken \in Nat /\ First + readLen = taken + 1
      BY FirstType
    <3>3. QED
      BY <1>1, <3>1, <3>2
  <2> SUFFICES ASSUME ~short
               PROVE  HeaderRead' /\ MessagesIntact' /\ DeliveredBefore' /\ AtBoundary'
    BY <2>1 DEF IntactInv
  <2>3. MessagesIntact /\ DeliveredBefore /\ AtBoundary
    BY DEF IntactInv
  <2>4. MessagesIntact' /\ DeliveredBefore'
    BY <2>1, <2>2, <2>3, SameDelivered
  <2>5. HeaderRead' /\ AtBoundary'
    BY <2>1, <2>3, SameStream DEF HeaderRead, AtBoundary
  <2>6. QED
    BY <2>4, <2>5
<1>5. QED
  BY <1>2, <1>3, <1>4 DEF Recv

\* The next connection starts with a message, behind all the others.
LEMMA ConnectIntact ==
    ASSUME IInv, IntactInv, Connect
    PROVE  IntactInv'
<1>1. /\ First' = Len(stream) + 1
      /\ Len(stream') >= Len(stream) /\ IInv'
      /\ \A k \in 1 .. Len(stream) : stream'[k] = stream[k]
  BY ConnectStep
<1>2. /\ Len(stream) \in Nat /\ Len(stream') \in Nat
      /\ stream \in Seq(Cell) /\ stream' \in Seq(Cell)
      /\ First \in 1 .. Len(stream) + 1
  <2>1. TypeOK'
    BY <1>1 DEF IInv
  <2>2. stream' \in Seq(Cell)
    BY <2>1 DEF TypeOK
  <2>3. stream \in Seq(Cell)
    BY DEF IInv, TypeOK
  <2>4. QED
    BY <2>2, <2>3, FirstType
<1>3. /\ UNCHANGED <<rcvMsgBytes, headerErrBytes, short>>
      /\ Delivered' = Delivered /\ rcvMsgBytes = 0
  BY DEF Connect, buf, stats, out, Delivered, IInv, Control
<1> SUFFICES ASSUME ~short
             PROVE  HeaderRead' /\ MessagesIntact' /\ DeliveredBefore' /\ AtBoundary'
  BY <1>3 DEF IntactInv
<1>4. MessagesIntact /\ DeliveredBefore /\ AtBoundary
  BY DEF IntactInv
<1>5. MessagesIntact'
  <2>1. ASSUME NEW i \in 1 .. Len(Delivered)
        PROVE  Genuine(Delivered[i])'
    <3> DEFINE m == Delivered[i]
    <3>1. m[1] \in Nat \ {0} /\ m[1] + C \in 1 .. Len(stream)
      BY <1>4, LastByteType
    <3>2. Genuine(m)
      BY <1>4 DEF MessagesIntact
    <3>3. m' = m
      BY <1>3
    <3> HIDE DEF m
    <3>4. Header(m[1])' /\ Announced(m[1])' = Announced(m[1])
      <4>1. ASSUME NEW j \in 0 .. C
            PROVE  stream'[m[1] + j] = stream[m[1] + j]
        <5>1. m[1] + j \in 1 .. Len(stream)
          BY <1>2, <3>1, Sizes, SMTT(30)
        <5>2. QED
          BY <1>1, <5>1
      <4>2. C \in 0 .. C /\ \A j \in 0 .. C - 1 : j \in 0 .. C
        BY Sizes
      <4>3. m[1] + C \in DOMAIN stream'
        BY <1>1, <1>2, <3>1
      <4>4. Header(m[1])
        BY <3>2 DEF Genuine
      <4>5. QED
        BY <3>3, <4>1, <4>2, <4>3, <4>4 DEF Header, Announced
    <3>5. WellFormed' => Boundary'[m[1]]
      <4>1. m[1] \in 1 .. Len(stream)
        BY <1>2, <3>1, Sizes
      <4>2. QED
        BY <3>2, <4>1, ConnectBoundary DEF Genuine
    <3>6. Genuine(m)'
      BY <3>2, <3>3, <3>4, <3>5 DEF Genuine
    <3>7. QED
      BY <3>6 DEF m
  <2>2. QED
    BY <1>3, <1>4, <2>1 DEF MessagesIntact
<1>6. DeliveredBefore'
  <2>1. ASSUME NEW i \in 1 .. Len(Delivered)
        PROVE  Delivered[i][Len(Delivered[i])] < Len(stream) + 1
    <3> DEFINE last == Delivered[i][Len(Delivered[i])]
    <3>1. last \in Nat /\ last < First
      BY <1>4, LastByteType DEF DeliveredBefore
    <3> HIDE DEF last
    <3>2. last < Len(stream) + 1
      BY <1>2, <3>1
    <3>3. QED
      BY <3>2 DEF last
  <2>2. QED
    BY <1>1, <1>3, <2>1 DEF DeliveredBefore
<1>7. HeaderRead'
  BY <1>3 DEF HeaderRead
<1>8. AtBoundary'
  BY <1>1, <1>3, <1>4, ConnectBoundary DEF AtBoundary
<1>9. QED
  BY <1>5, <1>6, <1>7, <1>8

\* The message handed over is the one at the first pending byte.
LEMMA MessageGenuine ==
    ASSUME IInv, HeaderRead, AtBoundary, net = "message"
    PROVE  /\ Genuine(Message) /\ Message[1] = First
           /\ Len(Message) = rcvMsgBytes
           /\ Message[rcvMsgBytes] = First + rcvMsgBytes - 1
<1>1. /\ rcvMsgBytes \in Nat /\ rcvMsgBytes > 0 /\ readLen \in Nat
      /\ readLen >= rcvMsgBytes /\ rcvStartPos \in Nat
      /\ First \in Nat /\ First > 0
  BY FirstType DEF IInv, Control
<1>2. Header(First) /\ rcvMsgBytes = Announced(First)
  BY <1>1 DEF HeaderRead
<1>3. ASSUME NEW k \in 1 .. rcvMsgBytes
      PROVE  ByteAt(rcvStartPos + k - 1) = First + k - 1
  <2>1. k - 1 \in 0 .. readLen - 1 /\ rcvStartPos + k - 1 = rcvStartPos + (k - 1)
    BY <1>1
  <2>2. ByteAt(rcvStartPos + (k - 1)) = First + (k - 1)
    BY <2>1, PendingByte
  <2>3. QED
    BY <1>1, <2>1, <2>2
<1>4. Message = [k \in 1 .. rcvMsgBytes |-> First + k - 1]
  BY <1>3 DEF Message
<1>5. /\ Len(Message) = rcvMsgBytes
      /\ \A k \in 1 .. rcvMsgBytes : Message[k] = First + k - 1
  BY <1>1, <1>4
<1>6. Message[1] = First /\ Message[rcvMsgBytes] = First + rcvMsgBytes - 1
  BY <1>1, <1>5
<1>7. Genuine(Message)
  <2>1. WellFormed => Boundary[First]
    BY DEF AtBoundary
  <2>2. \A k \in 1 .. Len(Message) : Message[k] = Message[1] + k - 1
    BY <1>5, <1>6
  <2>3. QED
    BY <1>1, <1>2, <1>5, <1>6, <2>1, <2>2 DEF Genuine
<1>8. QED
  BY <1>5, <1>6, <1>7

\* Consuming a message leads from its boundary to the next one.
LEMMA EnQueueIntact ==
    ASSUME IInv, IntactInv, EnQueue
    PROVE  IntactInv'
<1>1. /\ net = "message" /\ rcvMsgBytes \in Nat /\ rcvMsgBytes > 0
      /\ readLen \in Nat /\ readLen >= rcvMsgBytes
      /\ First \in Nat /\ First + readLen = taken + 1
      /\ First \in 1 .. Len(stream) + 1
      /\ taken \in Nat /\ taken <= Len(stream) /\ Len(stream) \in Nat
  BY FirstType, SMTT(30) DEF EnQueue, IInv, Control
<1>2. /\ IInv' /\ First' = First + rcvMsgBytes
      /\ Delivered' = Delivered \/ Delivered' = Append(Delivered, Message)
  BY EnQueueStep
<1>3. UNCHANGED <<stream, starts, headerErrBytes, short>> /\ rcvMsgBytes' = 0
  BY DEF EnQueue, world
<1> SUFFICES ASSUME ~short
             PROVE  HeaderRead' /\ MessagesIntact' /\ DeliveredBefore' /\ AtBoundary'
  BY <1>3 DEF IntactInv
<1>4. HeaderRead /\ MessagesIntact /\ DeliveredBefore /\ AtBoundary
  BY DEF IntactInv
<1>5. Boundary' = Boundary /\ WellFormed' = WellFormed
  BY <1>3, SameStream
<1>6. MessagesIntact' /\ DeliveredBefore'
  <2>1. CASE Delivered' = Delivered
    <3>1. First' \in Int /\ First' >= First
      BY <1>1, <1>2
    <3>2. QED
      BY <1>3, <1>4, <2>1, <3>1, SameDelivered
  <2>2. CASE Delivered' = Append(Delivered, Message)
    <3> DEFINE Last(m) == m[Len(m)]
    <3>1. /\ Genuine(Message) /\ Message[1] = First
          /\ Last(Message) = First + rcvMsgBytes - 1
      BY <1>1, <1>4, MessageGenuine
    <3>2. /\ Len(Delivered) \in Nat /\ Len(Delivered') = Len(Delivered) + 1
          /\ Delivered'[Len(Delivered) + 1] = Message
          /\ \A i \in 1 .. Len(Delivered) : Delivered'[i] = Delivered[i]
      <4> DEFINE T == Seq(0 .. Len(stream))
      <4>1. queue \in Seq(T) /\ results \in Seq(T) /\ Message \in T
        BY MessageType DEF IInv, TypeOK
      <4> HIDE DEF T
      <4>2. Delivered \in Seq(T)
        BY <4>1, ConcatProperties DEF Delivered
      <4>3. QED
        BY <2>2, <4>1, <4>2, AppendProperties
    <3>3. ASSUME NEW i \in 1 .. Len(Delivered')
          PROVE  Genuine(Delivered'[i])
      <4>1. CASE i \in 1 .. Len(Delivered)
        BY <1>4, <3>2, <4>1 DEF MessagesIntact
      <4>2. CASE i = Len(Delivered) + 1
        BY <3>1, <3>2, <4>2
      <4>3. QED
        BY <3>2, <4>1, <4>2
    <3>4. ASSUME NEW i \in 1 .. Len(Delivered')
          PROVE  Last(Delivered'[i]) < First + rcvMsgBytes
      <4>1. CASE i \in 1 .. Len(Delivered)
        <5>1. Last(Delivered[i]) \in Nat /\ Last(Delivered[i]) < First
          BY <1>4, <4>1, LastByteType DEF DeliveredBefore
        <5>2. QED
          BY <1>1, <3>2, <4>1, <5>1
      <4>2. CASE i = Len(Delivered) + 1
        BY <1>1, <3>1, <3>2, <4>2
      <4>3. QED
        BY <3>2, <4>1, <4>2
    <3>5. ASSUME NEW i \in 1 .. Len(Delivered'), NEW j \in 1 .. Len(Delivered'),
                 i < j
          PROVE  Last(Delivered'[i]) < Delivered'[j][1]
      <4>1. i \in 1 .. Len(Delivered)
        BY <3>2, <3>5
      <4>2. CASE j \in 1 .. Len(Delivered)
        BY <1>4, <3>2, <3>5, <4>1, <4>2 DEF MessagesIntact
      <4>3. CASE j = Len(Delivered) + 1
        BY <1>4, <3>1, <3>2, <4>1, <4>3 DEF DeliveredBefore
      <4>4. QED
        BY <3>2, <4>2, <4>3
    <3>6. MessagesIntact'
      BY <1>3, <1>5, <3>3, <3>5 DEF MessagesIntact, Genuine, Header, Announced
    <3>7. QED
      BY <1>2, <3>4, <3>6 DEF DeliveredBefore
  <2>3. QED
    BY <1>2, <2>1, <2>2
<1>7. HeaderRead'
  BY <1>3 DEF HeaderRead
<1>8. AtBoundary'
  <2>1. SUFFICES ASSUME WellFormed
                 PROVE  Boundary[First + rcvMsgBytes]
    BY <1>2, <1>3, <1>4, <1>5 DEF AtBoundary
  <2>2. /\ Boundary[First] /\ Header(First)
        /\ First + rcvMsgBytes = First + Announced(First)
    BY <1>1, <1>4, <2>1 DEF AtBoundary, HeaderRead
  <2>3. /\ First + rcvMsgBytes \in 1 .. Len(stream) + 1
        /\ First \in 1 .. (First + rcvMsgBytes) - 1
    BY <1>1
  <2>4. ~Broken(First, First + rcvMsgBytes)
    <3>1. \A s \in starts : s \in Int /\ s <= First
      BY <1>1 DEF IInv, TypeOK, Control
    <3>2. QED
      BY <1>1, <3>1 DEF Broken
  <2>5. QED
    BY <2>2, <2>3, <2>4, BoundaryEquation DEF IInv, Leads
<1>9. QED
  BY <1>6, <1>7, <1>8

\* The network, the caller and the result thread touch nothing pending.
LEMMA OutsideIntact ==
    ASSUME IInv, IntactInv,
           Arrive \/ PeerLeaves \/ Exit \/ ProcRcvQueueData \/ UNCHANGED vars
    PROVE  IntactInv'
<1>1. /\ UNCHANGED <<stream, starts, taken, readLen, rcvMsgBytes, headerErrBytes,
                     short, net>>
      /\ Delivered' = Delivered
  <2>1. CASE Take
    BY <2>1, TakeStep DEF Take, world, buf, stats
  <2>2. CASE Arrive \/ PeerLeaves \/ Exit \/ DealEnds \/ UNCHANGED vars
    BY <2>2 DEF Arrive, PeerLeaves, Exit, DealEnds, vars, world, buf, stats, out,
       Delivered
  <2>3. QED
    BY <2>1, <2>2 DEF ProcRcvQueueData
<1>2. First' = First
  BY <1>1 DEF First
<1>3. readLen \in Nat
  BY FirstType
<1>4. QED
  BY <1>1, <1>2, <1>3, SamePending

-----------------------------------------------------------------------------
LEMMA InitIntactInv == Init => IntactInv
<1> SUFFICES ASSUME Init PROVE IntactInv
  OBVIOUS
<1>1. First = 1 /\ TypeOK /\ starts = {1} /\ headerErrBytes = 0
  BY InitIInv DEF Init, First, IInv
<1>2. Boundary[1]
  <2>1. 1 \in 1 .. Len(stream) + 1
    BY <1>1 DEF TypeOK
  <2>2. QED
    BY <1>1, <2>1, BoundaryEquation
<1>3. rcvMsgBytes = 0 /\ Len(Delivered) = 0
  <2>1. rcvMsgBytes = 0 /\ results = <<>> /\ queue = <<>>
    BY DEF Init
  <2>2. QED
    BY <2>1 DEF Delivered
<1>4. QED
  BY <1>1, <1>2, <1>3
     DEF IntactInv, HeaderRead, MessagesIntact, DeliveredBefore, AtBoundary

LEMMA NextIntactInv == IInv /\ IntactInv /\ [Next]_vars => IntactInv'
<1> SUFFICES ASSUME IInv, IntactInv, [Next]_vars PROVE IntactInv'
  OBVIOUS
<1>1. CASE FindHeader
  BY <1>1, FindHeaderIntact
<1>2. CASE Recv
  BY <1>2, RecvIntact
<1>3. CASE EnQueue
  BY <1>3, EnQueueIntact
<1>4. CASE Connect
  BY <1>4, ConnectIntact
<1>5. CASE Arrive \/ PeerLeaves \/ Exit \/ ProcRcvQueueData \/ UNCHANGED vars
  BY <1>5, OutsideIntact
<1>6. QED
  BY <1>1, <1>2, <1>3, <1>4, <1>5 DEF Next, NetWork

LEMMA SpecIntactInv == Spec => []IntactInv
BY SpecIInv, InitIntactInv, NextIntactInv, PTL DEF Spec

-----------------------------------------------------------------------------
\* The variables of netWorkFunc keep their types.  Until a recv writes behind
\* the buffer (RecvBeyond, which whole messages can lead to) or the scan reads
\* behind it (ScanBeyond), where the model ends, the pending bytes and an
\* announced message lie within pRcvBuf, whatever was enlarged, moved, dropped
\* or reconnected.
THEOREM TypeCorrect == Spec => []TypeOK
<1>1. IInv => TypeOK
  BY DEF IInv
<1>2. QED
  BY <1>1, SpecIInv, PTL

\* Every received byte is consumed, counted as header error, pending, or was
\* dropped with its connection.
THEOREM BytesAreAccounted == Spec => []BytesAccounted
<1>1. IInv => BytesAccounted
  BY DEF IInv
<1>2. QED
  BY <1>1, SpecIInv, PTL

\* As long as every header was complete when it was looked at, the result
\* thread is given only messages the peers sent, in the order in which they
\* were sent, over all connections; and peers that send only messages lose no
\* byte to the scan for a header.
THEOREM ResultsAreIntact == Spec => []IntactUnlessShort
<1>1. IntactInv => IntactUnlessShort
  BY DEF IntactInv, IntactUnlessShort, AtBoundary
<1>2. QED
  BY <1>1, SpecIntactInv, PTL
=============================================================================
