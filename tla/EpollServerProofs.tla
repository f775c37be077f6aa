--------------------------- MODULE EpollServerProofs ---------------------------
(***************************************************************************)
(* Proofs about EpollServer, for every set of connections and addresses,   *)
(* with every fault: types, liveness of the events in the batch, the       *)
(* client counter, and no lost wake-up.                                    *)
(***************************************************************************)
EXTENDS EpollServer, FiniteSetTheorems, TLAPS

\* Where a connection may be seen: epoll watches open sockets only, its
\* lists hold watched sockets only, and a batch is finished before the next.
WatchedAreOpen ==
    /\ \A c \in registered : sock[c] = "open"
    /\ ready \subseteq registered \cup {Listen}
    /\ \A e \in batch : e.who \in registered \cup {Listen}
    /\ pc = "read" => cur \in registered
    /\ pc # "read" => cur = None
    /\ pc = "wait" => batch = {}

\* An event of the batch stands for its connection alone.
BatchIsFunction ==
    \A e \in batch : /\ e.who # cur
                     /\ \A f \in batch : e.who = f.who => e = f

IInv ==
    /\ TypeOK
    /\ WatchedAreOpen
    /\ BatchIsFunction
    /\ ClientCntIsOpenSocks
    /\ NoLostWakeup

-----------------------------------------------------------------------------
(* Counting the open sockets *)

LEMMA OpenSocksFinite ==
    /\ IsFiniteSet(OpenSocks) /\ Cardinality(OpenSocks) \in Nat
<1>1. OpenSocks \subseteq Conn /\ IsFiniteSet(Conn)
  BY ConnAssumption DEF OpenSocks
<1>2. QED
  BY <1>1, FS_Subset, FS_CardinalityType

\* Nothing changes in the count when no socket is opened or closed.
LEMMA CountKept ==
    ASSUME ClientCntIsOpenSocks, clientCnt' = clientCnt,
           \A c \in Conn : sock'[c] = "open" <=> sock[c] = "open"
    PROVE  ClientCntIsOpenSocks'
<1>1. OpenSocks' = OpenSocks
  BY DEF OpenSocks
<1>2. QED
  BY <1>1 DEF ClientCntIsOpenSocks

LEMMA CountOpened ==
    ASSUME TypeOK, ClientCntIsOpenSocks, NEW c \in Conn, sock[c] # "open",
           sock' = [sock EXCEPT ![c] = "open"], clientCnt' = clientCnt + 1
    PROVE  ClientCntIsOpenSocks'
<1>1. OpenSocks' = OpenSocks \cup {c} /\ c \notin OpenSocks
  BY DEF OpenSocks, TypeOK
<1>2. Cardinality(OpenSocks') = Cardinality(OpenSocks) + 1
  BY <1>1, OpenSocksFinite, FS_AddElement
<1>3. QED
  BY <1>2 DEF ClientCntIsOpenSocks

\* A closed socket was counted, so the counter does not wrap.
LEMMA CountClosed ==
    ASSUME TypeOK, ClientCntIsOpenSocks, NEW c \in Conn, sock[c] = "open",
           sock' = [sock EXCEPT ![c] = "closed"], clientCnt' = clientCnt - 1
    PROVE  ClientCntIsOpenSocks' /\ clientCnt' \in Nat
<1>1. OpenSocks' = OpenSocks \ {c} /\ c \in OpenSocks
  BY DEF OpenSocks, TypeOK
<1>2. /\ IsFiniteSet(OpenSocks')
      /\ Cardinality(OpenSocks') = Cardinality(OpenSocks) - 1
  BY <1>1, OpenSocksFinite, FS_RemoveElement
<1>3. Cardinality(OpenSocks') \in Nat
  BY <1>2, FS_CardinalityType
<1>4. QED
  BY <1>2, <1>3 DEF ClientCntIsOpenSocks

-----------------------------------------------------------------------------
(* Steps of the clients, the kernel and the signal handler *)

LEMMA ClientStep ==
    ASSUME IInv, Client \/ Exit
    PROVE  IInv'
<1>1. CASE \E c \in Conn : Connect(c)
  <2>1. PICK c \in Conn : Connect(c)
    BY <1>1
  <2>2. TypeOK'
    BY <2>1 DEF Connect, IInv, TypeOK
  <2>3. WatchedAreOpen'
    BY <2>1 DEF Connect, IInv, TypeOK, WatchedAreOpen
  <2>4. BatchIsFunction'
    BY <2>1 DEF Connect, IInv, BatchIsFunction
  <2>5. ClientCntIsOpenSocks'
    BY <2>1, CountKept DEF Connect, IInv, TypeOK
  <2>6. NoLostWakeup'
    BY <2>1 DEF Connect, IInv, TypeOK, WatchedAreOpen, NoLostWakeup, Readable
  <2>7. QED
    BY <2>2, <2>3, <2>4, <2>5, <2>6 DEF IInv
<1>2. CASE \E c \in Conn : Send(c) \/ Leave(c)
  <2>1. PICK c \in Conn : Send(c) \/ Leave(c)
    BY <1>2
  <2>2. TypeOK'
    BY <2>1, ConnAssumption DEF Send, Leave, Wake, IInv, TypeOK
  <2>3. WatchedAreOpen' /\ BatchIsFunction'
    BY <2>1 DEF Send, Leave, Wake, IInv, WatchedAreOpen, BatchIsFunction
  <2>4. ClientCntIsOpenSocks'
    BY <2>1, CountKept DEF Send, Leave, IInv
  <2>5. NoLostWakeup'
    <3>1. \A d \in Conn : d # c => (Readable(d)' <=> Readable(d))
      BY <2>1 DEF Send, Leave, IInv, TypeOK, Readable
    <3>2. c \in registered => c \in ready'
      BY <2>1 DEF Send, Leave, Wake
    <3>3. /\ registered' = registered /\ cur' = cur /\ batch' = batch
          /\ ready \subseteq ready'
      BY <2>1 DEF Send, Leave, Wake
    <3>4. QED
      BY <3>1, <3>2, <3>3 DEF IInv, TypeOK, NoLostWakeup
  <2>6. QED
    BY <2>2, <2>3, <2>4, <2>5 DEF IInv
<1>3. CASE Exit
  <2>1. ClientCntIsOpenSocks'
    BY <1>3, CountKept DEF Exit, IInv
  <2>2. QED
    BY <1>3, <2>1 DEF Exit, IInv, TypeOK, net, WatchedAreOpen, BatchIsFunction,
           NoLostWakeup, Readable
<1>4. QED
  BY <1>1, <1>2, <1>3 DEF Client

-----------------------------------------------------------------------------
(* Steps of the event loop *)

LEMMA WaitStep ==
    ASSUME IInv, EpollWait
    PROVE  IInv'
<1> DEFINE polled == ready \ IF Backlog = {} THEN {Listen} ELSE {}
<1>1. /\ pc = "wait" /\ pc' = "dispatch"
      /\ batch' = {[who |-> x, in |-> x = Listen \/ Readable(x)] : x \in polled}
      /\ ready' = polled \cap {Listen}
      /\ UNCHANGED <<sock, net, registered, transMap, clientCnt, errno, cur,
                     isExit>>
  BY DEF EpollWait
<1>2. polled \subseteq ready /\ \A c \in ready : c # Listen => c \in polled
  OBVIOUS
<1> HIDE DEF polled
<1>3. ASSUME NEW e \in batch'
      PROVE  /\ e.who \in polled /\ e.in = (e.who = Listen \/ Readable(e.who))
             /\ e = [who |-> e.who, in |-> e.in]
             /\ e.in \in BOOLEAN
  <2>1. PICK x \in polled : e = [who |-> x, in |-> x = Listen \/ Readable(x)]
    BY <1>1
  <2>2. e.who = x /\ e.in = (x = Listen \/ Readable(x))
    BY <2>1
  <2>3. QED
    BY <2>1, <2>2
<1>4. TypeOK'
  <2>1. batch' \subseteq [who : Conn \cup {Listen}, in : BOOLEAN]
    <3>1. polled \subseteq Conn \cup {Listen}
      BY <1>2 DEF IInv, TypeOK
    <3>2. QED
      BY <1>3, <3>1
  <2>2. QED
    BY <1>1, <1>2, <2>1 DEF IInv, TypeOK, net
<1>5. WatchedAreOpen'
  BY <1>1, <1>2, <1>3 DEF IInv, WatchedAreOpen
<1>6. BatchIsFunction'
  <2>1. ASSUME NEW e \in batch' PROVE e.who # cur'
    BY <1>1, <1>2, <1>3, ConnAssumption DEF IInv, TypeOK, WatchedAreOpen
  <2>2. ASSUME NEW e \in batch', NEW f \in batch', e.who = f.who PROVE e = f
    <3>1. e.in = f.in
      BY <1>3, <2>2
    <3>2. QED
      BY <1>3, <2>2, <3>1
  <2>3. QED
    BY <2>1, <2>2 DEF BatchIsFunction
<1>7. ClientCntIsOpenSocks'
  BY <1>1, CountKept DEF IInv
<1>8. NoLostWakeup'
  <2>1. ASSUME NEW c \in registered, Readable(c)
        PROVE  \E e \in batch' : e.who = c
    <3>1. c \in Conn /\ c # Listen /\ cur # c /\ batch = {}
      BY <1>1, ConnAssumption DEF IInv, TypeOK, WatchedAreOpen
    <3>2. c \in polled
      BY <1>2, <2>1, <3>1 DEF IInv, NoLostWakeup
    <3> DEFINE e == [who |-> c, in |-> c = Listen \/ Readable(c)]
    <3>3. e \in batch' /\ e.who = c
      BY <1>1, <3>2
    <3>4. QED
      BY <3>3
  <2>2. ASSUME NEW c \in registered, ~Readable(c) PROVE ~Readable(c)'
    BY <1>1, <2>2 DEF Readable, net
  <2>3. QED
    BY <1>1, <2>1, <2>2 DEF NoLostWakeup
<1>9. QED
  BY <1>4, <1>5, <1>6, <1>7, <1>8 DEF IInv

\* What every step of the loop over the batch leaves alone.
LEMMA DispatchStep ==
    ASSUME IInv, NEW event \in batch,
           DispatchListen(event) \/ DispatchIn(event) \/ DispatchOut(event)
    PROVE  IInv'
<1>1. /\ pc = "dispatch" /\ cur = None
      /\ batch' = batch \ {event}
      /\ UNCHANGED <<sock, net, registered, transMap, clientCnt, errno, isExit>>
      /\ event.who \in registered \cup {Listen}
      /\ \A e \in batch : e.who = event.who => e = event
  BY DEF DispatchListen, DispatchIn, DispatchOut, IInv, WatchedAreOpen,
         BatchIsFunction
<1>2. ClientCntIsOpenSocks'
  BY <1>1, CountKept DEF IInv
<1>3. \A c \in Conn : Readable(c)' <=> Readable(c)
  BY <1>1 DEF Readable, net
<1>4. CASE DispatchListen(event)
  <2>1. TypeOK' /\ WatchedAreOpen' /\ BatchIsFunction'
    BY <1>1, <1>4 DEF DispatchListen, IInv, TypeOK, net, WatchedAreOpen,
           BatchIsFunction
  <2>2. event.who \notin registered
    BY <1>4, ConnAssumption DEF DispatchListen, IsListen, IInv, TypeOK
  <2>3. NoLostWakeup'
    BY <1>1, <1>3, <1>4, <2>2
       DEF DispatchListen, IInv, TypeOK, NoLostWakeup
  <2>4. QED
    BY <1>2, <2>1, <2>3 DEF IInv
<1>5. CASE DispatchIn(event)
  <2>1. event.who \in registered
    BY <1>1, <1>5 DEF DispatchIn, IsListen
  <2>2. TypeOK' /\ WatchedAreOpen'
    BY <1>1, <1>5, <2>1 DEF DispatchIn, IInv, TypeOK, net, WatchedAreOpen
  <2>3. BatchIsFunction'
    BY <1>1, <1>5 DEF DispatchIn, IInv, BatchIsFunction
  <2>4. NoLostWakeup'
    <3>1. cur' = event.who /\ ready' = ready /\ registered' = registered
      BY <1>1, <1>5 DEF DispatchIn
    <3>2. \A c \in registered : c \in Conn /\ c # None
      BY ConnAssumption DEF IInv, TypeOK
    <3>3. \A e \in batch : e.who = cur' \/ e \in batch'
      BY <1>1, <3>1
    <3>4. QED
      BY <1>1, <1>3, <3>1, <3>2, <3>3 DEF IInv, NoLostWakeup
  <2>5. QED
    BY <1>2, <2>2, <2>3, <2>4 DEF IInv
<1>6. CASE DispatchOut(event)
  <2>1. event.who \in registered
    BY <1>1, <1>6 DEF DispatchOut, IsListen
  <2>2. TypeOK' /\ WatchedAreOpen' /\ BatchIsFunction'
    BY <1>1, <1>6, <2>1 DEF DispatchOut, Rearm, IInv, TypeOK, net,
           WatchedAreOpen, BatchIsFunction
  <2>3. NoLostWakeup'
    BY <1>1, <1>3, <1>6 DEF DispatchOut, Rearm, IInv, TypeOK, NoLostWakeup
  <2>4. QED
    BY <1>2, <2>2, <2>3 DEF IInv
<1>7. QED
  BY <1>4, <1>5, <1>6

LEMMA LoopStep ==
    ASSUME IInv, Loop
    PROVE  IInv'
<1>1. CASE BatchEnds \/ RunEnds
  <2>1. ClientCntIsOpenSocks'
    BY <1>1, CountKept DEF BatchEnds, RunEnds, IInv
  <2>2. QED
    BY <1>1, <2>1 DEF BatchEnds, RunEnds, IInv, TypeOK, net, WatchedAreOpen,
           BatchIsFunction, NoLostWakeup, Readable
<1>2. QED
  BY <1>1, WaitStep, DispatchStep DEF Loop

-----------------------------------------------------------------------------
(* Steps of the accept loop and of the read callback *)

LEMMA AcceptStep ==
    ASSUME IInv, Accepts
    PROVE  IInv'
<1>1. CASE AcceptFails
  <2>1. ClientCntIsOpenSocks'
    BY <1>1, CountKept DEF AcceptFails, IInv
  <2>2. QED
    BY <1>1, <2>1 DEF AcceptFails, IInv, TypeOK, net, WatchedAreOpen,
           BatchIsFunction, NoLostWakeup, Readable
<1>2. CASE \E c \in Conn : Accept(c)
  <2>1. PICK c \in Conn : Accept(c)
    BY <1>2
  <2>2. /\ pc = "accept" /\ sock[c] = "backlog" /\ cur = None
        /\ sock' = [sock EXCEPT ![c] = "open"]
        /\ clientCnt' = clientCnt + 1
        /\ transMap' = [transMap EXCEPT ![IpOf[c]] = c]
        /\ \/ registered' = registered \cup {c} /\ ready' = ready \cup {c}
           \/ UNCHANGED <<registered, ready>>
        /\ UNCHANGED <<peer, inq, sent, batch, errno, pc, cur, isExit>>
    BY <2>1 DEF Accept, Backlog, Register, net, IInv, WatchedAreOpen
  <2>3. TypeOK'
    <3>1. sock' \in [Conn -> {"none", "backlog", "open", "closed"}]
      BY <2>2 DEF IInv, TypeOK
    <3>2. transMap' \in [Ip -> Conn \cup {None}]
      BY <2>2 DEF IInv, TypeOK
    <3>3. registered' \subseteq Conn /\ ready' \subseteq Conn \cup {Listen}
      BY <2>2 DEF IInv, TypeOK
    <3>4. clientCnt' \in Nat
      BY <2>2 DEF IInv, TypeOK
    <3>5. QED
      BY <2>2, <3>1, <3>2, <3>3, <3>4 DEF IInv, TypeOK
  <2>4. WatchedAreOpen'
    BY <2>2, ConnAssumption DEF IInv, TypeOK, WatchedAreOpen
  <2>5. BatchIsFunction'
    BY <2>2 DEF IInv, BatchIsFunction
  <2>6. ClientCntIsOpenSocks'
    BY <2>2, CountOpened DEF IInv
  <2>7. NoLostWakeup'
    BY <2>2 DEF IInv, NoLostWakeup, Readable
  <2>8. QED
    BY <2>3, <2>4, <2>5, <2>6, <2>7 DEF IInv
<1>3. QED
  BY <1>1, <1>2 DEF Accepts

\* The end of a callback, whatever its code.
LEMMA ReturnStep ==
    ASSUME IInv, pc = "read", NEW code \in Int, Returned(code),
           errno' \in {"EAGAIN", "other"},
           UNCHANGED <<net, batch, transMap, isExit>>
    PROVE  IInv'
<1>1. /\ cur \in registered /\ cur \in Conn /\ sock[cur] = "open"
      /\ pc' = "dispatch" /\ cur' = None
      /\ \A e \in batch : e.who # cur /\ e.who # None
  BY ConnAssumption DEF Returned, IInv, TypeOK, WatchedAreOpen, BatchIsFunction
<1>2. \A c \in Conn : Readable(c)' <=> Readable(c)
  BY DEF Readable, net
<1>3. CASE ReadOk
  <2>1. ClientCntIsOpenSocks'
    BY <1>3, CountKept DEF ReadOk, IInv
  <2>2. TypeOK' /\ WatchedAreOpen' /\ BatchIsFunction'
    BY <1>1, <1>3 DEF ReadOk, Rearm, IInv, TypeOK, net, WatchedAreOpen,
           BatchIsFunction
  <2>3. NoLostWakeup'
    BY <1>1, <1>2, <1>3 DEF ReadOk, Rearm, IInv, TypeOK, NoLostWakeup
  <2>4. QED
    BY <2>1, <2>2, <2>3 DEF IInv
<1>4. CASE CloseConnection
  <2>1. ClientCntIsOpenSocks' /\ clientCnt' \in Nat
    BY <1>1, <1>4, CountClosed DEF CloseConnection, IInv
  <2>2. TypeOK'
    BY <1>1, <1>4, <2>1 DEF CloseConnection, IInv, TypeOK, net
  <2>3. WatchedAreOpen'
    BY <1>1, <1>4, ConnAssumption
       DEF CloseConnection, IInv, TypeOK, WatchedAreOpen
  <2>4. BatchIsFunction'
    BY <1>1 DEF IInv, BatchIsFunction
  <2>5. NoLostWakeup'
    BY <1>1, <1>2, <1>4 DEF CloseConnection, IInv, TypeOK, NoLostWakeup
  <2>6. QED
    BY <2>1, <2>2, <2>3, <2>4, <2>5 DEF IInv
<1>5. QED
  BY <1>3, <1>4 DEF Returned

LEMMA ReadStep ==
    ASSUME IInv, Reads
    PROVE  IInv'
<1>1. CASE RecvData
  <2>1. /\ pc = "read" /\ cur \in Conn
        /\ \E n \in 1 .. inq[cur] : inq' = [inq EXCEPT ![cur] = @ - n]
        /\ errno' \in {"EAGAIN", "other"}
        /\ UNCHANGED <<sock, peer, sent, registered, ready, batch, transMap,
                       clientCnt, pc, cur, isExit>>
    BY <1>1 DEF RecvData, IInv, TypeOK, WatchedAreOpen
  <2>2. TypeOK'
    BY <2>1, ConnAssumption DEF IInv, TypeOK
  <2>3. WatchedAreOpen' /\ BatchIsFunction'
    BY <2>1 DEF IInv, WatchedAreOpen, BatchIsFunction
  <2>4. ClientCntIsOpenSocks'
    BY <2>1, CountKept DEF IInv
  <2>5. NoLostWakeup'
    BY <2>1 DEF IInv, TypeOK, NoLostWakeup, Readable
  <2>6. QED
    BY <2>2, <2>3, <2>4, <2>5 DEF IInv
<1>2. CASE RecvZero \/ RecvFails \/ ReadStops
  <2>1. PICK code \in Int : Returned(code)
    BY <1>2 DEF RecvZero, RecvFails, ReadStops
  <2>2. /\ pc = "read" /\ errno' \in {"EAGAIN", "other"}
        /\ UNCHANGED <<net, batch, transMap, isExit>>
    BY <1>2 DEF RecvZero, RecvFails, ReadStops, IInv, TypeOK
  <2>3. QED
    BY <2>1, <2>2, ReturnStep
<1>3. QED
  BY <1>1, <1>2 DEF Reads

-----------------------------------------------------------------------------
LEMMA InitIInv == Init => IInv
<1> SUFFICES ASSUME Init PROVE IInv
  OBVIOUS
<1>1. OpenSocks = {} /\ Cardinality(OpenSocks) = 0
  BY FS_EmptySet DEF Init, OpenSocks
<1>2. 0 \in 0 .. MaxIn /\ 0 \in 0 .. MaxSend
  BY ConnAssumption
<1>3. TypeOK
  BY <1>2 DEF Init, TypeOK
<1>4. QED
  BY <1>1, <1>3 DEF Init, IInv, WatchedAreOpen, BatchIsFunction,
         ClientCntIsOpenSocks, NoLostWakeup

LEMMA NextIInv == IInv /\ [Next]_vars => IInv'
<1> SUFFICES ASSUME IInv, [Next]_vars PROVE IInv'
  OBVIOUS
<1>1. CASE UNCHANGED vars
  <2>1. ClientCntIsOpenSocks'
    BY <1>1, CountKept DEF vars, IInv
  <2>2. QED
    BY <1>1, <2>1 DEF vars, net, IInv, TypeOK, WatchedAreOpen,
           BatchIsFunction, NoLostWakeup, Readable
<1>2. QED
  BY <1>1, ClientStep, LoopStep, AcceptStep, ReadStep DEF Next, Server

LEMMA SpecIInv == Spec => []IInv
BY InitIInv, NextIInv, PTL DEF Spec

-----------------------------------------------------------------------------
\* The variables of the dispatcher keep their types; in particular the
\* unsigned m_iClientCnt never wraps below zero.
THEOREM TypeCorrect == Spec => []TypeOK
<1>1. IInv => TypeOK
  BY DEF IInv
<1>2. QED
  BY <1>1, SpecIInv, PTL

\* data.ptr and m_iFd of an event being handled belong to an open connection.
THEOREM NoStaleEvent == Spec => []EventsAreLive
<1>1. IInv => EventsAreLive
  BY DEF IInv, EventsAreLive, WatchedAreOpen, BatchIsFunction
<1>2. QED
  BY <1>1, SpecIInv, PTL

\* The status log's number of links is the number of open sockets.
THEOREM ClientCountIsExact == Spec => []ClientCntIsOpenSocks
<1>1. IInv => ClientCntIsOpenSocks
  BY DEF IInv
<1>2. QED
  BY <1>1, SpecIInv, PTL

\* No socket with pending data or a departed peer is forgotten by epoll.
THEOREM WakeupsAreKept == Spec => []NoLostWakeup
<1>1. IInv => NoLostWakeup
  BY DEF IInv
<1>2. QED
  BY <1>1, SpecIInv, PTL

-----------------------------------------------------------------------------
(* Connections are closed in the end only *)

\* There is a socket for every client that connected, and for no other.
HasPeer == \A c \in Conn : sock[c] # "none" <=> peer[c] # "none"

LEMMA NextHasPeer ==
    ASSUME IInv, HasPeer, [Next]_vars
    PROVE  HasPeer'
<1>1. CASE \E c \in Conn : Connect(c) \/ Send(c) \/ Leave(c)
  <2>1. PICK c \in Conn : Connect(c) \/ Send(c) \/ Leave(c)
    BY <1>1
  <2>2. CASE Connect(c)
    BY <2>2 DEF Connect, HasPeer, IInv, TypeOK
  <2>3. CASE Send(c)
    BY <2>3 DEF Send, HasPeer
  <2>4. CASE Leave(c)
    <3>1. PICK how \in {"fin", "rst"} : peer' = [peer EXCEPT ![c] = how]
      BY <2>4 DEF Leave
    <3>2. sock' = sock /\ peer[c] = "open"
      BY <2>4 DEF Leave
    <3>3. QED
      BY <3>1, <3>2 DEF HasPeer, IInv, TypeOK
  <2>5. QED
    BY <2>1, <2>2, <2>3, <2>4
<1>2. CASE Exit \/ Loop \/ AcceptFails \/ RecvData \/ UNCHANGED vars
  <2>1. sock' = sock /\ peer' = peer
    BY <1>2 DEF Exit, Loop, EpollWait, BatchEnds, RunEnds, DispatchListen,
       DispatchIn, DispatchOut, AcceptFails, RecvData, net, vars
  <2>2. QED
    BY <2>1 DEF HasPeer
<1>3. CASE \E c \in Conn : Accept(c)
  <2>1. PICK c \in Conn : Accept(c)
    BY <1>3
  <2>2. sock[c] = "backlog" /\ sock' = [sock EXCEPT ![c] = "open"] /\ peer' = peer
    BY <2>1 DEF Accept, Backlog, net
  <2>3. QED
    BY <2>2 DEF HasPeer, IInv, TypeOK
<1>4. CASE RecvZero \/ RecvFails \/ ReadStops
  <2>1. cur \in Conn /\ sock[cur] = "open"
    BY <1>4 DEF RecvZero, RecvFails, ReadStops, IInv, TypeOK, WatchedAreOpen
  <2>2. /\ peer' = peer
        /\ sock' = sock \/ sock' = [sock EXCEPT ![cur] = "closed"]
    BY <1>4 DEF RecvZero, RecvFails, ReadStops, Returned, ReadOk,
       CloseConnection, net
  <2>3. QED
    BY <2>1, <2>2 DEF HasPeer, IInv, TypeOK
<1>5. QED
  BY <1>1, <1>2, <1>3, <1>4 DEF Next, Client, Server, Accepts, Reads

\* A callback closes its connection after the peer has left, and with
\* nothing in the socket to be read.
LEMMA ClosingStep ==
    ASSUME IInv, HasPeer, [Next]_vars, "room" \notin Faults,
           NEW c \in Conn, sock[c] = "open", sock'[c] = "closed"
    PROVE  peer[c] \in {"fin", "rst"} /\ inq[c] = 0
<1>1. CASE RecvZero \/ RecvFails \/ ReadStops
  <2>1. cur \in Conn /\ sock[cur] = "open"
    BY <1>1 DEF RecvZero, RecvFails, ReadStops, IInv, TypeOK, WatchedAreOpen
  <2>2. /\ sock' = sock \/ sock' = [sock EXCEPT ![cur] = "closed"]
    BY <1>1 DEF RecvZero, RecvFails, ReadStops, Returned, ReadOk, CloseConnection
  <2>3. cur = c
    BY <2>1, <2>2 DEF IInv, TypeOK
  <2>4. peer[c] \in {"open", "fin", "rst"}
    BY <2>1 DEF HasPeer, IInv, TypeOK
  <2>5. CASE RecvZero
    BY <2>3, <2>5 DEF RecvZero
  <2>6. CASE RecvFails
    <3>1. inq[c] = 0 /\ peer[c] # "fin"
      BY <2>3, <2>6 DEF RecvFails
    <3>2. peer[c] = "open" => sock' = sock
      BY <2>3, <2>6 DEF RecvFails, Returned, IsOk, ReadOk
    <3>3. QED
      BY <2>4, <3>1, <3>2
  <2>7. CASE ReadStops
    BY <2>7 DEF ReadStops, Returned, IsOk, ReadOk
  <2>8. QED
    BY <1>1, <2>5, <2>6, <2>7
<1>2. CASE \E d \in Conn : Connect(d) \/ Accept(d)
  <2>1. PICK d \in Conn : Connect(d) \/ Accept(d)
    BY <1>2
  <2>2. sock'[c] # "closed"
    BY <2>1 DEF Connect, Accept, IInv, TypeOK
  <2>3. QED
    BY <2>2
<1>3. CASE (\E d \in Conn : Send(d) \/ Leave(d)) \/ Exit \/ Loop \/ AcceptFails
           \/ RecvData \/ UNCHANGED vars
  BY <1>3 DEF Send, Leave, Exit, Loop, EpollWait, BatchEnds, RunEnds,
     DispatchListen, DispatchIn, DispatchOut, AcceptFails, RecvData, vars
<1>4. QED
  BY <1>1, <1>2, <1>3 DEF Next, Client, Server, Accepts, Reads

\* As long as readFunc has room for what it is to receive, a connection is
\* closed only after its peer left and when all it sent has been read,
\* whatever errno an earlier call left behind.
THEOREM ClosedOnlyDrained ==
    ASSUME "room" \notin Faults
    PROVE  Spec => ClosesOnlyDrained
<1>1. Init => HasPeer
  BY DEF Init, HasPeer
<1>2. IInv /\ HasPeer /\ [Next]_vars => HasPeer'
  BY NextHasPeer
<1>3. IInv /\ HasPeer /\ [Next]_vars =>
        [\A c \in Conn : sock[c] = "open" /\ sock'[c] = "closed" =>
            peer[c] \in {"fin", "rst"} /\ inq[c] = 0]_vars
  BY ClosingStep
<1>4. QED
  BY <1>1, <1>2, <1>3, SpecIInv, PTL DEF Spec, ClosesOnlyDrained

-----------------------------------------------------------------------------
(* The loop and the callbacks *)

\* An event that reports input is still right when its turn comes: only the
\* callback of a connection takes what its socket holds.
EventsAreRight ==
    \A e \in batch : e.in /\ e.who \in Conn => Readable(e.who)

LEMMA NextEventsAreRight ==
    ASSUME IInv, HasPeer, EventsAreRight, [Next]_vars
    PROVE  EventsAreRight'
<1>1. \A e \in batch : e.who \in Conn =>
         e.who # cur /\ e.who \in registered /\ sock[e.who] = "open"
               /\ peer[e.who] # "none"
  BY ConnAssumption DEF IInv, BatchIsFunction, WatchedAreOpen, HasPeer, TypeOK
<1>2. CASE EpollWait
  <2> DEFINE polled == ready \ IF Backlog = {} THEN {Listen} ELSE {}
  <2>1. /\ batch' = {[who |-> x, in |-> x = Listen \/ Readable(x)] : x \in polled}
        /\ inq' = inq /\ peer' = peer
    BY <1>2 DEF EpollWait, net
  <2> HIDE DEF polled
  <2>2. \A e \in batch' : e.in /\ e.who \in Conn => Readable(e.who)
    <3>1. ASSUME NEW e \in batch', e.in, e.who \in Conn
          PROVE  Readable(e.who)
      <4>1. PICK x \in polled : e = [who |-> x, in |-> x = Listen \/ Readable(x)]
        BY <2>1
      <4>2. e.who = x /\ (x = Listen \/ Readable(x))
        BY <3>1, <4>1
      <4>3. QED
        BY <3>1, <4>2, ConnAssumption
    <3>2. QED
      BY <3>1
  <2>3. QED
    BY <2>1, <2>2 DEF EventsAreRight, Readable
<1>3. CASE ~EpollWait
  <2>1. batch' \subseteq batch
    BY <1>3 DEF Next, vars, Client, Connect, Send, Leave, Exit, Server, Loop,
       BatchEnds, RunEnds, DispatchListen, DispatchIn, DispatchOut, Accepts,
       Accept, AcceptFails, Reads, RecvData, RecvZero, RecvFails, ReadStops
  <2>2. ASSUME NEW c \in Conn, c # cur, peer[c] # "none", sock[c] = "open",
               Readable(c)
        PROVE  Readable(c)'
    <3>1. CASE \E d \in Conn : Connect(d) \/ Send(d) \/ Leave(d)
      <4>1. PICK d \in Conn : Connect(d) \/ Send(d) \/ Leave(d)
        BY <3>1
      <4>2. CASE Connect(d)
        BY <2>2, <4>2 DEF Connect, Readable, IInv, TypeOK
      <4>3. CASE Send(d)
        BY <2>2, <4>3, ConnAssumption DEF Send, Readable, IInv, TypeOK
      <4>4. CASE Leave(d)
        BY <2>2, <4>4 DEF Leave, Readable, IInv, TypeOK
      <4>5. QED
        BY <4>1, <4>2, <4>3, <4>4
    <3>2. CASE RecvData
      BY <2>2, <3>2 DEF RecvData, Readable, IInv, TypeOK
    <3>3. CASE ~RecvData /\ ~\E d \in Conn : Connect(d) \/ Send(d) \/ Leave(d)
      <4>1. inq' = inq /\ peer' = peer
        BY <1>3, <3>3 DEF Next, vars, net, Client, Exit, Server, Loop, BatchEnds,
           RunEnds, DispatchListen, DispatchIn, DispatchOut, Accepts, Accept,
           AcceptFails, Reads, RecvZero, RecvFails, ReadStops
      <4>2. QED
        BY <2>2, <4>1 DEF Readable
    <3>4. QED
      BY <3>1, <3>2, <3>3
  <2>3. QED
    BY <1>1, <2>1, <2>2 DEF EventsAreRight
<1>4. QED
  BY <1>2, <1>3

\* What one connection sees of the loop.
Contract(c) == INSTANCE ReadCallback WITH
    unread <- inq[c],
    peer   <- peer[c],
    at     <- IF sock[c] = "closed" THEN "closed"
              ELSE IF cur = c THEN "callback" ELSE "loop"

\* A step that concerns another connection, or none.
LEMMA ElsewhereStep ==
    ASSUME TypeOK, TypeOK', NEW c \in Conn, cur # c, cur' # c,
           inq'[c] = inq[c], peer'[c] = peer[c], isExit' = isExit,
           sock'[c] = "closed" <=> sock[c] = "closed"
    PROVE  Contract(c)!Next
BY DEF TypeOK, Contract!Next, Contract!Loop, Contract!Elsewhere

\* What the steps of clients and of the signal handler are to a connection.
LEMMA WorldContract ==
    ASSUME IInv, HasPeer, NEW c \in Conn, Client \/ Exit
    PROVE  [Contract(c)!Next]_(Contract(c)!vars)
<1> USE DEF Contract!Next, Contract!World, Contract!vars
<1>1. CASE Exit
  <2>1. Contract(c)!Exit
    BY <1>1 DEF Exit, Contract!Exit, net
  <2>2. QED
    BY <2>1
<1>2. CASE \E d \in Conn : Connect(d) \/ Send(d) \/ Leave(d)
  <2>1. PICK d \in Conn : Connect(d) \/ Send(d) \/ Leave(d)
    BY <1>2
  <2>2. UNCHANGED <<errno, cur, isExit>>
    BY <2>1 DEF Connect, Send, Leave
  <2>3. CASE d # c
    <3>1. inq'[c] = inq[c] /\ peer'[c] = peer[c] /\ sock'[c] = sock[c]
      BY <2>1, <2>3 DEF Connect, Send, Leave, IInv, TypeOK
    <3>2. UNCHANGED Contract(c)!vars
      BY <2>2, <3>1
    <3>3. QED
      BY <3>2
  <2>4. CASE d = c /\ Connect(d)
    <3>1. /\ peer[c] = "none" /\ peer'[c] = "open" /\ inq'[c] = inq[c]
          /\ sock[c] = "none" /\ sock'[c] = "backlog"
      BY <2>4 DEF Connect, HasPeer, IInv, TypeOK
    <3>2. Contract(c)!Connects
      BY <2>2, <3>1 DEF Contract!Connects
    <3>3. QED
      BY <3>2
  <2>5. CASE d = c /\ Send(d)
    <3>1. /\ peer[c] = "open" /\ peer' = peer /\ sock' = sock
          /\ inq'[c] = inq[c] + 1 /\ inq[c] \in Nat
      BY <2>5, ConnAssumption DEF Send, IInv, TypeOK
    <3>2. Contract(c)!Arrive
      BY <2>2, <3>1 DEF Contract!Arrive
    <3>3. QED
      BY <3>2
  <2>6. CASE d = c /\ Leave(d)
    <3>1. /\ peer[c] = "open" /\ peer'[c] \in {"fin", "rst"}
          /\ inq' = inq /\ sock' = sock
      BY <2>6 DEF Leave, IInv, TypeOK
    <3>2. Contract(c)!PeerLeaves
      BY <2>2, <3>1 DEF Contract!PeerLeaves
    <3>3. QED
      BY <3>2
  <2>7. QED
    BY <2>1, <2>3, <2>4, <2>5, <2>6
<1>3. QED
  BY <1>1, <1>2 DEF Client

\* The loop calls the callback of c for an event that is right; all else it
\* does concerns c no more than errno does.
LEMMA LoopContract ==
    ASSUME IInv, IInv', HasPeer, EventsAreRight, NEW c \in Conn, Loop \/ Accepts
    PROVE  [Contract(c)!Next]_(Contract(c)!vars)
<1>1. cur # c
  <2>1. pc # "read"
    BY DEF Loop, EpollWait, BatchEnds, RunEnds, DispatchListen, DispatchIn,
       DispatchOut, Accepts, Accept, AcceptFails
  <2>2. QED
    BY <2>1, ConnAssumption DEF IInv, WatchedAreOpen
<1>2. inq' = inq /\ peer' = peer /\ isExit' = isExit
  BY DEF Loop, EpollWait, BatchEnds, RunEnds, DispatchListen, DispatchIn,
     DispatchOut, Accepts, Accept, AcceptFails, net
<1>3. sock'[c] = "closed" <=> sock[c] = "closed"
  <2>1. CASE \E d \in Conn : Accept(d)
    BY <2>1 DEF Accept, Backlog, IInv, TypeOK
  <2>2. CASE Loop \/ AcceptFails
    <3>1. sock' = sock
      BY <2>2 DEF Loop, EpollWait, BatchEnds, RunEnds, DispatchListen, DispatchIn,
         DispatchOut, AcceptFails
    <3>2. QED
      BY <3>1
  <2>3. QED
    BY <2>1, <2>2 DEF Accepts
<1>4. CASE cur' # c
  BY <1>1, <1>2, <1>3, <1>4, ElsewhereStep DEF IInv
<1>5. CASE cur' = c
  <2>1. PICK event \in batch : DispatchIn(event) /\ event.who = c
    BY <1>1, <1>5 DEF Loop, EpollWait, BatchEnds, RunEnds, DispatchListen,
       DispatchIn, DispatchOut, Accepts, Accept, AcceptFails
  <2>2. /\ event.in /\ sock' = sock /\ errno' = errno
        /\ event.who \in registered \cup {Listen}
    BY <2>1 DEF DispatchIn, IInv, WatchedAreOpen
  <2>3. Readable(c)
    BY <2>1, <2>2 DEF EventsAreRight
  <2>4. sock[c] = "open" /\ peer[c] \in {"open", "fin", "rst"}
    BY <2>1, <2>2, ConnAssumption DEF HasPeer, IInv, TypeOK, WatchedAreOpen
  <2>5. Contract(c)!Call
    BY <1>1, <1>2, <1>5, <2>2, <2>3, <2>4 DEF Contract!Call, Readable
  <2>6. QED
    BY <2>5 DEF Contract!Next, Contract!Loop
<1>6. QED
  BY <1>4, <1>5

\* A callback and what the loop does on its code.
LEMMA CallbackContract ==
    ASSUME IInv, IInv', HasPeer, NEW c \in Conn, Reads
    PROVE  [Contract(c)!Next]_(Contract(c)!vars)
<1>1. /\ pc = "read" /\ cur \in Conn /\ sock[cur] = "open"
      /\ peer[cur] \in {"open", "fin", "rst"} /\ inq[cur] \in Nat
  BY ConnAssumption DEF Reads, RecvData, RecvZero, RecvFails, ReadStops, IInv,
     TypeOK, WatchedAreOpen, HasPeer
<1>2. /\ peer' = peer /\ isExit' = isExit
      /\ cur' = cur \/ cur' = None
  BY DEF Reads, RecvData, RecvZero, RecvFails, ReadStops, Returned, net
<1>3. CASE cur # c
  <2>1. inq'[c] = inq[c]
    BY <1>3 DEF Reads, RecvData, RecvZero, RecvFails, ReadStops, net, IInv, TypeOK
  <2>2. sock'[c] = sock[c]
    BY <1>3 DEF Reads, RecvData, RecvZero, RecvFails, ReadStops, Returned, ReadOk,
       CloseConnection, IInv, TypeOK
  <2>3. cur' # c
    BY <1>2, <1>3, ConnAssumption
  <2>4. QED
    BY <1>2, <1>3, <2>1, <2>2, <2>3, ElsewhereStep DEF IInv
<1>4. ASSUME NEW code \in Int, cur = c, Returned(code)
      PROVE  Contract(c)!Return(code)
  <2>1. cur' = None /\ None # c
    BY <1>4, ConnAssumption DEF Returned
  <2>2. CASE code >= 0
    <3>1. sock'[c] = "open"
      BY <1>1, <1>4, <2>2 DEF Returned, IsOk, ReadOk
    <3>2. QED
      BY <2>1, <2>2, <3>1 DEF Contract!Return
  <2>3. CASE code < 0
    <3>1. sock'[c] = "closed"
      BY <1>1, <1>4, <2>3 DEF Returned, IsOk, CloseConnection, IInv, TypeOK
    <3>2. QED
      BY <2>1, <2>3, <3>1 DEF Contract!Return
  <2>4. QED
    BY <1>4, <2>2, <2>3
<1>5. CASE cur = c /\ RecvData
  <2>1. PICK n \in 1 .. inq[cur] : inq' = [inq EXCEPT ![cur] = @ - n]
    BY <1>5 DEF RecvData
  <2>2. inq'[c] \in 0 .. inq[c] - 1
    BY <1>1, <1>5, <2>1 DEF IInv, TypeOK
  <2>3. ~isExit /\ errno' \in {errno, "other"} /\ cur' = cur /\ sock' = sock
    BY <1>5 DEF RecvData, Looping
  <2>4. Contract(c)!RecvData
    BY <1>1, <1>2, <1>5, <2>2, <2>3 DEF Contract!RecvData, Contract!InCallback
  <2>5. QED
    BY <2>4 DEF Contract!Next, Contract!Callback
<1>6. CASE cur = c /\ RecvZero
  <2>1. /\ ~isExit /\ inq' = inq /\ errno' = errno
        /\ inq[c] = 0 => peer[c] = "fin"
        /\ Returned(IF errno = "EAGAIN" THEN 0 ELSE -1)
    BY <1>6 DEF RecvZero, Looping, net
  <2>2. Contract(c)!Return(IF errno = "EAGAIN" THEN 0 ELSE -1)
    BY <1>4, <1>6, <2>1
  <2>3. Contract(c)!RecvZero
    BY <1>1, <1>2, <1>6, <2>1, <2>2 DEF Contract!RecvZero, Contract!InCallback
  <2>4. QED
    BY <2>3 DEF Contract!Next, Contract!Callback
<1>7. CASE cur = c /\ RecvFails
  <2>1. /\ ~isExit /\ inq' = inq /\ inq[c] = 0 /\ peer[c] # "fin"
        /\ errno' = IF peer[c] = "open" THEN "EAGAIN" ELSE "other"
        /\ Returned(IF peer[c] = "open" THEN 0 ELSE -1)
    BY <1>7 DEF RecvFails, Looping, net
  <2>2. Contract(c)!Return(IF peer[c] = "open" THEN 0 ELSE -1)
    BY <1>4, <1>7, <2>1
  <2>3. Contract(c)!RecvFails
    BY <1>1, <1>2, <1>7, <2>1, <2>2 DEF Contract!RecvFails, Contract!InCallback
  <2>4. QED
    BY <2>3 DEF Contract!Next, Contract!Callback
<1>8. CASE cur = c /\ ReadStops
  <2>1. isExit /\ inq' = inq /\ errno' = errno /\ Returned(0)
    BY <1>8 DEF ReadStops, Looping, net
  <2>2. Contract(c)!Return(0)
    BY <1>4, <1>8, <2>1
  <2>3. Contract(c)!Stops
    BY <1>1, <1>2, <1>8, <2>1, <2>2 DEF Contract!Stops
  <2>4. QED
    BY <2>3 DEF Contract!Next, Contract!Callback
<1>9. QED
  BY <1>3, <1>5, <1>6, <1>7, <1>8 DEF Reads

\* Towards every connection the loop keeps what ReadCallback says: it calls
\* back only where there is something to read, however long the event has
\* waited in its batch, and closes only on the code of the callback.
THEOREM LoopKeepsContract ==
    ASSUME NEW c \in Conn
    PROVE  Spec => Contract(c)!Spec
<1>1. Init => Contract(c)!Init
  BY ConnAssumption DEF Init, Contract!Init
<1>2. Init => HasPeer /\ EventsAreRight
  BY DEF Init, HasPeer, EventsAreRight
<1>3. IInv /\ HasPeer /\ EventsAreRight /\ [Next]_vars => HasPeer' /\ EventsAreRight'
  BY NextHasPeer, NextEventsAreRight
<1>4. IInv /\ IInv' /\ HasPeer /\ EventsAreRight /\ [Next]_vars
         => [Contract(c)!Next]_(Contract(c)!vars)
  <2> SUFFICES ASSUME IInv, IInv', HasPeer, EventsAreRight, [Next]_vars
               PROVE  [Contract(c)!Next]_(Contract(c)!vars)
    OBVIOUS
  <2>1. CASE UNCHANGED vars
    BY <2>1 DEF vars, net, Contract!vars
  <2>2. CASE Client \/ Exit
    BY <2>2, WorldContract
  <2>3. CASE Loop \/ Accepts
    BY <2>3, LoopContract
  <2>4. CASE Reads
    BY <2>4, CallbackContract
  <2>5. QED
    BY <2>1, <2>2, <2>3, <2>4 DEF Next, Server
<1>5. QED
  BY <1>1, <1>2, <1>3, <1>4, SpecIInv, PTL DEF Spec, Contract!Spec
=============================================================================
