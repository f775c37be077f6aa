--------------------------- MODULE ClientNetProofs ---------------------------
(***************************************************************************)
(* Proofs about ClientNet, for all data, sizes and failures: types, what   *)
(* the client hands to TCP over all its connections, and its shutdown.     *)
(***************************************************************************)
EXTENDS ClientNet, SequenceTheorems, TLAPS

\* The network thread sends on a socket; main has joined what it is past.
LifeInv ==
    /\ thread["net"] = "send" => sock # 0
    /\ app = "init" => at <= Len(CreateOrder) + 1
    /\ app = "join" => \A j \in 1 .. at - 1 : thread[JoinOrder[j]] \in Stopped
    /\ app = "closed" => \A t \in Thread : thread[t] \in Stopped

Orders == /\ Len(CreateOrder) = 3 /\ Len(JoinOrder) = 4
          /\ \A i \in 1 .. 3 : CreateOrder[i] \in {"net", "status", "deal"}
          /\ \A j \in 1 .. 4 : JoinOrder[j] \in Thread
          /\ \A t \in Thread : \E j \in 1 .. 4 : t = JoinOrder[j]

LEMMA OrdersAreRight == Orders
<1>1. /\ Len(CreateOrder) = 3
      /\ CreateOrder[1] = "net" /\ CreateOrder[2] = "status" /\ CreateOrder[3] = "deal"
      BY DEF CreateOrder
<1>2. /\ Len(JoinOrder) = 4
      /\ JoinOrder[1] = "net" /\ JoinOrder[2] = "deal"
      /\ JoinOrder[3] = "status" /\ JoinOrder[4] = "free"
      BY DEF JoinOrder
<1>3. \A i \in 1 .. 3 : i = 1 \/ i = 2 \/ i = 3
      OBVIOUS
<1>4. \A j \in 1 .. 4 : j = 1 \/ j = 2 \/ j = 3 \/ j = 4
      OBVIOUS
<1>5. \A i \in 1 .. 3 : CreateOrder[i] \in {"net", "status", "deal"}
      BY <1>1, <1>3
<1>6. \A j \in 1 .. 4 : JoinOrder[j] \in Thread
      BY <1>2, <1>4 DEF Thread
<1>7. \A t \in Thread : \E j \in 1 .. 4 : t = JoinOrder[j]
      BY <1>2 DEF Thread
<1>8. QED
      BY <1>1, <1>2, <1>5, <1>6, <1>7 DEF Orders

-----------------------------------------------------------------------------
(* The units of one send *)

Piece(n) == [k \in 1 .. n |-> [conn |-> sock, no |-> cur, unit |-> sent + k]]

LEMMA Handing ==
    ASSUME TypeOK, sock # 0, NEW n \in 1 .. want, handed' = handed \o Piece(n)
    PROVE  /\ handed' \in Seq(Unit)
           /\ Len(handed') = Len(handed) + n
           /\ \A i \in 1 .. Len(handed) : handed'[i] = handed[i]
           /\ \A k \in 1 .. n : handed'[Len(handed) + k] =
                    [conn |-> sock, no |-> cur, unit |-> sent + k]
<1>1. /\ want \in Nat /\ sent \in Nat /\ handed \in Seq(Unit) /\ n \in Nat
      /\ sock \in Nat \ {0} /\ cur \in Nat \ {0}
      BY DEF TypeOK
<1>2. Piece(n) \in Seq(Unit) /\ Len(Piece(n)) = n
      BY <1>1 DEF Piece, Unit
<1>3. /\ handed' \in Seq(Unit) /\ Len(handed') = Len(handed) + n
      /\ \A i \in 1 .. Len(handed) + n :
            handed'[i] = IF i <= Len(handed) THEN handed[i] ELSE Piece(n)[i - Len(handed)]
      BY <1>1, <1>2, ConcatProperties
<1>4. Len(handed) \in Nat
      BY <1>1
<1>5. ASSUME NEW k \in 1 .. n
      PROVE  handed'[Len(handed) + k] = Piece(n)[k]
      <2>1. /\ Len(handed) + k \in 1 .. Len(handed) + n
            /\ ~(Len(handed) + k <= Len(handed)) /\ Len(handed) + k - Len(handed) = k
            BY <1>1, <1>4
      <2>2. QED
            BY <1>3, <2>1
<1>6. ASSUME NEW i \in 1 .. Len(handed)
      PROVE  handed'[i] = handed[i]
      <2>1. i \in 1 .. Len(handed) + n /\ i <= Len(handed)
            BY <1>1, <1>4
      <2>2. QED
            BY <1>3, <2>1
<1>7. \A k \in 1 .. n : Piece(n)[k] = [conn |-> sock, no |-> cur, unit |-> sent + k]
      BY DEF Piece
<1>8. QED
      BY <1>3, <1>5, <1>6, <1>7

-----------------------------------------------------------------------------
(* Types *)

LEMMA InitType == Init => TypeOK /\ LifeInv
<1> SUFFICES ASSUME Init PROVE TypeOK /\ LifeInv
    OBVIOUS
<1>1. at \in 1 .. Len(JoinOrder) + 1 /\ at <= Len(CreateOrder) + 1
      BY OrdersAreRight DEF Init, Orders
<1>2. given \in Seq(Data) /\ queue \in Seq(accepted) /\ handed \in Seq(Unit)
      BY DEF Init
<1>3. thread \in [Thread -> {"none"}]
      BY DEF Init
<1>4. /\ thread \in [Thread -> Stopped \cup {"loop", "connect", "retry", "recv", "send"}]
      /\ thread["status"] \in Stopped \cup {"loop"}
      /\ thread["deal"] \in Stopped \cup {"loop"} /\ thread["free"] = "none"
      BY <1>3 DEF Thread, Stopped
<1>5. isExit \in BOOLEAN /\ networkError \in BOOLEAN /\ linkUp \in BOOLEAN
      BY DEF Init
<1>6. TypeOK
      BY <1>1, <1>2, <1>4, <1>5 DEF Init, TypeOK
<1>7. LifeInv
      BY <1>1, <1>3 DEF Init, LifeInv, Thread
<1>8. QED
      BY <1>6, <1>7

\* Steps that concern neither the data nor the socket.
LEMMA ThreadStep ==
    ASSUME TypeOK, LifeInv, UNCHANGED <<link, api, queue, sends>>,
           \/ Create \/ Created \/ Close \/ Join \/ LoopTest \/ StillConnected
           \/ Retry \/ RecvNothing \/ NothingToSend \/ SendFails
           \/ \E t \in {"status", "deal"} : LoopEnds(t)
    PROVE  TypeOK'
<1> USE OrdersAreRight DEF Orders
<1>1. /\ isExit' \in BOOLEAN /\ app' \in {"init", "run", "join", "closed", "crashed"}
      /\ at' \in 1 .. Len(JoinOrder) + 1
      <2>1. /\ isExit \in BOOLEAN /\ app \in {"init", "run", "join", "closed", "crashed"}
            /\ at \in 1 .. 5
            BY DEF TypeOK
      <2>2. CASE Create \/ Join
            BY <2>1, <2>2 DEF Create, Join
      <2>3. CASE Created \/ Close
            <3>1. isExit' \in BOOLEAN
                  BY <2>1, <2>3 DEF Created, Close
            <3>2. at' \in 1 .. 5 /\ app' \in {"run", "join"}
                  BY <2>1, <2>3 DEF Created, Close
            <3>3. QED
                  BY <3>1, <3>2
      <2>4. CASE ~(Create \/ Join \/ Created \/ Close)
            BY <2>1, <2>4 DEF LoopTest, StillConnected, Retry, RecvNothing,
                              NothingToSend, SendFails, LoopEnds, caller
      <2>5. QED
            BY <2>2, <2>3, <2>4
<1>2. \/ thread' = thread
      \/ \E t \in {"net", "status", "deal"} :
            thread' = [thread EXCEPT ![t] = "loop"] \/ thread' = [thread EXCEPT ![t] = "failed"]
      \/ \E s \in {"ended", "connect", "recv", "send", "loop"} :
            thread' = [thread EXCEPT !["net"] = s]
      \/ \E t \in {"status", "deal"} : thread' = [thread EXCEPT ![t] = "ended"]
      <2>1. CASE Create
            <3>1. CreateOrder[at] \in {"net", "status", "deal"}
                  BY <2>1 DEF Create, TypeOK
            <3>2. QED
                  BY <2>1, <3>1 DEF Create, Goes
      <2>2. CASE Created \/ Close \/ Join
            BY <2>2 DEF Created, Close, Join
      <2>3. CASE LoopTest \/ StillConnected \/ Retry
            BY <2>3 DEF LoopTest, StillConnected, Retry, Net, Goes
      <2>4. CASE RecvNothing \/ NothingToSend \/ SendFails
            BY <2>4 DEF RecvNothing, NothingToSend, SendFails, Net, Goes
      <2>5. CASE \E t \in {"status", "deal"} : LoopEnds(t)
            BY <2>5 DEF LoopEnds, Goes
      <2>6. QED
            BY <2>1, <2>2, <2>3, <2>4, <2>5
<1>3. /\ thread' \in [Thread -> Stopped \cup {"loop", "connect", "retry", "recv", "send"}]
      /\ thread'["status"] \in Stopped \cup {"loop"}
      /\ thread'["deal"] \in Stopped \cup {"loop"} /\ thread'["free"] = "none"
      BY <1>2 DEF TypeOK, Thread, Stopped
<1>4. QED
      BY <1>1, <1>3 DEF TypeOK, link, api, sends

LEMMA NextType == TypeOK /\ LifeInv /\ [Next]_vars => TypeOK'
<1> SUFFICES ASSUME TypeOK, LifeInv, [Next]_vars PROVE TypeOK'
    OBVIOUS
<1>1. CASE UNCHANGED vars
      BY <1>1 DEF vars, caller, link, api, sends, TypeOK
<1>2. CASE \/ Create \/ Created \/ Close \/ Join \/ LoopTest \/ StillConnected
           \/ Retry \/ RecvNothing \/ NothingToSend \/ SendFails
           \/ \E t \in {"status", "deal"} : LoopEnds(t)
      <2>1. UNCHANGED <<link, api, queue, sends>>
            BY <1>2 DEF Create, Created, Close, Join, LoopTest, StillConnected, Retry,
                        RecvNothing, NothingToSend, SendFails, LoopEnds
      <2>2. QED
            BY <1>2, <2>1, ThreadStep
<1>3. CASE \E d \in Data : SendPcm(d)
      <2>1. PICK d \in Data : SendPcm(d)
            BY <1>3
      <2>2. given' \in Seq(Data) /\ Len(given') = Len(given) + 1 /\ Len(given) \in Nat
            BY <2>1 DEF SendPcm, TypeOK
      <2>3. accepted \subseteq accepted' /\ accepted' \subseteq 1 .. Len(given')
            <3>1. accepted \subseteq 1 .. Len(given)
                  BY DEF TypeOK
            <3>2. accepted' = accepted \/ accepted' = accepted \cup {Len(given) + 1}
                  BY <2>1 DEF SendPcm
            <3>3. 1 .. Len(given') = (1 .. Len(given)) \cup {Len(given) + 1}
                  BY <2>2
            <3>4. QED
                  BY <3>1, <3>2, <3>3
      <2>4. queue' \in Seq(accepted')
            <3>1. queue \in Seq(accepted')
                  BY <2>3, SeqMonotonic DEF TypeOK
            <3>2. CASE queue' = Append(queue, Len(given) + 1)
                              /\ accepted' = accepted \cup {Len(given) + 1}
                  BY <3>1, <3>2
            <3>3. QED
                  BY <2>1, <3>1, <3>2 DEF SendPcm
      <2>5. QED
            BY <2>1, <2>2, <2>3, <2>4 DEF SendPcm, TypeOK, caller, link, sends
<1>4. CASE Closed \/ Break \/ Connected \/ ConnectFails \/ RecvLost
      <2>1. /\ app' \in {"init", "run", "join", "closed", "crashed"}
            /\ UNCHANGED <<isExit, at, api, queue, sends>>
            BY <1>4 DEF Closed, Break, Connected, ConnectFails, RecvLost, caller, TypeOK
      <2>2. /\ networkError' \in BOOLEAN /\ linkUp' \in BOOLEAN
            /\ conns' \in Nat /\ sock' \in 0 .. conns' /\ open' \subseteq 1 .. conns'
            <3>1. /\ networkError \in BOOLEAN /\ linkUp \in BOOLEAN
                  /\ conns \in Nat /\ sock \in 0 .. conns /\ open \subseteq 1 .. conns
                  BY DEF TypeOK
            <3>2. networkError' \in BOOLEAN /\ linkUp' \in BOOLEAN
                  BY <1>4, <3>1 DEF Closed, Break, Connected, ConnectFails, RecvLost
            <3>3. CASE Connected
                  BY <3>1, <3>2, <3>3 DEF Connected
            <3>4. CASE Closed \/ Break \/ ConnectFails \/ RecvLost
                  <4>1. /\ conns' = conns /\ sock' \in {0, sock}
                        /\ open' \subseteq open
                        BY <3>4 DEF Closed, Break, ConnectFails, RecvLost
                  <4>2. QED
                        BY <3>1, <3>2, <4>1
            <3>5. QED
                  BY <1>4, <3>3, <3>4
      <2>3. \/ thread' = thread
            \/ \E s \in {"recv", "retry", "loop"} : thread' = [thread EXCEPT !["net"] = s]
            BY <1>4 DEF Closed, Break, Connected, ConnectFails, RecvLost, Net, Goes
      <2>4. QED
            BY <2>1, <2>2, <2>3 DEF TypeOK, api, sends, Thread, Stopped
<1>5. CASE TakeNext
      <2>1. cur' \in accepted /\ queue' \in Seq(accepted) /\ want' = given[cur'].want
            BY <1>5 DEF TakeNext, TypeOK
      <2>2. want' \in Nat
            <3>1. cur' \in 1 .. Len(given)
                  BY <2>1 DEF TypeOK
            <3>2. given[cur'] \in Data
                  BY <3>1 DEF TypeOK
            <3>3. QED
                  BY <2>1, <3>2, DataAssumption
      <2>3. QED
            BY <1>5, <2>1, <2>2 DEF TakeNext, Net, Goes, TypeOK, caller, link, api,
                                    Thread, Stopped
<1>6. ASSUME NEW n \in 1 .. want, SendSome(n)
      PROVE  TypeOK'
      <2>1. sock # 0 /\ handed' = handed \o Piece(n)
            BY <1>6 DEF SendSome, Net, Goes, LifeInv, Piece
      <2>2. handed' \in Seq(Unit)
            BY <2>1, Handing
      <2>3. want' \in Nat /\ sent' \in Nat
            BY <1>6 DEF SendSome, TypeOK
      <2>4. cur' = cur /\ (want' > 0 => want > 0)
            BY <1>6 DEF SendSome, TypeOK
      <2>5. QED
            BY <1>6, <2>2, <2>3, <2>4 DEF SendSome, Net, Goes, TypeOK, caller, link,
                                          api, Thread, Stopped
<1>7. QED
      BY <1>1, <1>2, <1>3, <1>4, <1>5, <1>6
      DEF Next, Caller, Connect, Send, NetWork
-----------------------------------------------------------------------------
(* Shutdown *)

\* After the threads were created, a thread that has stopped stays so.
LEMMA StoppedStay ==
    ASSUME TypeOK, Next, ~Create
    PROVE  \A t \in Thread : thread[t] \in Stopped => thread'[t] \in Stopped
<1>1. \/ thread' = thread
      \/ \E t \in Thread : /\ thread[t] \notin Stopped
                          /\ \A u \in Thread : u # t => thread'[u] = thread[u]
      <2>1. CASE Created \/ Close \/ Join \/ Closed \/ Break
            BY <2>1 DEF Created, Close, Join, Closed, Break
      <2>2. CASE \E d \in Data : SendPcm(d)
            BY <2>2 DEF SendPcm
      <2>3. CASE \E t \in {"status", "deal"} : LoopEnds(t)
            BY <2>3 DEF LoopEnds, Goes, Thread, Stopped, TypeOK
      <2>4. CASE NetWork
            BY <2>4 DEF TypeOK, NetWork, Connect, Send, LoopTest, StillConnected, Connected,
                        ConnectFails, Retry, RecvNothing, RecvLost, NothingToSend,
                        TakeNext, SendFails, SendSome, Net, Goes, Thread, Stopped
      <2>5. QED
            BY <2>1, <2>2, <2>3, <2>4 DEF Next, Caller
<1>2. QED
      BY <1>1 DEF TypeOK

\* The network thread reaches the place where it sends on a socket only.
LEMMA SendsOnSocket ==
    ASSUME TypeOK, LifeInv, Next
    PROVE  thread'["net"] = "send" => sock' # 0
<1>1. CASE Closed
      <2>1. thread["net"] \in Stopped
            <3>1. 1 \in 1 .. at - 1 /\ JoinOrder[1] = "net"
                  BY <1>1, OrdersAreRight DEF Closed, Orders, JoinOrder, TypeOK
            <3>2. QED
                  BY <1>1, <3>1 DEF Closed, LifeInv
      <2>2. QED
            BY <1>1, <2>1 DEF Closed, Stopped
<1>2. CASE Create
      <2>1. /\ CreateOrder[at] \in Thread
            /\ \/ thread' = [thread EXCEPT ![CreateOrder[at]] = "loop"]
               \/ thread' = [thread EXCEPT ![CreateOrder[at]] = "failed"]
            BY <1>2, OrdersAreRight DEF Create, Goes, Orders, TypeOK, Thread
      <2>2. QED
            BY <1>2, <2>1 DEF Create, link, LifeInv, TypeOK, Thread
<1>3. CASE Created \/ Close \/ Join \/ Break \/ \E d \in Data : SendPcm(d)
      BY <1>3 DEF Created, Close, Join, Break, SendPcm, link, LifeInv
<1>4. CASE \E t \in {"status", "deal"} : LoopEnds(t)
      BY <1>4 DEF LoopEnds, Goes, link, LifeInv, TypeOK, Thread
<1>5. CASE NetWork
      BY <1>5 DEF NetWork, Connect, Send, LoopTest, StillConnected, Connected,
                  ConnectFails, Retry, RecvNothing, RecvLost, NothingToSend,
                  TakeNext, SendFails, SendSome, Net, Goes, link, LifeInv, TypeOK, Thread
<1>6. QED
      BY <1>1, <1>2, <1>3, <1>4, <1>5 DEF Next, Caller

LEMMA NextLife == TypeOK /\ LifeInv /\ [Next]_vars => LifeInv'
<1> SUFFICES ASSUME TypeOK, LifeInv, [Next]_vars PROVE LifeInv'
    OBVIOUS
<1> USE OrdersAreRight DEF Orders
<1>1. CASE UNCHANGED vars
      BY <1>1 DEF vars, caller, link, LifeInv
<1>2. CASE Next /\ UNCHANGED <<app, at>>
      <2>1. ~Create
            BY <1>2 DEF Create, TypeOK
      <2>2. \A t \in Thread : thread[t] \in Stopped => thread'[t] \in Stopped
            BY <1>2, <2>1, StoppedStay
      <2>3. QED
            <3>1. app = "join" => \A j \in 1 .. at - 1 : JoinOrder[j] \in Thread
                  BY DEF TypeOK
            <3>2. QED
                  BY <1>2, <2>2, <3>1, SendsOnSocket DEF LifeInv
<1>3. CASE Next /\ Create
      BY <1>3, SendsOnSocket DEF Create, LifeInv, TypeOK
<1>4. CASE Next /\ (Created \/ Close)
      BY <1>4, SendsOnSocket DEF Created, Close, LifeInv
<1>5. CASE Next /\ Join
      <2>1. thread' = thread /\ app = "join" /\ at \in 1 .. 4
            BY <1>5 DEF Join, TypeOK
      <2>2. CASE at' = at + 1 /\ app' = app /\ thread[JoinOrder[at]] \in Stopped
            <3>1. \A j \in 1 .. at' - 1 : j \in 1 .. at - 1 \/ j = at
                  BY <2>1, <2>2
            <3>2. QED
                  BY <1>5, <2>1, <2>2, <3>1, SendsOnSocket DEF LifeInv
      <2>3. CASE app' = "crashed"
            BY <1>5, <2>1, <2>3, SendsOnSocket DEF LifeInv
      <2>4. QED
            BY <1>5, <2>2, <2>3 DEF Join, Stopped
<1>6. CASE Next /\ Closed
      <2>1. at = 5 /\ app = "join" /\ thread' = thread /\ app' = "closed"
            BY <1>6 DEF Closed, TypeOK
      <2>2. \A t \in Thread : thread[t] \in Stopped
            <3>1. \A j \in 1 .. 4 : thread[JoinOrder[j]] \in Stopped
                  BY <2>1 DEF LifeInv
            <3>2. QED
                  BY <3>1
      <2>3. QED
            BY <1>6, <2>1, <2>2, SendsOnSocket DEF LifeInv
<1>7. QED
      <2>1. CASE Next /\ Caller
            BY <2>1, <1>3, <1>4, <1>5, <1>6 DEF Caller
      <2>2. CASE Next /\ Close
            BY <2>2, <1>4
      <2>3. CASE Next /\ ~Caller /\ ~Close
            <3>1. UNCHANGED <<app, at>>
                  BY <2>3 DEF Next, NetWork, Connect, Send, LoopTest, StillConnected,
                        Connected, ConnectFails, Retry, RecvNothing, RecvLost,
                        NothingToSend, TakeNext, SendFails, SendSome, Break, SendPcm,
                        LoopEnds, caller
            <3>2. QED
                  BY <2>3, <3>1, <1>2
      <2>4. QED
            BY <1>1, <2>1, <2>2, <2>3

\* Every variable has its type, whatever the data and the failures.
THEOREM TypeCorrect == Spec => []TypeOK
<1>1. Init => TypeOK /\ LifeInv
      BY InitType
<1>2. TypeOK /\ LifeInv /\ [Next]_vars => TypeOK' /\ LifeInv'
      BY NextType, NextLife
<1>3. QED
      BY <1>1, <1>2, PTL DEF Spec

\* ~ClientManagement returns only when the threads that use it have ended.
THEOREM ShutdownIsClean == Spec => []NoThreadOutlivesClient
<1>1. Init => TypeOK /\ LifeInv
      BY InitType
<1>2. TypeOK /\ LifeInv /\ [Next]_vars => TypeOK' /\ LifeInv'
      BY NextType, NextLife
<1>3. LifeInv => NoThreadOutlivesClient
      BY DEF LifeInv, NoThreadOutlivesClient
<1>4. QED
      BY <1>1, <1>2, <1>3, PTL DEF Spec
-----------------------------------------------------------------------------
(* What is handed to TCP *)

\* The queue holds, in order, just the accepted calls after cur.
QueueInv ==
    /\ \A i, j \in 1 .. Len(queue) : i < j => queue[i] < queue[j]
    /\ \A i \in 1 .. Len(queue) : cur < queue[i]
    /\ \A m \in accepted : cur < m => \E i \in 1 .. Len(queue) : queue[i] = m

Last == handed[Len(handed)]
MidMessage == want > 0 /\ sent > 0

\* The last unit handed to TCP is the one before what is sent next.
Reached ==
    IF MidMessage
    THEN Last.no = cur /\ Last.unit = sent
    ELSE /\ Last.unit = given[Last.no].want
         /\ Last.no <= cur /\ (want > 0 => Last.no < cur)
         /\ \A m \in accepted :
               Last.no < m /\ m <= cur /\ (want > 0 => m # cur) => given[m].want = 0

SendInv ==
    /\ want = 0 => sent = 0
    /\ want > 0 => sent + want = given[cur].want
    /\ \A i \in 1 .. Len(handed) : handed[i].no \in accepted
    /\ MidMessage => handed # <<>>
    /\ handed # <<>> => Reached

\* The data of call m has been dealt with.
Ended(m) == SentWhole(m) \/ SentCut(m)

\* What was sent of the message at hand went to TCP.
SentIsHanded == \A k \in 1 .. sent : Handed(cur, k)

OrderInv ==
    QueueInv /\ SendInv /\ SentIsHanded /\ UnitsInOrder /\ NothingDropped

\* The parts of TypeOK the data depends on, in plain numbers.
DataTyped ==
    /\ Len(given) \in Nat /\ Len(queue) \in Nat /\ Len(handed) \in Nat
    /\ accepted \subseteq 1 .. Len(given)
    /\ \A m \in 1 .. Len(given) : given[m].want \in Nat /\ given[m].size \in Nat \ {0}
    /\ \A i \in 1 .. Len(queue) : queue[i] \in accepted
    /\ cur \in 0 .. Len(given) /\ (want > 0 => cur \in accepted)
    /\ want \in Nat /\ sent \in Nat
    /\ \A i \in 1 .. Len(handed) : handed[i].no \in Nat /\ handed[i].unit \in Nat \ {0}
    /\ handed # <<>> <=> Len(handed) > 0

LEMMA DataIsTyped == TypeOK => DataTyped
<1> SUFFICES ASSUME TypeOK PROVE DataTyped
    OBVIOUS
<1>1. /\ given \in Seq(Data) /\ queue \in Seq(accepted) /\ handed \in Seq(Unit)
      /\ accepted \subseteq 1 .. Len(given) /\ cur \in accepted \cup {0}
      BY DEF TypeOK
<1>2. ASSUME NEW m \in 1 .. Len(given)
      PROVE  given[m].want \in Nat /\ given[m].size \in Nat \ {0}
      <2>1. given[m] \in Data
            BY <1>1
      <2>2. QED
            BY <2>1, DataAssumption
<1>3. \A i \in 1 .. Len(queue) : queue[i] \in accepted
      BY <1>1
<1>4. ASSUME NEW i \in 1 .. Len(handed)
      PROVE  handed[i].no \in Nat /\ handed[i].unit \in Nat \ {0}
      <2>1. handed[i] \in Unit
            BY <1>1
      <2>2. QED
            BY <2>1 DEF Unit
<1>5. handed # <<>> <=> Len(handed) > 0
      BY <1>1
<1>6. Len(given) \in Nat /\ Len(queue) \in Nat /\ Len(handed) \in Nat
      BY <1>1
<1>7. cur \in 0 .. Len(given)
      BY <1>1, <1>6
<1>8. QED
      BY <1>1, <1>2, <1>3, <1>4, <1>5, <1>6, <1>7 DEF DataTyped, TypeOK

LEMMA InitOrder == Init => OrderInv
BY DEF Init, OrderInv, QueueInv, SendInv, SentIsHanded, UnitsInOrder, NothingDropped,
       MidMessage

\* A call more, accepted or not, changes nothing about what was handed over.
LEMMA OrderAfterCall ==
    ASSUME TypeOK, OrderInv, NEW d \in Data, SendPcm(d)
    PROVE  OrderInv'
<1> DEFINE new == Len(given) + 1
<1>1. DataTyped
      BY DataIsTyped
<1>2. /\ UNCHANGED <<cur, want, sent, handed>>
      /\ \A m \in 1 .. Len(given) : given'[m] = given[m]
      /\ \/ queue' = Append(queue, new) /\ accepted' = accepted \cup {new}
         \/ queue' = queue /\ accepted' = accepted
      BY DEF SendPcm, sends, TypeOK
<1>3. queue \in Seq(accepted)
      BY DEF TypeOK
<1>4. /\ Len(queue) \in Nat /\ Len(given) \in Nat /\ cur < new
      /\ \A m \in accepted : m \in 1 .. Len(given) /\ m < new /\ m # new
      /\ \A i \in 1 .. Len(queue) : queue[i] < new
      <2>1. Len(queue) \in Nat /\ Len(given) \in Nat /\ cur \in 0 .. Len(given)
            BY <1>1 DEF DataTyped
      <2>2. \A m \in accepted : m \in 1 .. Len(given)
            BY <1>1 DEF DataTyped
      <2>3. \A i \in 1 .. Len(queue) : queue[i] \in accepted
            BY <1>1 DEF DataTyped
      <2>4. \A m \in 1 .. Len(given) : m < new /\ m # new
            BY <2>1
      <2>5. cur < new
            BY <2>1
      <2>6. QED
            BY <2>1, <2>2, <2>3, <2>4, <2>5
<1>5. \A m \in accepted : m \in accepted' /\ given'[m] = given[m]
      BY <1>2, <1>4
<1>6. \A m \in accepted' : m \in accepted \/ m = new
      BY <1>2
<1>7. QueueInv'
      <2>1. CASE queue' = queue /\ accepted' = accepted
            BY <1>2, <2>1 DEF OrderInv, QueueInv
      <2>2. CASE queue' = Append(queue, new) /\ accepted' = accepted \cup {new}
            <3>1. /\ Len(queue') = Len(queue) + 1 /\ queue'[Len(queue) + 1] = new
                  /\ \A i \in 1 .. Len(queue) : queue'[i] = queue[i]
                  BY <1>3, <2>2
            <3>2. \A i \in 1 .. Len(queue') : i \in 1 .. Len(queue) \/ i = Len(queue) + 1
                  BY <1>4, <3>1
            <3>3. \A i \in 1 .. Len(queue) : i \in 1 .. Len(queue')
                  BY <1>4, <3>1
            <3>4. \A i, j \in 1 .. Len(queue') : i < j => queue'[i] < queue'[j]
                  BY <1>4, <3>1, <3>2 DEF OrderInv, QueueInv
            <3>5. \A i \in 1 .. Len(queue') : cur < queue'[i]
                  BY <1>4, <3>1, <3>2 DEF OrderInv, QueueInv
            <3>6. \A m \in accepted' : cur < m => \E i \in 1 .. Len(queue') : queue'[i] = m
                  BY <1>4, <1>6, <3>1, <3>3 DEF OrderInv, QueueInv
            <3>7. QED
                  BY <1>2, <3>4, <3>5, <3>6 DEF QueueInv
      <2>3. QED
            BY <1>2, <2>1, <2>2
<1>8. SendInv'
      <2>1. SendInv /\ UNCHANGED Last /\ UNCHANGED MidMessage
            BY <1>2 DEF OrderInv, Last, MidMessage
      <2>2. handed # <<>> => Reached'
            <3>1. SUFFICES ASSUME handed # <<>> PROVE Reached'
                  OBVIOUS
            <3>2. Reached /\ Last.no \in accepted
                  BY <1>1, <2>1, <3>1 DEF SendInv, Last, DataTyped
            <3>3. \A m \in accepted' : m <= cur => m \in accepted
                  BY <1>1, <1>4, <1>6 DEF DataTyped
            <3>4. QED
                  BY <1>2, <1>5, <2>1, <3>2, <3>3 DEF Reached
      <2>3. want > 0 => given'[cur] = given[cur]
            BY <1>1, <1>5 DEF DataTyped
      <2>4. QED
            BY <1>2, <1>5, <2>1, <2>2, <2>3 DEF SendInv
<1>9. UnitsInOrder'
      <2>1. SUFFICES ASSUME NEW i \in 1 .. Len(handed) - 1
                     PROVE  Follows(handed[i], handed[i + 1])'
            BY <1>2 DEF UnitsInOrder
      <2>2. /\ handed[i].no \in accepted /\ handed[i + 1].no \in accepted
            /\ Follows(handed[i], handed[i + 1])
            BY <1>1 DEF OrderInv, SendInv, UnitsInOrder, DataTyped
      <2>3. \A m \in accepted' : m < handed[i + 1].no => m \in accepted
            BY <1>1, <1>4, <1>6, <2>2 DEF DataTyped
      <2>4. QED
            BY <1>2, <1>5, <2>2, <2>3 DEF Follows
<1>10. NothingDropped'
      <2>1. \A m \in accepted : Ended(m) => Ended(m)'
            BY <1>2, <1>5 DEF Ended, SentWhole, SentCut, Handed
      <2>2. \A m \in accepted' : m > cur => \E i \in 1 .. Len(queue') : queue'[i] = m
            BY <1>2, <1>7 DEF QueueInv
      <2>3. \A m \in accepted : m <= cur => ~ \E i \in 1 .. Len(queue) : queue[i] = m
            BY <1>1 DEF OrderInv, QueueInv, DataTyped
      <2>4. ASSUME NEW m \in accepted', m <= cur
            PROVE  m \in accepted /\ ((m = cur /\ want > 0) \/ Ended(m)')
            <3>1. m \in accepted
                  BY <1>1, <1>4, <1>6, <2>4 DEF DataTyped
            <3>2. QED
                  BY <2>1, <2>3, <2>4, <3>1 DEF OrderInv, NothingDropped, Ended
      <2>5. \A m \in accepted' : m \in Int
            BY <1>4, <1>6
      <2>6. QED
            BY <1>1, <1>2, <2>2, <2>4, <2>5 DEF NothingDropped, DataTyped, Ended
<1>11. SentIsHanded'
      BY <1>2 DEF OrderInv, SentIsHanded, Handed
<1>12. QED
      BY <1>7, <1>8, <1>9, <1>10, <1>11 DEF OrderInv

LEMMA OrderAfterTake ==
    ASSUME TypeOK, OrderInv, TakeNext
    PROVE  OrderInv'
<1>1. DataTyped
      BY DataIsTyped
<1>2. /\ UNCHANGED <<given, accepted, handed>>
      /\ want = 0 /\ sent' = 0 /\ want' = given[cur'].want
      /\ queue # <<>> /\ cur' = Head(queue) /\ queue' = Tail(queue)
      BY DEF TakeNext, api
<1>3. queue \in Seq(accepted)
      BY DEF TypeOK
<1>4. /\ Len(queue) > 0 /\ cur' = queue[1] /\ Len(queue') = Len(queue) - 1
      /\ \A i \in 1 .. Len(queue') : queue'[i] = queue[i + 1]
      BY <1>2, <1>3
<1>5. /\ Len(queue) \in Nat /\ cur \in Nat /\ accepted \subseteq Nat
      /\ \A i \in 1 .. Len(queue) : queue[i] \in accepted
      BY <1>1 DEF DataTyped
<1>6. /\ \A i \in 1 .. Len(queue') : i + 1 \in 1 .. Len(queue)
      /\ \A i \in 1 .. Len(queue) : i = 1 \/ i - 1 \in 1 .. Len(queue')
      /\ 1 \in 1 .. Len(queue)
      BY <1>4, <1>5
<1>7. \A i \in 1 .. Len(queue) : i # 1 => \E j \in 1 .. Len(queue') : queue'[j] = queue[i]
      <2>1. SUFFICES ASSUME NEW i \in 1 .. Len(queue), i # 1
                     PROVE  i - 1 \in 1 .. Len(queue') /\ queue'[i - 1] = queue[i]
            OBVIOUS
      <2>2. i - 1 \in 1 .. Len(queue') /\ i - 1 + 1 = i
            BY <1>5, <1>6, <2>1
      <2>3. QED
            BY <1>4, <2>2
<1>8. /\ cur < cur' /\ cur' \in accepted /\ cur' \in Nat
      /\ \A i \in 1 .. Len(queue) : i # 1 => cur' < queue[i]
      /\ \A m \in accepted : cur < m => cur' <= m
      <2>1. cur < cur' /\ cur' \in accepted
            BY <1>4, <1>5, <1>6 DEF OrderInv, QueueInv
      <2>2. \A i \in 1 .. Len(queue) : i # 1 => cur' < queue[i]
            BY <1>4, <1>5, <1>6 DEF OrderInv, QueueInv
      <2>3. \A m \in accepted : cur < m => m = cur' \/ cur' < m
            BY <1>4, <2>2 DEF OrderInv, QueueInv
      <2>4. QED
            BY <1>5, <2>1, <2>2, <2>3
<1>9. QueueInv'
      <2>1. \A i, j \in 1 .. Len(queue') : i < j => queue'[i] < queue'[j]
            BY <1>4, <1>5, <1>6 DEF OrderInv, QueueInv
      <2>2. \A i \in 1 .. Len(queue') : cur' < queue'[i]
            BY <1>4, <1>5, <1>6, <1>8
      <2>3. ASSUME NEW m \in accepted, cur' < m
            PROVE  \E i \in 1 .. Len(queue') : queue'[i] = m
            <3>1. PICK i \in 1 .. Len(queue) : queue[i] = m
                  BY <1>5, <1>8, <2>3 DEF OrderInv, QueueInv
            <3>2. i # 1
                  BY <1>4, <1>8, <2>3, <3>1
            <3>3. QED
                  BY <1>7, <3>1, <3>2
      <2>4. QED
            BY <1>2, <2>1, <2>2, <2>3 DEF QueueInv
<1>10. SendInv'
      <2>1. SendInv /\ ~MidMessage /\ ~MidMessage' /\ Last' = Last
            BY <1>2 DEF OrderInv, MidMessage, Last
      <2>2. handed # <<>> => Reached'
            <3>1. SUFFICES ASSUME handed # <<>> PROVE Reached'
                  OBVIOUS
            <3>2. Reached /\ Last.no \in Nat
                  BY <1>1, <2>1, <3>1 DEF SendInv, Last, DataTyped
            <3>3. \A m \in accepted : m <= cur' /\ m # cur' => m <= cur
                  BY <1>5, <1>8
            <3>4. /\ Last.unit = given[Last.no].want /\ Last.no <= cur
                  /\ \A m \in accepted : Last.no < m /\ m <= cur => given[m].want = 0
                  BY <1>2, <2>1, <3>2 DEF Reached
            <3>5. Last.no < cur'
                  BY <1>5, <1>8, <3>2, <3>4
            <3>6. want' > 0 \/ want' = 0
                  BY <1>1, <1>2, <1>8 DEF DataTyped
            <3>7. \A m \in accepted :
                     Last.no < m /\ m <= cur' /\ (want' > 0 => m # cur') => given[m].want = 0
                  BY <1>2, <3>3, <3>4, <3>6
            <3>8. QED
                  BY <1>2, <1>5, <1>8, <2>1, <3>2, <3>4, <3>5, <3>7 DEF Reached
      <2>3. want' \in Nat
            BY <1>1, <1>2, <1>8 DEF DataTyped
      <2>4. QED
            BY <1>2, <2>1, <2>2, <2>3 DEF SendInv
<1>11. UnitsInOrder'
      BY <1>2 DEF OrderInv, UnitsInOrder, Follows
<1>12. NothingDropped'
      <2>1. SUFFICES ASSUME NEW m \in accepted
                     PROVE  \/ \E i \in 1 .. Len(queue') : queue'[i] = m
                            \/ m = cur' /\ want' > 0
                            \/ Ended(m)
            BY <1>2 DEF NothingDropped, Ended, SentWhole, SentCut, Handed
      <2>2. CASE \E i \in 1 .. Len(queue) : queue[i] = m
            <3>1. CASE m = cur'
                  <4>1. given[m].want \in Nat /\ given[m].size \in Nat \ {0}
                        BY <1>1 DEF DataTyped
                  <4>2. want' > 0 \/ (given[m].want = 0 /\ given[m].want < given[m].size)
                        BY <1>2, <3>1, <4>1
                  <4>3. QED
                        BY <3>1, <4>2 DEF Ended, SentCut
            <3>2. CASE m # cur'
                  BY <1>4, <1>7, <2>2, <3>2
            <3>3. QED
                  BY <3>1, <3>2
      <2>3. QED
            BY <1>2, <2>2 DEF OrderInv, NothingDropped, Ended
<1>13. SentIsHanded'
      BY <1>2 DEF SentIsHanded
<1>14. QED
      BY <1>9, <1>10, <1>11, <1>12, <1>13 DEF OrderInv

LEMMA OrderAfterSend ==
    ASSUME TypeOK, LifeInv, OrderInv, NEW n \in 1 .. want, SendSome(n)
    PROVE  OrderInv'
<1> DEFINE old == Len(handed)
           new == Len(handed')
<1>1. DataTyped
      BY DataIsTyped
<1>2. /\ UNCHANGED <<given, accepted, queue, cur>>
      /\ want > 0 /\ want' = want - n
      /\ sent' = IF want' = 0 THEN 0 ELSE sent + n
      BY DEF SendSome, api
<1>3. /\ new = old + n
      /\ \A i \in 1 .. old : handed'[i] = handed[i]
      /\ \A k \in 1 .. n : handed'[old + k] =
               [conn |-> sock, no |-> cur, unit |-> sent + k]
      BY Handing DEF SendSome, Net, Goes, LifeInv, Piece
<1>4. /\ old \in Nat /\ want \in Nat /\ sent \in Nat /\ cur \in accepted /\ cur \in Nat
      /\ accepted \subseteq Nat /\ (handed # <<>> <=> old > 0)
      BY <1>1, <1>2 DEF DataTyped
<1>5. n \in Nat /\ n > 0 /\ n <= want /\ want' \in Nat /\ new \in Nat /\ new > 0
      BY <1>2, <1>3, <1>4
<1>6. /\ sent + want = given[cur].want
      /\ \A i \in 1 .. old : handed[i].no \in accepted
      BY <1>2 DEF OrderInv, SendInv
<1>7. \A i \in 1 .. new : i \in 1 .. old \/ (i - old \in 1 .. n /\ i = old + (i - old))
      BY <1>3, <1>4, <1>5
<1>8. \A i \in 1 .. old : i \in 1 .. new
      BY <1>3, <1>4, <1>5
<1>9. \A i \in 1 .. new : i > old => handed'[i].no = cur /\ handed'[i].unit = sent + (i - old)
      <2>1. SUFFICES ASSUME NEW i \in 1 .. new, i > old
                     PROVE  handed'[i].no = cur /\ handed'[i].unit = sent + (i - old)
            OBVIOUS
      <2>2. i - old \in 1 .. n /\ i = old + (i - old)
            BY <1>4, <1>7, <2>1
      <2>3. handed'[i] = [conn |-> sock, no |-> cur, unit |-> sent + (i - old)]
            BY <1>3, <2>2
      <2>4. QED
            BY <2>3
<1>10. Last'.no = cur /\ Last'.unit = sent + n
      <2>1. new \in 1 .. new /\ new > old /\ new - old = n
            BY <1>3, <1>4, <1>5
      <2>2. QED
            BY <1>9, <2>1 DEF Last
<1>11. QueueInv'
      BY <1>2 DEF OrderInv, QueueInv
<1>12. SendInv'
      <2>1. \A i \in 1 .. new : handed'[i].no \in accepted
            <3>1. SUFFICES ASSUME NEW i \in 1 .. new PROVE handed'[i].no \in accepted
                  OBVIOUS
            <3>2. CASE i \in 1 .. old
                  BY <1>3, <1>6, <3>2
            <3>3. CASE i > old
                  BY <1>4, <1>9, <3>3
            <3>4. QED
                  BY <1>4, <1>7, <3>2, <3>3
      <2>2. handed' # <<>>
            <3>1. new # 0
                  BY <1>5
            <3>2. QED
                  BY <3>1
      <2>3. CASE want' = 0
            <3>1. sent' = 0 /\ n = want /\ sent + n = given[cur].want
                  BY <1>2, <1>4, <1>5, <1>6, <2>3
            <3>2. ~MidMessage'
                  BY <2>3 DEF MidMessage
            <3>3. Last'.unit = given'[Last'.no].want /\ Last'.no = cur'
                  BY <1>2, <1>10, <3>1
            <3>4. Reached'
                  <4>1. ~(want' > 0) /\ Last'.no <= cur'
                        BY <1>2, <1>4, <2>3, <3>3
                  <4>2. \A m \in accepted' : ~(Last'.no < m /\ m <= cur')
                        <5>1. \A m \in Nat : ~(cur < m /\ m <= cur)
                              BY <1>4
                        <5>2. accepted' = accepted /\ cur' = cur /\ Last'.no = cur
                              BY <1>2, <1>10
                        <5>3. QED
                              BY <1>4, <5>1, <5>2
                  <4>3. QED
                        BY <3>2, <3>3, <4>1, <4>2 DEF Reached
            <3>5. QED
                  BY <1>2, <2>1, <2>2, <2>3, <3>1, <3>4 DEF SendInv
      <2>4. CASE want' # 0
            <3>1. sent' = sent + n /\ sent' > 0 /\ want' > 0 /\ sent' + want' = sent + want
                  BY <1>2, <1>4, <1>5, <2>4
            <3>2. MidMessage'
                  BY <3>1 DEF MidMessage
            <3>3. Reached'
                  BY <1>2, <1>10, <3>1, <3>2 DEF Reached
            <3>4. QED
                  BY <1>2, <1>6, <2>1, <2>2, <2>4, <3>1, <3>3 DEF SendInv
      <2>5. QED
            BY <2>3, <2>4
<1>13. UnitsInOrder'
      <2>1. SUFFICES ASSUME NEW i \in 1 .. new - 1
                     PROVE  Follows(handed'[i], handed'[i + 1])
            BY <1>2 DEF UnitsInOrder, Follows
      <2>2. i \in Nat /\ i >= 1 /\ i \in 1 .. new /\ i + 1 \in 1 .. new
            BY <1>5, <2>1
      <2>3. CASE i < old
            <3>1. i \in 1 .. old - 1 /\ i \in 1 .. old /\ i + 1 \in 1 .. old
                  BY <1>4, <2>2, <2>3
            <3>2. Follows(handed[i], handed[i + 1])
                  BY <3>1 DEF OrderInv, UnitsInOrder
            <3>3. QED
                  BY <1>3, <3>1, <3>2
      <2>4. CASE i = old
            <3>1. handed'[i] = Last /\ handed # <<>>
                  BY <1>3, <1>4, <2>2, <2>4 DEF Last
            <3>2. handed'[i + 1].no = cur /\ handed'[i + 1].unit = sent + 1
                  <4>1. i + 1 > old /\ i + 1 - old = 1
                        BY <1>4, <2>4
                  <4>2. QED
                        BY <1>9, <2>2, <4>1
            <3>3. Reached /\ want > 0 /\ Last.no \in accepted
                  BY <1>2, <1>4, <1>6, <2>2, <2>4, <3>1 DEF OrderInv, SendInv, Last
            <3>4. CASE sent > 0
                  BY <3>1, <3>2, <3>3, <3>4 DEF Reached, MidMessage, Follows
            <3>5. CASE sent = 0
                  <4>1. /\ Last.unit = given[Last.no].want /\ Last.no < cur
                        /\ \A m \in accepted :
                              Last.no < m /\ m <= cur /\ m # cur => given[m].want = 0
                        BY <3>3, <3>5 DEF Reached, MidMessage
                  <4>2. \A m \in accepted :
                           Last.no < m /\ m < cur => given[m].want = 0
                        BY <1>4, <4>1
                  <4>3. QED
                        BY <3>1, <3>2, <3>5, <4>1, <4>2 DEF Follows
            <3>6. QED
                  BY <1>4, <3>4, <3>5
      <2>5. CASE i > old
            <3>1. handed'[i].no = cur /\ handed'[i].unit = sent + (i - old)
                  BY <1>9, <2>2, <2>5
            <3>2. handed'[i + 1].no = cur /\ handed'[i + 1].unit = sent + (i + 1 - old)
                  <4>1. i + 1 > old
                        BY <1>4, <2>2, <2>5
                  <4>2. QED
                        BY <1>9, <2>2, <4>1
            <3>3. sent + (i + 1 - old) = sent + (i - old) + 1
                  BY <1>4, <2>2
            <3>4. QED
                  BY <3>1, <3>2, <3>3 DEF Follows
      <2>6. QED
            BY <1>4, <2>2, <2>3, <2>4, <2>5
<1>14. ASSUME NEW k \in 1 .. sent + n
       PROVE  \E i \in 1 .. new : handed'[i].no = cur /\ handed'[i].unit = k
      <2>1. CASE k \in 1 .. sent
            <3>1. PICK i \in 1 .. old : handed[i].no = cur /\ handed[i].unit = k
                  BY <2>1 DEF OrderInv, SentIsHanded, Handed
            <3>2. QED
                  BY <1>3, <1>8, <3>1
      <2>2. CASE k > sent
            <3> DEFINE i == old + (k - sent)
            <3>1. i \in 1 .. new /\ i > old /\ sent + (i - old) = k
                  BY <1>3, <1>4, <1>5, <2>2
            <3> HIDE DEF i
            <3>2. handed'[i].no = cur /\ handed'[i].unit = k
                  BY <1>9, <3>1
            <3>3. QED
                  BY <3>1, <3>2
      <2>3. QED
            BY <1>4, <1>5, <2>1, <2>2
<1>15. NothingDropped'
      <2>1. SUFFICES ASSUME NEW m \in accepted
                     PROVE  \/ \E i \in 1 .. Len(queue) : queue[i] = m
                            \/ m = cur /\ want' > 0
                            \/ Ended(m)'
            BY <1>2 DEF NothingDropped, Ended
      <2>2. Ended(m) => Ended(m)'
            BY <1>2, <1>3, <1>8 DEF Ended, SentWhole, SentCut, Handed
      <2>3. CASE m = cur
            <3>1. CASE want' = 0
                  <4>1. sent + n = given[m].want /\ given' = given
                        BY <1>2, <1>4, <1>5, <1>6, <2>3, <3>1
                  <4>2. given[m].want \in Nat /\ given[m].size \in Nat \ {0}
                        BY <1>1 DEF DataTyped
                  <4>3. CASE given[m].want < given[m].size
                        <5>1. given[m].want \in 1 .. sent + n
                              BY <1>4, <1>5, <4>1, <4>2
                        <5>2. QED
                              BY <1>14, <2>3, <4>1, <4>3, <5>1 DEF Ended, SentCut, Handed
                  <4>4. CASE ~(given[m].want < given[m].size)
                        <5>1. given[m].size \in 1 .. sent + n
                              BY <1>4, <1>5, <4>1, <4>2, <4>4
                        <5>2. QED
                              BY <1>14, <2>3, <4>1, <5>1 DEF Ended, SentWhole, Handed
                  <4>5. QED
                        BY <4>3, <4>4
            <3>2. CASE want' # 0
                  BY <1>5, <2>3, <3>2
            <3>3. QED
                  BY <3>1, <3>2
      <2>4. CASE m # cur
            BY <2>2, <2>4 DEF OrderInv, NothingDropped, Ended
      <2>5. QED
            BY <2>3, <2>4
<1>16. SentIsHanded'
      <2>1. sent' \in 0 .. sent + n /\ cur' = cur
            BY <1>2, <1>4, <1>5
      <2>2. \A k \in 1 .. sent' : k \in 1 .. sent + n
            BY <1>4, <1>5, <2>1
      <2>3. QED
            BY <1>14, <2>1, <2>2 DEF SentIsHanded, Handed
<1>17. QED
      BY <1>11, <1>12, <1>13, <1>15, <1>16 DEF OrderInv

\* The other actions touch neither calls, queue nor what is sent.
LEMMA OrderElsewhere ==
    ASSUME OrderInv, UNCHANGED <<api, queue, sends>>
    PROVE  OrderInv'
<1>1. UNCHANGED <<given, accepted, queue, cur, want, sent, handed>>
      BY DEF api, sends
<1>2. QueueInv' /\ UnitsInOrder'
      BY <1>1 DEF OrderInv, QueueInv, UnitsInOrder, Follows
<1>3. SendInv'
      BY <1>1 DEF OrderInv, SendInv, Reached, MidMessage, Last
<1>4. NothingDropped' /\ SentIsHanded'
      BY <1>1 DEF OrderInv, NothingDropped, SentIsHanded, SentWhole, SentCut, Handed
<1>5. QED
      BY <1>2, <1>3, <1>4 DEF OrderInv

LEMMA NextOrder == TypeOK /\ LifeInv /\ OrderInv /\ [Next]_vars => OrderInv'
<1> SUFFICES ASSUME TypeOK, LifeInv, OrderInv, [Next]_vars PROVE OrderInv'
    OBVIOUS
<1>1. CASE UNCHANGED vars
      BY <1>1, OrderElsewhere DEF vars
<1>2. CASE \E d \in Data : SendPcm(d)
      BY <1>2, OrderAfterCall
<1>3. CASE TakeNext
      BY <1>3, OrderAfterTake
<1>4. CASE \E n \in 1 .. want : SendSome(n)
      BY <1>4, OrderAfterSend
<1>5. CASE \/ Caller \/ Close \/ LoopTest \/ Connect \/ RecvNothing \/ RecvLost
           \/ NothingToSend \/ SendFails \/ Break
           \/ \E t \in {"status", "deal"} : LoopEnds(t)
      <2>1. UNCHANGED <<api, queue, sends>>
            BY <1>5 DEF Caller, Create, Created, Join, Closed, Close, LoopTest, Connect,
                        StillConnected, Connected, ConnectFails, Retry, RecvNothing,
                        RecvLost, NothingToSend, SendFails, Break, LoopEnds
      <2>2. QED
            BY <2>1, OrderElsewhere
<1>6. QED
      BY <1>1, <1>2, <1>3, <1>4, <1>5 DEF Next, NetWork, Send

\* Whatever send takes at a time and however often the connection is lost,
\* TCP gets the accepted messages in order and the units of each, as far as it
\* announces, in order and once.
THEOREM UnitsAreInOrder == Spec => []UnitsInOrder
<1>1. Init => TypeOK /\ LifeInv /\ OrderInv
      BY InitType, InitOrder
<1>2. TypeOK /\ LifeInv /\ OrderInv /\ [Next]_vars => TypeOK' /\ LifeInv' /\ OrderInv'
      BY NextType, NextLife, NextOrder
<1>3. OrderInv => UnitsInOrder
      BY DEF OrderInv
<1>4. QED
      BY <1>1, <1>2, <1>3, PTL DEF Spec

\* The client loses no message it accepted, reconnecting included: one that is
\* neither queued nor being sent went to TCP up to the last unit send_pcm was
\* given, or announced less than it was and was cut there.
THEOREM NothingIsDropped == Spec => []NothingDropped
<1>1. Init => TypeOK /\ LifeInv /\ OrderInv
      BY InitType, InitOrder
<1>2. TypeOK /\ LifeInv /\ OrderInv /\ [Next]_vars => TypeOK' /\ LifeInv' /\ OrderInv'
      BY NextType, NextLife, NextOrder
<1>3. OrderInv => NothingDropped
      BY DEF OrderInv
<1>4. QED
      BY <1>1, <1>2, <1>3, PTL DEF Spec
=============================================================================
