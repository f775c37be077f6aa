-------------------------- MODULE AudioServerProofs --------------------------
(***************************************************************************)
(* Type correctness of the server process, where its messages are, what    *)
(* its reports say, the joins of its shutdown, and that listen thread,     *)
(* queue and workers implement the lossy fifo.                             *)
(***************************************************************************)
EXTENDS AudioServer, SequenceTheorems, TLAPS

USE ServerAssumption

Thread == 1 .. ScanThread

\* where thread t can be
PcOf(t) == Outside \cup
    (IF t = ListenThread THEN {"enqueue", "discard"}
     ELSE IF t = StatusThread THEN {"queues", "query", "rcv", "inc", "discards", "last"}
     ELSE IF t = ScanThread THEN {}
     ELSE {"take"})

ThreadsTyped == thread \in [Thread -> Outside \cup {"enqueue", "discard", "take",
                              "queues", "query", "rcv", "inc", "discards", "last"}]
                /\ \A t \in Thread : thread[t] \in PcOf(t)

LEMMA Roles ==
    /\ Queue \subseteq Nat /\ Target \in Queue
    /\ ListenThread \in Thread /\ StatusThread \in Thread /\ ScanThread \in Thread
    /\ \A w \in Queue : WorkerThread(w) \in Thread
    /\ \A w \in Queue : WorkerThread(w) \notin {ListenThread, StatusThread, ScanThread}
    /\ ListenThread # StatusThread /\ ListenThread # ScanThread /\ StatusThread # ScanThread
    /\ Created \subseteq Thread /\ Joined = Created
    /\ \A t \in Thread : t + 1 \in 1 .. ScanThread + 1
BY DEF Queue, Target, Thread, ListenThread, StatusThread, ScanThread,
       WorkerThread, Created, Joined

\* Every thread number is that of a role.
LEMMA RolesCover ==
    ASSUME NEW t \in Thread, t # ListenThread, t # StatusThread, t # ScanThread
    PROVE  t - 2 \in Queue /\ WorkerThread(t - 2) = t
BY DEF Queue, Thread, ListenThread, StatusThread, ScanThread, WorkerThread

LEMMA ThreadTyping ==
    ThreadsTyped <=>
        /\ thread \in [1 .. ScanThread -> Outside \cup {"enqueue", "discard", "take",
                            "queues", "query", "rcv", "inc", "discards", "last"}]
        /\ thread[ListenThread] \in Outside \cup {"enqueue", "discard"}
        /\ \A w \in Queue : thread[WorkerThread(w)] \in Outside \cup {"take"}
        /\ thread[StatusThread] \in Outside \cup
                {"queues", "query", "rcv", "inc", "discards", "last"}
        /\ thread[ScanThread] \in Outside
<1>1. ASSUME ThreadsTyped
      PROVE  /\ thread[ListenThread] \in Outside \cup {"enqueue", "discard"}
             /\ \A w \in Queue : thread[WorkerThread(w)] \in Outside \cup {"take"}
             /\ thread[StatusThread] \in Outside \cup
                    {"queues", "query", "rcv", "inc", "discards", "last"}
             /\ thread[ScanThread] \in Outside
      <2>1. /\ thread[ListenThread] \in PcOf(ListenThread)
            /\ thread[StatusThread] \in PcOf(StatusThread)
            /\ thread[ScanThread] \in PcOf(ScanThread)
            /\ \A w \in Queue : thread[WorkerThread(w)] \in PcOf(WorkerThread(w))
            BY <1>1, Roles DEF ThreadsTyped
      <2>2. /\ PcOf(ListenThread) = Outside \cup {"enqueue", "discard"}
            /\ PcOf(StatusThread) = Outside \cup
                    {"queues", "query", "rcv", "inc", "discards", "last"}
            /\ PcOf(ScanThread) = Outside
            /\ \A w \in Queue : PcOf(WorkerThread(w)) = Outside \cup {"take"}
            BY Roles DEF PcOf
      <2>3. QED
            BY <2>1, <2>2
<1>2. ASSUME thread[ListenThread] \in Outside \cup {"enqueue", "discard"},
             \A w \in Queue : thread[WorkerThread(w)] \in Outside \cup {"take"},
             thread[StatusThread] \in Outside \cup
                    {"queues", "query", "rcv", "inc", "discards", "last"},
             thread[ScanThread] \in Outside,
             NEW t \in Thread
      PROVE  thread[t] \in PcOf(t)
      <2>1. CASE t \in {ListenThread, StatusThread, ScanThread}
            BY <1>2, <2>1, Roles DEF PcOf
      <2>2. CASE t \notin {ListenThread, StatusThread, ScanThread}
            BY <1>2, <2>2, RolesCover DEF PcOf
      <2>3. QED
            BY <2>1, <2>2
<1>3. QED
      BY <1>1, <1>2 DEF ThreadsTyped, Thread

\* A step of one thread keeps the threads where they can be.
LEMMA GoesTyped ==
    ASSUME ThreadsTyped, NEW t \in Thread, NEW from, NEW to \in PcOf(t), Goes(t, from, to)
    PROVE  /\ ThreadsTyped'
           /\ thread[t] = from /\ thread'[t] = to
           /\ \A u \in Thread : u # t => thread'[u] = thread[u]
<1>1. to \in Outside \cup {"enqueue", "discard", "take",
                           "queues", "query", "rcv", "inc", "discards", "last"}
      BY DEF PcOf
<1>2. QED
      BY <1>1 DEF ThreadsTyped, Goes, PcOf

-----------------------------------------------------------------------------
(* Type correctness *)

\* What TypeOK says of everything but the threads.
DataTyped ==
    /\ isExit \in BOOLEAN
    /\ main \in {"create", "run", "join", "end", "crashed"}
    /\ at \in 1 .. ScanThread + 1
    /\ cur \in Conn
    /\ offered \in [Conn -> Nat]
    /\ queue \in [Queue -> Seq(Message)]
    /\ push \in [Queue -> Nat] /\ pop \in [Queue -> Nat]
    /\ rcvCnt \in Nat /\ discardCnt \in Nat
    /\ done \in Seq(Message)
    /\ snapped \in 0 .. ThreadCnt
    /\ report \in [push : Nat, pop : Nat, rcv : Nat, inc : Nat, discard : Nat]
    /\ lastRcvCnt \in Nat /\ incSum \in Nat

LEMMA TypeSplit == TypeOK <=> DataTyped /\ ThreadsTyped
BY ThreadTyping DEF TypeOK, DataTyped

\* The increment is a difference of counters: it stays a natural number
\* because the older value is not the larger one.
TypeInv == DataTyped /\ ThreadsTyped /\ lastRcvCnt <= rcvCnt

\* Every place a thread goes to is one of its own.
LEMMA Places ==
    /\ \A t \in Thread : Outside \subseteq PcOf(t)
    /\ {"enqueue", "discard"} \subseteq PcOf(ListenThread)
    /\ {"queues", "query", "rcv", "inc", "discards", "last"} \subseteq PcOf(StatusThread)
    /\ \A w \in Queue : "take" \in PcOf(WorkerThread(w))
    /\ {"none", "failed", "ended", "test"} = Outside
BY Roles DEF PcOf, Outside

LEMMA NextTypeInv == TypeInv /\ [Next]_vars => TypeInv'
<1> SUFFICES ASSUME TypeInv, [Next]_vars PROVE TypeInv'
    OBVIOUS
<1>0. DataTyped /\ ThreadsTyped /\ lastRcvCnt <= rcvCnt
      BY DEF TypeInv
<1> USE <1>0
<1> USE DEF process, rcv, queues, status
<1>1. CASE UNCHANGED vars
      BY <1>1 DEF vars, TypeInv, DataTyped, ThreadsTyped
<1>2. CASE Exit
      BY <1>2 DEF Exit, TypeInv, DataTyped, ThreadsTyped
<1>3. CASE Create
      <2>1. at \in Thread /\ at + 1 \in 1 .. ScanThread + 1
            BY <1>3, Roles DEF Create
      <2>2. ThreadsTyped'
            BY <1>3, <2>1, GoesTyped, Places DEF Create, Outside
      <2>3. QED
            BY <1>3, <2>1, <2>2 DEF Create, TypeInv, DataTyped
<1>4. CASE Started
      BY <1>4 DEF Started, TypeInv, DataTyped, ThreadsTyped
<1>5. CASE Leave
      <2>1. 1 \in 1 .. ScanThread + 1
            BY DEF ScanThread
      <2>2. QED
            BY <1>5, <2>1 DEF Leave, TypeInv, DataTyped, ThreadsTyped
<1>6. CASE Join
      <2>1. at + 1 \in 1 .. ScanThread + 1
            BY <1>6, Roles DEF Join
      <2>2. QED
            BY <1>6, <2>1 DEF Join, TypeInv, DataTyped, ThreadsTyped
<1>7. CASE Destroyed
      BY <1>7 DEF Destroyed, TypeInv, DataTyped, ThreadsTyped
<1>8. ASSUME NEW c \in Conn, Receive(c) PROVE TypeInv'
      <2>1. ThreadsTyped'
            BY <1>8, GoesTyped, Places, Roles DEF Receive
      <2>2. QED
            BY <1>8, <2>1 DEF Receive, TypeInv, DataTyped
<1>9. CASE Enqueue
      <2> DEFINE m == [conn |-> cur, no |-> offered[cur] + 1]
      <2>1. ThreadsTyped'
            BY <1>9, GoesTyped, Places, Roles DEF Enqueue, Outside
      <2>2. m \in Message /\ offered' \in [Conn -> Nat]
            BY <1>9 DEF Enqueue, DataTyped, Message
      <2>3. queue' = [queue EXCEPT ![Target] = Append(@, m)]
            BY <1>9 DEF Enqueue
      <2> HIDE DEF m
      <2>4. Append(queue[Target], m) \in Seq(Message)
            BY <2>2, Roles, AppendProperties DEF DataTyped
      <2>5. queue' \in [Queue -> Seq(Message)]
            BY <2>3, <2>4 DEF DataTyped
      <2>6. push' \in [Queue -> Nat]
            <3>1. push \in [Queue -> Nat] /\ Target \in Queue
                  BY Roles DEF DataTyped
            <3>2. push' = [push EXCEPT ![Target] = @ + 1]
                  BY <1>9 DEF Enqueue
            <3>3. QED
                  BY <3>1, <3>2
      <2>7. QED
            BY <1>9, <2>1, <2>2, <2>5, <2>6 DEF Enqueue, TypeInv, DataTyped
<1>10. CASE Refused
      <2>1. ThreadsTyped'
            BY <1>10, GoesTyped, Places, Roles DEF Refused
      <2>2. QED
            BY <1>10, <2>1 DEF Refused, TypeInv, DataTyped
<1>11. CASE Discard
      <2>1. ThreadsTyped'
            BY <1>11, GoesTyped, Places, Roles DEF Discard, Outside
      <2>2. QED
            BY <1>11, <2>1 DEF Discard, TypeInv, DataTyped
<1>12. ASSUME NEW t \in Created, LoopEnds(t) PROVE TypeInv'
      <2>1. ThreadsTyped'
            BY <1>12, GoesTyped, Places, Roles DEF LoopEnds, Outside
      <2>2. QED
            BY <1>12, <2>1 DEF LoopEnds, TypeInv, DataTyped
<1>13. ASSUME NEW w \in Queue, WorkerTest(w) PROVE TypeInv'
      <2>1. Goes(WorkerThread(w), "test", "take")
            BY <1>13, Roles DEF WorkerTest, Looping
      <2>2. ThreadsTyped'
            BY <2>1, GoesTyped, Places, Roles
      <2>3. QED
            BY <1>13, <2>2 DEF WorkerTest, TypeInv, DataTyped
<1>14. ASSUME NEW w \in Queue, Take(w) PROVE TypeInv'
      <2>1. ThreadsTyped'
            BY <1>14, GoesTyped, Places, Roles DEF Take, Outside
      <2>2. Head(queue[w]) \in Message /\ Tail(queue[w]) \in Seq(Message)
            BY <1>14, HeadTailProperties DEF Take, DataTyped
      <2>3. done' \in Seq(Message)
            BY <1>14, <2>2, AppendProperties DEF Take, DataTyped
      <2>4. queue' \in [Queue -> Seq(Message)] /\ pop' \in [Queue -> Nat]
            BY <1>14, <2>2, SMTT(30) DEF Take, DataTyped
      <2>5. QED
            BY <1>14, <2>1, <2>3, <2>4 DEF Take, TypeInv, DataTyped
<1>15. ASSUME NEW w \in Queue, TakeNone(w) PROVE TypeInv'
      <2>1. ThreadsTyped'
            BY <1>15, GoesTyped, Places, Roles DEF TakeNone, Outside
      <2>2. QED
            BY <1>15, <2>1 DEF TakeNone, TypeInv, DataTyped
<1>16. CASE StatusTest
      <2>1. Goes(StatusThread, "test", "queues")
            BY <1>16 DEF StatusTest, Looping
      <2>2. ThreadsTyped'
            BY <2>1, GoesTyped, Places, Roles
      <2>3. QED
            BY <1>16, <2>2 DEF StatusTest, TypeInv, DataTyped, NoReport
<1>17. CASE Snap
      <2>1. ThreadsTyped'
            BY <1>17, GoesTyped, Places, Roles DEF Snap
      <2>2. push[snapped] \in Nat /\ pop[snapped] \in Nat /\ snapped + 1 \in 0 .. ThreadCnt
            <3>1. push \in [Queue -> Nat] /\ pop \in [Queue -> Nat] /\ snapped \in Queue
                  BY <1>17 DEF Snap, DataTyped
            <3>2. snapped + 1 \in 0 .. ThreadCnt
                  BY <3>1 DEF Queue
            <3>3. QED
                  BY <3>1, <3>2
      <2>3. report' \in [push : Nat, pop : Nat, rcv : Nat, inc : Nat, discard : Nat]
            <3>1. report \in [push : Nat, pop : Nat, rcv : Nat, inc : Nat, discard : Nat]
                  BY DEF DataTyped
            <3>2. report' = [report EXCEPT !.push = @ + push[snapped],
                                           !.pop = @ + pop[snapped]]
                  BY <1>17 DEF Snap
            <3>3. report.push + push[snapped] \in Nat /\ report.pop + pop[snapped] \in Nat
                  BY <2>2, <3>1
            <3> DEFINE x == report.push + push[snapped]
                       y == report.pop + pop[snapped]
            <3>4. report' = [report EXCEPT !.push = x, !.pop = y]
                  BY <3>1, <3>2
            <3> HIDE DEF x, y
            <3>5. x \in Nat /\ y \in Nat
                  BY <3>3 DEF x, y
            <3>6. QED
                  BY <3>1, <3>4, <3>5
      <2>4. QED
            BY <1>17, <2>1, <2>2, <2>3 DEF Snap, TypeInv, DataTyped
<1>18. CASE ReadRcv
      <2>1. ThreadsTyped'
            BY <1>18, GoesTyped, Places, Roles DEF ReadRcv
      <2>2. QED
            BY <1>18, <2>1 DEF ReadRcv, TypeInv, DataTyped
<1>19. CASE ReadInc
      <2>1. ThreadsTyped'
            BY <1>19, GoesTyped, Places, Roles DEF ReadInc
      <2>2. rcvCnt - lastRcvCnt \in Nat
            BY DEF DataTyped
      <2>3. incSum' \in Nat
            <3>1. incSum \in Nat /\ incSum' = incSum + (rcvCnt - lastRcvCnt)
                  BY <1>19 DEF ReadInc, DataTyped
            <3>2. QED
                  BY <2>2, <3>1
      <2>4. report' \in [push : Nat, pop : Nat, rcv : Nat, inc : Nat, discard : Nat]
            <3>1. /\ report \in [push : Nat, pop : Nat, rcv : Nat, inc : Nat, discard : Nat]
                  /\ report' = [report EXCEPT !.inc = rcvCnt - lastRcvCnt]
                  BY <1>19 DEF ReadInc, DataTyped
            <3>2. QED
                  BY <2>2, <3>1
      <2>5. QED
            BY <1>19, <2>1, <2>3, <2>4 DEF ReadInc, TypeInv, DataTyped
<1>20. CASE WriteStatus
      <2>1. ThreadsTyped'
            BY <1>20, GoesTyped, Places, Roles DEF WriteStatus
      <2>2. QED
            BY <1>20, <2>1 DEF WriteStatus, TypeInv, DataTyped
<1>21. CASE Keep
      <2>1. ThreadsTyped'
            BY <1>21, GoesTyped, Places, Roles DEF Keep, Outside
      <2>2. QED
            BY <1>21, <2>1 DEF Keep, TypeInv, DataTyped
<1>22. QED
      BY <1>1, <1>2, <1>3, <1>4, <1>5, <1>6, <1>7, <1>8, <1>9, <1>10, <1>11,
         <1>12, <1>13, <1>14, <1>15, <1>16, <1>17, <1>18, <1>19, <1>20, <1>21
      DEF Next, Main, Dispatch, Status, Worker

LEMMA InitTypeInv == Init => TypeInv
<1> SUFFICES ASSUME Init PROVE TypeInv
    OBVIOUS
<1>1. ThreadsTyped
      BY DEF Init, ThreadsTyped, PcOf, Thread, Outside
<1>2. at \in 1 .. ScanThread + 1 /\ snapped \in 0 .. ThreadCnt
      BY DEF Init, ScanThread
<1>3. queue \in [Queue -> Seq(Message)] /\ done \in Seq(Message)
      BY DEF Init
<1>4. DataTyped
      BY <1>2, <1>3 DEF Init, DataTyped, NoReport
<1>5. QED
      BY <1>1, <1>4 DEF Init, TypeInv

\* Every variable of the server process keeps its type, for any number of
\* workers and messages: in particular no report goes below zero.
THEOREM TypeCorrect == Spec => []TypeOK
<1>1. TypeInv => TypeOK
      BY TypeSplit DEF TypeInv
<1>2. QED
      BY InitTypeInv, NextTypeInv, <1>1, PTL DEF Spec

-----------------------------------------------------------------------------
(* Where the messages are *)

\* a step that moves no message
Still ==
    /\ UNCHANGED <<offered, rcvCnt, discardCnt, queue, push, pop, done>>
    /\ InHand' = InHand

LEMMA OtherThread ==
    ASSUME TypeInv, NEW t \in Thread, t # ListenThread, NEW from, NEW to, Goes(t, from, to)
    PROVE  InHand' = InHand
BY Roles DEF TypeInv, ThreadsTyped, Goes, InHand

LEMMA Steps ==
    ASSUME TypeInv, [Next]_vars
    PROVE  \/ Still \/ Enqueue \/ Refused \/ Discard
           \/ \E c \in Conn : Receive(c)
           \/ \E w \in Queue : Take(w)
<1> USE DEF process, rcv, queues, status
<1>1. CASE UNCHANGED vars
      BY <1>1 DEF vars, Still, InHand
<1>2. CASE Exit \/ Started \/ Leave \/ Join \/ Destroyed
      BY <1>2 DEF Exit, Started, Leave, Join, Destroyed, Still, InHand
<1>3. CASE Create
      <2>1. at \in Thread
            BY <1>3, Roles DEF Create
      <2>2. InHand' = InHand
            BY <1>3, <2>1, Roles DEF Create, Goes, InHand, TypeInv, ThreadsTyped
      <2>3. QED
            BY <1>3, <2>2 DEF Create, Still
<1>4. ASSUME NEW t \in Created, LoopEnds(t) PROVE Still
      <2>1. InHand' = InHand
            BY <1>4, Roles DEF LoopEnds, Goes, InHand, TypeInv, ThreadsTyped
      <2>2. QED
            BY <1>4, <2>1 DEF LoopEnds, Still
<1>5. ASSUME NEW w \in Queue, WorkerTest(w) \/ TakeNone(w) PROVE Still
      <2>1. \E from, to : Goes(WorkerThread(w), from, to)
            BY <1>5 DEF WorkerTest, TakeNone, Looping
      <2>2. InHand' = InHand
            BY <2>1, OtherThread, Roles
      <2>3. QED
            BY <1>5, <2>2 DEF WorkerTest, TakeNone, Still
<1>6. ASSUME Status PROVE Still
      <2>1. \E from, to : Goes(StatusThread, from, to)
            BY <1>6 DEF Status, StatusTest, Snap, ReadRcv, ReadInc, WriteStatus, Keep,
                        Looping
      <2>2. InHand' = InHand
            BY <2>1, OtherThread, Roles
      <2>3. QED
            BY <1>6, <2>2 DEF Status, StatusTest, Snap, ReadRcv, ReadInc, WriteStatus,
                             Keep, Still
<1>7. QED
      BY <1>1, <1>2, <1>3, <1>4, <1>5, <1>6 DEF Next, Main, Dispatch, Worker

\* The counters of the queues agree with what is in them.
Counted ==
    /\ \A w \in Queue : w # Target => push[w] = 0 /\ pop[w] = 0
    /\ pop[Target] = Len(done)
    /\ push[Target] = Len(done) + Len(queue[Target])

CountInv == Conservation /\ Counted

LEMMA InitCount == Init => CountInv
BY Roles DEF Init, CountInv, Conservation, Counted, InHand, Thread

LEMMA NextCount == TypeInv /\ CountInv /\ [Next]_vars => CountInv'
<1> SUFFICES ASSUME TypeInv, CountInv, [Next]_vars PROVE CountInv'
    OBVIOUS
<1> USE DEF process, rcv, queues, status
<1>0. /\ Conservation /\ Counted /\ ThreadsTyped
      /\ ListenThread \in Thread /\ Target \in Queue
      /\ queue[Target] \in Seq(Message) /\ done \in Seq(Message)
      /\ queue \in [Queue -> Seq(Message)]
      /\ push \in [Queue -> Nat] /\ pop \in [Queue -> Nat]
      /\ Len(queue[Target]) \in Nat /\ Len(done) \in Nat
      /\ rcvCnt \in Nat /\ discardCnt \in Nat /\ InHand \in {0, 1}
      BY Roles, LenProperties DEF CountInv, TypeInv, DataTyped, InHand
<1>1. CASE Still
      BY <1>0, <1>1 DEF Still, CountInv, Conservation, Counted, Target
<1>2. ASSUME NEW c \in Conn, Receive(c) PROVE CountInv'
      <2>1. InHand = 0 /\ InHand' = 1
            BY <1>0, <1>2 DEF Receive, Goes, InHand, ThreadsTyped
      <2>2. QED
            BY <1>0, <1>2, <2>1 DEF Receive, CountInv, Conservation, Counted, Target
<1>3. CASE Refused
      <2>1. InHand = 1 /\ InHand' = 1
            BY <1>0, <1>3 DEF Refused, Goes, InHand, ThreadsTyped
      <2>2. QED
            BY <1>0, <1>3, <2>1 DEF Refused, CountInv, Conservation, Counted, Target
<1>4. CASE Discard
      <2>1. InHand = 1 /\ InHand' = 0
            BY <1>0, <1>4 DEF Discard, Goes, InHand, ThreadsTyped
      <2>2. /\ discardCnt' = discardCnt + 1
            /\ UNCHANGED <<rcvCnt, queue, push, pop, done>> /\ Target' = Target
            BY <1>4 DEF Discard, Target
      <2>3. rcvCnt' = Len(done') + Len(queue'[Target']) + discardCnt' + InHand'
            BY <1>0, <2>1, <2>2 DEF Conservation
      <2>4. QED
            BY <1>0, <2>2, <2>3 DEF CountInv, Conservation, Counted
<1>5. CASE Enqueue
      <2>1. InHand = 1 /\ InHand' = 0
            BY <1>0, <1>5 DEF Enqueue, Goes, InHand, ThreadsTyped
      <2> DEFINE m == [conn |-> cur, no |-> offered[cur] + 1]
      <2>2. m \in Message
            BY DEF Message, TypeInv, DataTyped
      <2>3. /\ queue' = [queue EXCEPT ![Target] = Append(@, m)]
            /\ push' = [push EXCEPT ![Target] = @ + 1]
            /\ UNCHANGED <<rcvCnt, discardCnt, pop, done>>
            BY <1>5 DEF Enqueue
      <2> HIDE DEF m
      <2>4. /\ queue'[Target] = Append(queue[Target], m)
            /\ push'[Target] = push[Target] + 1
            /\ \A w \in Queue : w # Target => queue'[w] = queue[w] /\ push'[w] = push[w]
            BY <1>0, <2>3
      <2>5. Len(queue'[Target]) = Len(queue[Target]) + 1
            BY <1>0, <2>2, <2>4, AppendProperties
      <2> HIDE DEF Target
      <2>6. Target' = Target
            BY DEF Target
      <2>7. Conservation'
            BY <1>0, <2>1, <2>3, <2>4, <2>5, <2>6 DEF Conservation
      <2>8. Counted'
            BY <1>0, <2>3, <2>4, <2>5, <2>6 DEF Counted
      <2>9. QED
            BY <2>7, <2>8 DEF CountInv
<1>6. ASSUME NEW w \in Queue, Take(w) PROVE CountInv'
      <2>1. InHand' = InHand
            BY <1>6, OtherThread, Roles DEF Take
      <2>2. w = Target /\ queue[Target] # <<>>
            BY <1>0, <1>6 DEF Take, Conservation
      <2>3. /\ queue' = [queue EXCEPT ![Target] = Tail(@)]
            /\ pop' = [pop EXCEPT ![Target] = @ + 1]
            /\ done' = Append(done, Head(queue[Target]))
            /\ UNCHANGED <<rcvCnt, discardCnt, push>>
            BY <1>6, <2>2 DEF Take
      <2>4. /\ queue'[Target] = Tail(queue[Target])
            /\ pop'[Target] = pop[Target] + 1
            /\ \A v \in Queue : v # Target => queue'[v] = queue[v] /\ pop'[v] = pop[v]
            BY <1>0, <2>3
      <2>5. Len(queue'[Target]) = Len(queue[Target]) - 1
            BY <1>0, <2>2, <2>4, HeadTailProperties
      <2>6. Len(done') = Len(done) + 1
            BY <1>0, <2>2, <2>3, HeadTailProperties, AppendProperties
      <2>7. Target' = Target
            BY DEF Target
      <2>8. Conservation'
            <3>1. \A v \in Queue : queue'[v] # <<>> => v = Target
                  BY <1>0, <2>4 DEF Conservation
            <3>2. rcvCnt' = Len(done') + Len(queue'[Target]) + discardCnt' + InHand'
                  <4>1. rcvCnt = Len(done) + Len(queue[Target]) + discardCnt + InHand
                        BY <1>0 DEF Conservation
                  <4>2. rcvCnt' = rcvCnt /\ discardCnt' = discardCnt
                        BY <2>3
                  <4>3. QED
                        BY <1>0, <2>1, <2>5, <2>6, <2>7, <4>1, <4>2
            <3>3. QED
                  BY <2>7, <3>1, <3>2 DEF Conservation
      <2>9. Counted'
            <3>1. \A v \in Queue : v # Target => push'[v] = 0 /\ pop'[v] = 0
                  BY <1>0, <2>3, <2>4 DEF Counted
            <3>2. pop'[Target] = Len(done')
                  BY <1>0, <2>4, <2>6 DEF Counted
            <3>3. push'[Target] = Len(done') + Len(queue'[Target])
                  <4>1. push[Target] = Len(done) + Len(queue[Target])
                        BY <1>0 DEF Counted
                  <4>2. push' = push
                        BY <2>3
                  <4>3. QED
                        BY <1>0, <2>5, <2>6, <4>1, <4>2
            <3>4. QED
                  BY <2>7, <3>1, <3>2, <3>3 DEF Counted
      <2>10. QED
            BY <2>8, <2>9 DEF CountInv
<1>7. QED
      BY Steps, <1>1, <1>2, <1>3, <1>4, <1>5, <1>6

\* However listen thread, workers and status thread interleave, every message
\* counted as received is in exactly one place, and one queue is enough.
THEOREM MessagesAreConserved == Spec => []Conservation
<1>1. Init => TypeInv /\ CountInv
      BY InitTypeInv, InitCount
<1>2. (TypeInv /\ CountInv) /\ [Next]_vars => (TypeInv /\ CountInv)'
      BY NextTypeInv, NextCount
<1>3. CountInv => Conservation
      BY DEF CountInv
<1>4. QED
      BY <1>1, <1>2, <1>3, PTL DEF Spec

-----------------------------------------------------------------------------
(* The server implements the lossy fifo *)

LEMMA FifoInit == Init => Fifo!Init
BY Roles DEF Init, Fifo!Init

LEMMA FifoStep == TypeInv /\ CountInv /\ [Next]_vars => [Fifo!Next]_(Fifo!vars)
<1> SUFFICES ASSUME TypeInv, CountInv, [Next]_vars PROVE [Fifo!Next]_(Fifo!vars)
    OBVIOUS
<1> USE DEF process, rcv, queues, status
<1>0. /\ Target \in Queue /\ queue \in [Queue -> Seq(Message)] /\ cur \in Conn
      /\ Target' = Target
      BY Roles DEF TypeInv, DataTyped, Target
<1>1. CASE Still
      BY <1>0, <1>1 DEF Still, Fifo!vars
<1>2. ASSUME NEW c \in Conn, Receive(c) PROVE UNCHANGED Fifo!vars
      BY <1>0, <1>2 DEF Receive, Fifo!vars
<1>3. CASE Discard
      BY <1>0, <1>3 DEF Discard, Fifo!vars
<1>4. CASE Refused
      BY <1>0, <1>4 DEF Refused, Fifo!Next, Fifo!Offer
<1>5. CASE Enqueue
      <2>1. queue'[Target'] = Append(queue[Target], [conn |-> cur, no |-> offered[cur] + 1])
            BY <1>0, <1>5 DEF Enqueue
      <2>2. offered' = [offered EXCEPT ![cur] = @ + 1] /\ done' = done
            BY <1>5 DEF Enqueue
      <2>3. Fifo!Offer(cur)
            BY <2>1, <2>2 DEF Fifo!Offer
      <2>4. QED
            BY <1>0, <2>3 DEF Fifo!Next
<1>6. ASSUME NEW w \in Queue, Take(w) PROVE Fifo!Deliver
      <2>1. w = Target /\ queue[w] # <<>>
            BY <1>6 DEF Take, CountInv, Conservation
      <2>2. /\ queue'[Target'] = Tail(queue[Target]) /\ offered' = offered
            /\ done' = Append(done, Head(queue[Target]))
            BY <1>0, <1>6, <2>1 DEF Take
      <2>3. QED
            BY <2>1, <2>2 DEF Fifo!Deliver
<1>7. QED
      BY Steps, <1>1, <1>2, <1>3, <1>4, <1>5, <1>6 DEF Fifo!Next

\* The listen thread, the data queues and any number of workers implement the
\* lossy fifo: what a worker takes is always the oldest accepted message.
THEOREM ServerIsLossyFifo == Spec => DeliversInOrder
<1>1. Init => TypeInv /\ CountInv /\ Fifo!Init
      BY InitTypeInv, InitCount, FifoInit
<1>2. (TypeInv /\ CountInv) /\ [Next]_vars => (TypeInv /\ CountInv)'
      BY NextTypeInv, NextCount
<1>3. TypeInv /\ CountInv /\ [Next]_vars => [Fifo!Next]_(Fifo!vars)
      BY FifoStep
<1>4. QED
      BY <1>1, <1>2, <1>3, PTL DEF Spec, DeliversInOrder, Fifo!Spec

-----------------------------------------------------------------------------
(* What the lossy fifo guarantees *)

LEMMA Offered ==
    ASSUME NEW S, NEW s \in Seq(S), NEW t \in Seq(S), NEW e \in S
    PROVE  s \o Append(t, e) = Append(s \o t, e)
<1>1. <<e>> \in Seq(S)
      OBVIOUS
<1>2. s \o (t \o <<e>>) = (s \o t) \o <<e>>
      BY <1>1, ConcatAssociative
<1>3. t \o <<e>> = Append(t, e)
      BY AppendIsConcat
<1>4. (s \o t) \o <<e>> = Append(s \o t, e)
      BY AppendIsConcat, ConcatProperties
<1>5. QED
      BY <1>2, <1>3, <1>4

LEMMA Delivered ==
    ASSUME NEW S, NEW s \in Seq(S), NEW t \in Seq(S), t # <<>>
    PROVE  Append(s, Head(t)) \o Tail(t) = s \o t
<1>1. Head(t) \in S /\ Tail(t) \in Seq(S) /\ <<Head(t)>> \in Seq(S)
      BY HeadTailProperties
<1>2. <<Head(t)>> \o Tail(t) = t
      BY HeadTailProperties, <1>1
<1>3. Append(s, Head(t)) = s \o <<Head(t)>>
      BY <1>1, AppendIsConcat
<1>4. (s \o <<Head(t)>>) \o Tail(t) = s \o (<<Head(t)>> \o Tail(t))
      BY <1>1, ConcatAssociative
<1>5. QED
      BY <1>2, <1>3, <1>4

LEMMA MessageFields == \A x \in Fifo!Message : x.conn \in Conn /\ x.no \in Nat
BY DEF Fifo!Message

\* what was accepted and not yet delivered
InQueue == queue[Target]

FifoTyped ==
    /\ offered \in [Conn -> Nat]
    /\ InQueue \in Seq(Fifo!Message)
    /\ done \in Seq(Fifo!Message)

\* No message of s bears a number its connection has not reached.
Numbered(s, o) == \A i \in 1 .. Len(s) : s[i].no <= o[s[i].conn]

\* The order needs Numbered: a new message gets the highest number.
FifoInv == FifoTyped /\ Numbered(done \o InQueue, offered)
           /\ Fifo!InOrder(done \o InQueue)

\* A new message goes behind all of its connection.
LEMMA InOrderAppend ==
    ASSUME NEW s \in Seq(Fifo!Message), NEW m \in Fifo!Message,
           NEW o \in [Conn -> Nat], Numbered(s, o), Fifo!InOrder(s),
           m.no = o[m.conn] + 1
    PROVE  /\ Fifo!InOrder(Append(s, m))
           /\ Numbered(Append(s, m), [o EXCEPT ![m.conn] = @ + 1])
<1> DEFINE r == Append(s, m)
           p == [o EXCEPT ![m.conn] = @ + 1]
<1>1. /\ Len(s) \in Nat /\ Len(r) = Len(s) + 1 /\ r[Len(s) + 1] = m
      /\ \A i \in 1 .. Len(s) : r[i] = s[i] /\ s[i] \in Fifo!Message
      BY AppendProperties, ElementOfSeq, LenProperties
<1>2. m.conn \in Conn /\ \A i \in 1 .. Len(s) : s[i].conn \in Conn /\ s[i].no \in Nat
      BY <1>1, MessageFields
<1>3. \A i \in 1 .. Len(s) : s[i].no <= o[s[i].conn]
      BY DEF Numbered
<1>4. \A c \in Conn : p[c] \in Nat /\ o[c] \in Nat /\ o[c] <= p[c]
      BY <1>2
<1>5. p[m.conn] = o[m.conn] + 1
      BY <1>2
<1> HIDE DEF r, p
<1>6. ASSUME NEW i \in 1 .. Len(r) PROVE r[i].no <= p[r[i].conn]
      <2>1. CASE i = Len(s) + 1
            BY <1>1, <1>2, <1>4, <1>5, <2>1
      <2>2. CASE i # Len(s) + 1
            <3>1. i \in 1 .. Len(s)
                  BY <1>1, <2>2
            <3>2. QED
                  BY <1>1, <1>2, <1>3, <1>4, <3>1
      <2>3. QED
            BY <2>1, <2>2
<1>7. ASSUME NEW i \in 1 .. Len(r), NEW j \in 1 .. Len(r),
             i < j, r[i].conn = r[j].conn
      PROVE  r[i].no < r[j].no
      <2>1. i \in 1 .. Len(s)
            BY <1>1, <1>7
      <2>2. CASE j = Len(s) + 1
            <3>1. r[i] = s[i] /\ r[j] = m /\ s[i].no <= o[m.conn]
                  BY <1>1, <1>3, <1>7, <2>1, <2>2
            <3>2. QED
                  BY <1>2, <1>4, <2>1, <3>1
      <2>3. CASE j # Len(s) + 1
            <3>1. j \in 1 .. Len(s)
                  BY <1>1, <2>3
            <3>2. QED
                  BY <1>1, <1>7, <2>1, <3>1 DEF Fifo!InOrder
      <2>4. QED
            BY <2>2, <2>3
<1>8. QED
      BY <1>6, <1>7 DEF Fifo!InOrder, Numbered, r, p

LEMMA InitFifo == Fifo!Init => FifoInv
<1> SUFFICES ASSUME Fifo!Init PROVE FifoInv
    OBVIOUS
<1>1. FifoTyped
      BY DEF Fifo!Init, FifoTyped, InQueue
<1>2. done \o InQueue = <<>>
      BY DEF Fifo!Init, InQueue
<1>3. QED
      BY <1>1, <1>2 DEF FifoInv, Numbered, Fifo!InOrder

LEMMA NextFifo == FifoInv /\ [Fifo!Next]_(Fifo!vars) => FifoInv'
<1> SUFFICES ASSUME FifoInv, [Fifo!Next]_(Fifo!vars) PROVE FifoInv'
    OBVIOUS
<1>1. /\ FifoTyped /\ Numbered(done \o InQueue, offered) /\ Fifo!InOrder(done \o InQueue)
      /\ done \o InQueue \in Seq(Fifo!Message)
      BY ConcatProperties DEF FifoInv, FifoTyped
<1>2. CASE UNCHANGED Fifo!vars
      BY <1>1, <1>2 DEF Fifo!vars, InQueue, FifoInv, FifoTyped
<1>3. ASSUME NEW c \in Conn, Fifo!Offer(c) PROVE FifoInv'
      <2> DEFINE m == [conn |-> c, no |-> offered[c] + 1]
      <2>1. m \in Fifo!Message /\ m.conn = c /\ m.no = offered[c] + 1
            BY <1>1 DEF Fifo!Message, FifoTyped
      <2>2. offered' = [offered EXCEPT ![m.conn] = @ + 1] /\ done' = done
            BY <1>3, <2>1 DEF Fifo!Offer
      <2>3. InQueue' = InQueue \/ InQueue' = Append(InQueue, m)
            BY <1>3 DEF Fifo!Offer, InQueue
      <2> HIDE DEF m
      <2>4. /\ Fifo!InOrder(Append(done \o InQueue, m))
            /\ Numbered(Append(done \o InQueue, m), offered')
            BY <1>1, <2>1, <2>2, InOrderAppend DEF FifoTyped
      <2>5. FifoTyped'
            <3> DEFINE appended == Append(InQueue, m)
            <3>0. InQueue \in Seq(Fifo!Message) /\ appended \in Seq(Fifo!Message)
                  BY <1>1, <2>1, AppendProperties DEF FifoTyped
            <3>1. InQueue' \in Seq(Fifo!Message)
                  <4>1. InQueue' \in {InQueue, appended}
                        BY <2>3
                  <4> HIDE DEF appended
                  <4>2. QED
                        BY <3>0, <4>1
            <3>2. offered' \in [Conn -> Nat]
                  BY <1>1, <2>1, <2>2 DEF FifoTyped
            <3>3. QED
                  BY <1>1, <2>2, <3>1, <3>2 DEF FifoTyped
      <2>6. CASE InQueue' = InQueue
            <3>1. ASSUME NEW i \in 1 .. Len(done \o InQueue)
                  PROVE  (done \o InQueue)[i].no <= offered'[(done \o InQueue)[i].conn]
                  <4>1. (done \o InQueue)[i] \in Fifo!Message
                        BY <1>1, ElementOfSeq
                  <4>2. /\ (done \o InQueue)[i].conn \in Conn /\ (done \o InQueue)[i].no \in Nat
                        /\ (done \o InQueue)[i].no <= offered[(done \o InQueue)[i].conn]
                        BY <1>1, <4>1, MessageFields DEF Numbered
                  <4>3. \A d \in Conn : /\ offered[d] \in Nat /\ offered'[d] \in Nat
                                        /\ offered[d] <= offered'[d]
                        BY <1>1, <2>1, <2>2 DEF FifoTyped
                  <4>4. QED
                        BY <4>2, <4>3, SMTT(30)
            <3>2. QED
                  BY <1>1, <2>2, <2>5, <2>6, <3>1 DEF FifoInv, Numbered
      <2>7. CASE InQueue' = Append(InQueue, m)
            <3>1. (done \o InQueue)' = Append(done \o InQueue, m)
                  BY <1>1, <2>1, <2>2, <2>7, Offered DEF FifoTyped
            <3>2. QED
                  BY <2>4, <2>5, <3>1 DEF FifoInv
      <2>8. QED
            BY <2>3, <2>6, <2>7
<1>4. CASE Fifo!Deliver
      <2>1. /\ InQueue # <<>> /\ InQueue' = Tail(InQueue) /\ done' = Append(done, Head(InQueue))
            /\ offered' = offered
            BY <1>4 DEF Fifo!Deliver, InQueue
      <2>2. Head(InQueue) \in Fifo!Message /\ Tail(InQueue) \in Seq(Fifo!Message)
            BY <1>1, <2>1, HeadTailProperties DEF FifoTyped
      <2>3. FifoTyped'
            BY <1>1, <2>1, <2>2, AppendProperties DEF FifoTyped
      <2>4. (done \o InQueue)' = done \o InQueue
            BY <1>1, <2>1, Delivered DEF FifoTyped
      <2>5. QED
            BY <1>1, <2>1, <2>3, <2>4 DEF FifoInv
<1>5. QED
      BY <1>2, <1>3, <1>4 DEF Fifo!Next

\* A lossy fifo hands out the messages of a connection in the order in which
\* they were offered, and none of them twice.
THEOREM OrderIsKept == Fifo!Spec => []Fifo!OrderKept
<1>1. FifoInv => Fifo!OrderKept
      BY DEF FifoInv, Fifo!OrderKept, InQueue
<1>2. QED
      BY InitFifo, NextFifo, <1>1, PTL DEF Fifo!Spec

\* Messages of one connection reach the workers in the order in which they
\* were received, none twice: what the lossy fifo guarantees holds of the
\* server that implements it.
THEOREM WorkersGetOrder == Spec => []WorkersSeeOrder
BY OrderIsKept, ServerIsLossyFifo, PTL DEF DeliversInOrder, WorkersSeeOrder

-----------------------------------------------------------------------------
(* Start and shutdown *)

Stopped(t) == thread[t] \in {"none", "failed", "ended"}

\* What main has created, and what it has joined.
LifeInv ==
    /\ \A t \in Thread : thread[t] # "none" => t \in Created
    /\ main = "create" => \A t \in Created : t < at => thread[t] # "none"
    /\ main \in {"run", "join", "end"} => \A t \in Created : thread[t] # "none"
    /\ main = "join" => \A t \in Created : t < at => Stopped(t)
    /\ main = "end" => \A t \in Created : Stopped(t)
    /\ main = "crashed" => \E t \in Created : thread[t] = "failed"

\* Once created a thread does not disappear, and a stopped one stays so.
LEMMA ThreadsKept ==
    ASSUME TypeInv, Next, ~Create
    PROVE  \A t \in Thread : /\ thread'[t] = "none" <=> thread[t] = "none"
                             /\ thread[t] = "failed" => thread'[t] = "failed"
                             /\ thread[t] = "ended" => thread'[t] = "ended"
<1>0. ThreadsTyped
      BY DEF TypeInv
<1>1. \/ thread' = thread
      \/ \E t \in Thread : \E from, to :
            /\ Goes(t, from, to)
            /\ from \notin {"none", "failed", "ended"} /\ to # "none"
      <2>1. CASE Exit \/ Main
            BY <2>1 DEF Exit, Main, Started, Leave, Join, Destroyed
      <2>2. CASE Dispatch
            BY <2>2, Roles DEF Dispatch, Enqueue, Refused, Discard
      <2>3. CASE Status
            <3>1. \E from, to : /\ Goes(StatusThread, from, to)
                                /\ from \notin {"none", "failed", "ended"} /\ to # "none"
                  BY <2>3 DEF Status, StatusTest, Snap, ReadRcv, ReadInc, WriteStatus,
                              Keep, Looping
            <3>2. QED
                  BY <3>1, Roles
      <2>4. ASSUME NEW c \in Conn, Receive(c)
            PROVE  \E t \in Thread : \E from, to :
                      /\ Goes(t, from, to)
                      /\ from \notin {"none", "failed", "ended"} /\ to # "none"
            BY <2>4, Roles DEF Receive
      <2>5. ASSUME NEW w \in Queue, Worker(w)
            PROVE  \E t \in Thread : \E from, to :
                      /\ Goes(t, from, to)
                      /\ from \notin {"none", "failed", "ended"} /\ to # "none"
            <3>1. \E from, to : /\ Goes(WorkerThread(w), from, to)
                                /\ from \notin {"none", "failed", "ended"} /\ to # "none"
                  BY <2>5, Roles DEF Worker, WorkerTest, Take, TakeNone, Looping
            <3>2. QED
                  BY <3>1, Roles
      <2>6. ASSUME NEW t \in Created, LoopEnds(t)
            PROVE  Goes(t, "test", "ended") /\ t \in Thread
            BY <2>6, Roles DEF LoopEnds
      <2>7. QED
            BY <2>1, <2>2, <2>3, <2>4, <2>5, <2>6 DEF Next
<1>2. QED
      BY <1>0, <1>1 DEF Goes, ThreadsTyped

LEMMA InitLife == Init => LifeInv
BY Roles DEF Init, LifeInv, Thread, Created

LEMMA NextLife == TypeInv /\ LifeInv /\ [Next]_vars => LifeInv'
<1> SUFFICES ASSUME TypeInv, LifeInv, [Next]_vars PROVE LifeInv'
    OBVIOUS
<1> DEFINE kept == \A t \in Thread : /\ thread'[t] = "none" <=> thread[t] = "none"
                                     /\ thread[t] = "failed" => thread'[t] = "failed"
                                     /\ thread[t] = "ended" => thread'[t] = "ended"
<1>0. ThreadsTyped /\ Created \subseteq Thread /\ Created' = Created /\ Joined = Created
      BY Roles DEF TypeInv, Created, StatusThread, ScanThread
<1>1. CASE UNCHANGED vars
      BY <1>0, <1>1 DEF vars, process, LifeInv, Stopped
<1>2. CASE Next /\ main' = main /\ at' = at
      <2>1. kept
            BY <1>0, <1>2, ThreadsKept DEF Create, TypeInv, DataTyped
      <2>2. QED
            BY <1>0, <1>2, <2>1 DEF LifeInv, Stopped
<1>3. CASE Create
      <2>1. /\ main = "create" /\ at \in Created /\ at' = at + 1 /\ main' = main
            /\ thread'[at] \in {"test", "failed"}
            /\ \A t \in Thread : t # at => thread'[t] = thread[t]
            BY <1>0, <1>3 DEF Create, Goes, ThreadsTyped
      <2>2. \A t \in Created : t < at + 1 => t < at \/ t = at
            BY <1>0, <2>1 DEF Thread
      <2>3. QED
            BY <1>0, <2>1, <2>2 DEF LifeInv
<1>4. CASE Started
      <2>1. \A t \in Created : t < at
            BY <1>4 DEF Started, Created, TypeInv, DataTyped, ScanThread, StatusThread
      <2>2. main = "create" /\ main' = "run" /\ thread' = thread
            BY <1>4 DEF Started
      <2>3. QED
            BY <1>0, <2>1, <2>2 DEF LifeInv
<1>5. CASE Leave
      BY <1>0, <1>5 DEF Leave, LifeInv, Thread
<1>6. CASE Join
      <2>1. main = "join" /\ at \in Created /\ thread' = thread
            BY <1>0, <1>6 DEF Join
      <2>2. \A t \in Created : t < at + 1 => t < at \/ t = at
            BY <1>0, <2>1 DEF Thread
      <2>3. CASE thread[at] \in {"ended", "failed"} /\ at' = at + 1 /\ main' = main
            BY <1>0, <2>1, <2>2, <2>3 DEF LifeInv, Stopped
      <2>4. CASE thread[at] \in {"none", "failed"} /\ main' = "crashed"
            BY <1>0, <2>1, <2>4 DEF LifeInv
      <2>5. QED
            BY <1>6, <2>3, <2>4 DEF Join
<1>7. CASE Destroyed
      <2>1. \A t \in Created : t < at
            BY <1>0, <1>7 DEF Destroyed, Created, TypeInv, DataTyped, ScanThread,
                              StatusThread
      <2>2. main = "join" /\ main' = "end" /\ thread' = thread
            BY <1>7 DEF Destroyed
      <2>3. QED
            BY <1>0, <2>1, <2>2 DEF LifeInv, Stopped
<1>8. Next => \/ main' = main /\ at' = at
              \/ Create \/ Started \/ Leave \/ Join \/ Destroyed
      BY DEF Next, Main, Exit, Dispatch, Enqueue, Refused, Discard, Status, StatusTest,
             Snap, ReadRcv, ReadInc, WriteStatus, Keep, Receive, Worker, WorkerTest,
             Take, TakeNone, LoopEnds, process
<1>9. QED
      BY <1>1, <1>2, <1>3, <1>4, <1>5, <1>6, <1>7, <1>8

\* Once ~AudioServer is done no thread of the server is left, even when some
\* of them could not be created.
THEOREM ShutdownIsClean == Spec => []NoThreadOutlivesServer
<1>1. Init => TypeInv /\ LifeInv
      BY InitTypeInv, InitLife
<1>2. (TypeInv /\ LifeInv) /\ [Next]_vars => (TypeInv /\ LifeInv)'
      BY NextTypeInv, NextLife
<1>3. LifeInv => NoThreadOutlivesServer
      BY Roles DEF LifeInv, NoThreadOutlivesServer, Stopped, Thread
<1>4. QED
      BY <1>1, <1>2, <1>3, PTL DEF Spec

-----------------------------------------------------------------------------
(* The status reports *)

Pc == thread[StatusThread]

\* A report under way: what it counts as pushed was pushed by now, and when
\* RcvQuery is read that was counted as received.
ReportInv ==
    /\ Pc = "queues" /\ snapped <= Target => report.push = 0 /\ report.pop = 0
    /\ Pc \in {"queues", "query", "rcv", "inc", "discards", "last"} =>
            report.pop <= report.push /\ report.push <= push[Target]
    /\ Pc \in {"inc", "discards", "last"} => report.push <= report.rcv
    /\ Pc = "last" => report.discard <= discardCnt

\* Until iLastRcvQueryCnt is set again, an increment is that of this report.
IncInv ==
    /\ incSum <= rcvCnt
    /\ Pc \notin {"rcv", "discards", "last"} => incSum <= lastRcvCnt

StatusInv == ReportInv /\ IncInv

\* The counters only grow.
LEMMA CountersGrow ==
    ASSUME TypeInv, [Next]_vars
    PROVE  /\ push[Target] <= push'[Target'] /\ discardCnt <= discardCnt'
           /\ rcvCnt <= rcvCnt'
<1>0. /\ push \in [Queue -> Nat] /\ Target \in Queue /\ Target' = Target
      /\ discardCnt \in Nat /\ rcvCnt \in Nat
      BY Roles DEF TypeInv, DataTyped, Target
<1>1. push[Target] \in Nat
      BY <1>0
<1>2. \/ UNCHANGED <<push, discardCnt, rcvCnt>>
      \/ push' = [push EXCEPT ![Target] = @ + 1] /\ UNCHANGED <<discardCnt, rcvCnt>>
      \/ discardCnt' = discardCnt + 1 /\ UNCHANGED <<push, rcvCnt>>
      \/ rcvCnt' = rcvCnt + 1 /\ UNCHANGED <<push, discardCnt>>
      BY Steps DEF Still, Enqueue, Refused, Discard, Receive, Take, rcv, queues
<1>3. QED
      BY <1>0, <1>1, <1>2

LEMMA InitStatus == Init => StatusInv
BY Roles DEF Init, StatusInv, ReportInv, IncInv, Pc, Thread

LEMMA NextStatus == TypeInv /\ CountInv /\ StatusInv /\ [Next]_vars => StatusInv'
<1> SUFFICES ASSUME TypeInv, CountInv, StatusInv, [Next]_vars PROVE StatusInv'
    OBVIOUS
<1> USE DEF process, rcv, queues
<1>0. /\ push \in [Queue -> Nat] /\ pop \in [Queue -> Nat] /\ Target \in Queue
      /\ push[Target] \in Nat /\ push'[Target'] \in Nat
      /\ discardCnt \in Nat /\ rcvCnt \in Nat /\ discardCnt' \in Nat /\ rcvCnt' \in Nat
      /\ report \in [push : Nat, pop : Nat, rcv : Nat, inc : Nat, discard : Nat]
      /\ snapped \in 0 .. ThreadCnt /\ lastRcvCnt \in Nat /\ incSum \in Nat
      /\ lastRcvCnt <= rcvCnt /\ Target' = Target /\ ThreadsTyped
      /\ StatusThread \in Thread
      <2>1. TypeInv'
            BY NextTypeInv
      <2>2. Target' = Target /\ Target' \in Queue'
            BY Roles DEF Target, Queue
      <2>3. push'[Target'] \in Nat
            BY <2>1, <2>2 DEF TypeInv, DataTyped
      <2>4. discardCnt' \in Nat /\ rcvCnt' \in Nat
            BY <2>1 DEF TypeInv, DataTyped
      <2>5. QED
            BY Roles, <2>2, <2>3, <2>4 DEF TypeInv, DataTyped
<1>1. /\ push[Target] <= push'[Target'] /\ discardCnt <= discardCnt'
      /\ rcvCnt <= rcvCnt'
      BY CountersGrow
<1>2. /\ report.push \in Nat /\ report.pop \in Nat /\ report.rcv \in Nat
      /\ report.discard \in Nat
      BY <1>0
<1>3. CASE UNCHANGED status /\ (Pc' = Pc \/ {Pc, Pc'} \subseteq Outside)
      <2>1. UNCHANGED <<snapped, report, lastRcvCnt, incSum>>
            BY <1>3 DEF status
      <2>2. ReportInv'
            BY <1>0, <1>1, <1>2, <1>3, <2>1 DEF StatusInv, ReportInv, Outside
      <2>3. IncInv'
            BY <1>0, <1>1, <1>3, <2>1 DEF StatusInv, IncInv, Outside
      <2>4. QED
            BY <2>2, <2>3 DEF StatusInv
<1>4. CASE StatusTest
      <2>1. /\ Pc = "test" /\ Pc' = "queues"
            /\ report' = NoReport /\ UNCHANGED <<rcvCnt, lastRcvCnt, incSum>>
            BY <1>0, <1>4 DEF StatusTest, Looping, Goes, Pc, ThreadsTyped
      <2>2. QED
            BY <1>0, <2>1 DEF StatusInv, ReportInv, IncInv, NoReport
<1>5. CASE Snap
      <2>1. /\ Pc = "queues" /\ Pc' \in {"queues", "query"}
            /\ snapped \in Queue /\ snapped' = snapped + 1
            /\ UNCHANGED <<push, rcvCnt, lastRcvCnt, incSum>>
            /\ Pc' = IF snapped + 1 \in Queue THEN "queues" ELSE "query"
            BY <1>0, <1>5 DEF Snap, Goes, Pc, ThreadsTyped
      <2>2. /\ report'.push = report.push + push[snapped]
            /\ report'.pop = report.pop + pop[snapped]
            BY <1>0, <1>5 DEF Snap
      <2>3. CASE snapped = Target
            <3>1. report.push = 0 /\ report.pop = 0
                  BY <1>0, <2>1, <2>3 DEF StatusInv, ReportInv, Queue
            <3>2. pop[Target] <= push[Target] /\ pop[Target] \in Nat
                  <4>1. Len(queue[Target]) \in Nat /\ Len(done) \in Nat
                        BY <1>0, LenProperties DEF TypeInv, DataTyped
                  <4>2. QED
                        BY <1>0, <4>1 DEF CountInv, Counted
            <3>3. report'.push = push[Target] /\ report'.pop = pop[Target]
                  BY <1>0, <2>2, <2>3, <3>1, <3>2
            <3>4. ~(snapped' <= Target')
                  BY <1>0, <2>1, <2>3 DEF Queue
            <3>5. QED
                  BY <1>0, <2>1, <3>2, <3>3, <3>4 DEF StatusInv, ReportInv, IncInv
      <2>4. CASE snapped # Target
            <3>1. push[snapped] = 0 /\ pop[snapped] = 0
                  BY <2>1, <2>4 DEF CountInv, Counted
            <3>2. report'.push = report.push /\ report'.pop = report.pop
                  BY <1>2, <2>2, <3>1
            <3>3. snapped' <= Target' => snapped <= Target
                  BY <1>0, <2>1 DEF Queue
            <3>4. QED
                  BY <1>0, <2>1, <3>2, <3>3 DEF StatusInv, ReportInv, IncInv
      <2>5. QED
            BY <2>3, <2>4
<1>6. CASE ReadRcv
      <2>1. /\ \/ Pc = "query" /\ Pc' = "inc"
               \/ Pc = "rcv" /\ Pc' = "discards"
            /\ UNCHANGED <<snapped, push, rcvCnt, lastRcvCnt, incSum>>
            BY <1>0, <1>6 DEF ReadRcv, Goes, Pc, ThreadsTyped
      <2>2. report'.push = report.push /\ report'.pop = report.pop /\ report'.rcv = rcvCnt
            BY <1>0, <1>6 DEF ReadRcv
      <2>3. push[Target] <= rcvCnt
            <3>1. Len(queue[Target]) \in Nat /\ Len(done) \in Nat /\ InHand \in Nat
                  BY <1>0, LenProperties DEF TypeInv, DataTyped, InHand
            <3>2. QED
                  BY <1>0, <3>1 DEF CountInv, Counted, Conservation
      <2>4. QED
            BY <1>0, <1>2, <2>1, <2>2, <2>3 DEF StatusInv, ReportInv, IncInv
<1>7. CASE ReadInc
      <2>1. /\ \/ Pc = "query" /\ Pc' = "rcv"
               \/ Pc = "inc" /\ Pc' = "discards"
            /\ UNCHANGED <<snapped, push, rcvCnt, lastRcvCnt>>
            /\ incSum' = incSum + (rcvCnt - lastRcvCnt)
            BY <1>0, <1>7 DEF ReadInc, Goes, Pc, ThreadsTyped
      <2>2. /\ report'.push = report.push /\ report'.pop = report.pop
            /\ report'.rcv = report.rcv
            BY <1>0, <1>7 DEF ReadInc
      <2>3. incSum' <= rcvCnt
            BY <1>0, <2>1 DEF StatusInv, IncInv
      <2>4. QED
            BY <1>0, <2>1, <2>2, <2>3 DEF StatusInv, ReportInv, IncInv
<1>8. CASE WriteStatus
      <2>1. /\ Pc = "discards" /\ Pc' = "last"
            /\ UNCHANGED <<snapped, push, discardCnt, rcvCnt, lastRcvCnt, incSum>>
            BY <1>0, <1>8 DEF WriteStatus, Goes, Pc, ThreadsTyped
      <2>2. /\ report'.push = report.push /\ report'.pop = report.pop
            /\ report'.rcv = report.rcv /\ report'.discard = discardCnt
            BY <1>0, <1>8 DEF WriteStatus
      <2>3. QED
            BY <1>0, <2>1, <2>2 DEF StatusInv, ReportInv, IncInv
<1>9. CASE Keep
      <2>1. /\ Pc = "last" /\ Pc' = "test" /\ lastRcvCnt' = rcvCnt
            /\ UNCHANGED <<rcvCnt, incSum>>
            BY <1>0, <1>9 DEF Keep, Goes, Pc, ThreadsTyped
      <2>2. QED
            BY <1>0, <2>1 DEF StatusInv, ReportInv, IncInv
<1>10. ASSUME NEW t \in Thread, t # StatusThread, NEW from, NEW to, Goes(t, from, to)
       PROVE  Pc' = Pc
       BY <1>0, <1>10 DEF Goes, Pc, ThreadsTyped
<1>11. ASSUME Next, ~StatusTest, ~Snap, ~ReadRcv, ~ReadInc, ~WriteStatus, ~Keep
       PROVE  UNCHANGED status /\ (Pc' = Pc \/ {Pc, Pc'} \subseteq Outside)
       <2>1. CASE Exit \/ Started \/ Leave \/ Join \/ Destroyed
             BY <2>1 DEF Exit, Started, Leave, Join, Destroyed, Pc
       <2>2. CASE Create
             <3>1. at \in Thread /\ UNCHANGED status
                   BY <2>2, Roles DEF Create
             <3>2. QED
                   BY <1>0, <2>2, <3>1 DEF Create, Goes, Pc, ThreadsTyped, Outside
       <2>3. CASE Dispatch
             BY <1>10, <2>3, Roles DEF Dispatch, Enqueue, Refused, Discard
       <2>4. ASSUME NEW c \in Conn, Receive(c) PROVE UNCHANGED status /\ Pc' = Pc
             BY <1>10, <2>4, Roles DEF Receive
       <2>5. ASSUME NEW w \in Queue, Worker(w) PROVE UNCHANGED status /\ Pc' = Pc
             <3>1. UNCHANGED status /\ \E from, to : Goes(WorkerThread(w), from, to)
                   BY <2>5 DEF Worker, WorkerTest, Take, TakeNone, Looping
             <3>2. QED
                   BY <1>10, <3>1, Roles
       <2>6. ASSUME NEW t \in Created, LoopEnds(t)
             PROVE  UNCHANGED status /\ (Pc' = Pc \/ {Pc, Pc'} \subseteq Outside)
             <3>1. t \in Thread /\ UNCHANGED status /\ Goes(t, "test", "ended")
                   BY <2>6, Roles DEF LoopEnds
             <3>2. QED
                   BY <1>0, <3>1 DEF Goes, Pc, ThreadsTyped, Outside
       <2>7. QED
             BY <1>11, <2>1, <2>2, <2>3, <2>4, <2>5, <2>6 DEF Next, Main, Status
<1>12. CASE UNCHANGED vars
       BY <1>3, <1>12 DEF vars, Pc
<1>13. QED
       BY <1>3, <1>4, <1>5, <1>6, <1>7, <1>8, <1>9, <1>11, <1>12

\* Although a report is put together from reads at different times, its push,
\* pop, receive and discard counts never contradict each other, and no message
\* is reported as an increment twice.
THEOREM ReportsAreConsistent == Spec => []ReportConsistent
<1>1. Init => TypeInv /\ CountInv /\ StatusInv
      BY InitTypeInv, InitCount, InitStatus
<1>2. (TypeInv /\ CountInv /\ StatusInv) /\ [Next]_vars =>
            (TypeInv /\ CountInv /\ StatusInv)'
      BY NextTypeInv, NextCount, NextStatus
<1>3. TypeInv /\ CountInv /\ StatusInv => ReportConsistent
      <2> SUFFICES ASSUME TypeInv, CountInv, StatusInv
                   PROVE  ReportConsistent
          OBVIOUS
      <2>1. /\ Len(queue[Target]) \in Nat /\ Len(done) \in Nat /\ InHand \in Nat
            /\ rcvCnt \in Nat /\ discardCnt \in Nat
            /\ report.push \in Nat /\ report.discard \in Nat
            BY Roles, LenProperties DEF TypeInv, DataTyped, InHand
      <2>2. push[Target] + discardCnt <= rcvCnt /\ push[Target] \in Nat
            BY <2>1 DEF CountInv, Counted, Conservation
      <2>3. QED
            BY <2>1, <2>2 DEF StatusInv, ReportInv, IncInv, Pc, ReportConsistent
<1>4. QED
      BY <1>1, <1>2, <1>3, PTL DEF Spec
=============================================================================
