----------------------------- MODULE AudioServer -----------------------------
(***************************************************************************)
(* The threads of the server process: main (systemInitialize, StartServer, *)
(* ~AudioServer), the listen thread as the producer of audio messages, the *)
(* worker threads that take them off the data queues, the status thread    *)
(* that reports the counters, and the thread scanner.                      *)
(*                                                                         *)
(* How the listen thread gets at its messages is in EpollServer and        *)
(* ReadFunc; here it finds one now and then.  The data queues are          *)
(* libmmdecoder.so's: EnDataQueue, DeDataQueue and GetDataQueueInfo each   *)
(* are one step.  Threads are numbered in the order of their creation.     *)
(***************************************************************************)
EXTENDS Integers, Sequences

CONSTANTS
    Conn,           \* connections
    ThreadCnt,      \* g_iProcessThreadCnt: workers, and queues
    QueueCap,       \* messages a data queue holds
    ScanOn,         \* g_coordinationRate > 0
    MayFail,        \* threads pthread_create may fail for
    MaxMsgs         \* bound: messages in all

ASSUME ServerAssumption ==
    /\ ThreadCnt \in Nat \ {0}
    /\ QueueCap \in Nat \ {0}
    /\ ScanOn \in BOOLEAN
    /\ MaxMsgs \in Nat

Queue        == 0 .. ThreadCnt - 1
ListenThread == 1
WorkerThread(w) == w + 2
StatusThread == ThreadCnt + 2
ScanThread   == ThreadCnt + 3

\* the threads StartServer creates
Created == 1 .. IF ScanOn THEN ScanThread ELSE StatusThread

\* Mutant: the status thread is not waited for.
JoinedButStatus == 1 .. ThreadCnt + 1

\* the threads ~AudioServer joins
Joined == 1 .. IF ScanOn THEN ScanThread ELSE StatusThread

VARIABLES
    isExit,     \* g_isExit
    main,       \* "create", "run", "join", "end", "crashed"
    at,         \* the thread main creates or joins next
    thread,     \* thread[t]: "none", "failed", "ended", or where t is
    cur,        \* the connection of the message in readFunc's hands
    offered,    \* offered[c]: messages of c given to EnDataQueue
    queue,      \* g_pRcvDataQueue[w]
    push, pop,  \* its counters
    rcvCnt,     \* g_iRcvPcmBlockCnt
    discardCnt, \* g_iDiscardCnt
    done,       \* the messages workers took, in order
    snapped,    \* queues the status thread has looked at
    report,     \* the report it composes
    lastRcvCnt, \* iLastRcvQueryCnt
    incSum      \* history: the sum of all reported increments

process == <<isExit, main, at>>
rcv     == <<cur, offered, rcvCnt, discardCnt>>
queues  == <<queue, push, pop, done>>
status  == <<snapped, report, lastRcvCnt, incSum>>
vars    == <<process, thread, rcv, queues, status>>

Message     == [conn : Conn, no : Nat \ {0}]
NoReport    == [push |-> 0, pop |-> 0, rcv |-> 0, inc |-> 0, discard |-> 0]
Goes(t, from, to) == thread[t] = from /\ thread' = [thread EXCEPT ![t] = to]

Init ==
    /\ isExit = FALSE /\ main = "create" /\ at = 1
    /\ thread = [t \in 1 .. ScanThread |-> "none"]
    /\ cur \in Conn
    /\ offered = [c \in Conn |-> 0]
    /\ rcvCnt = 0 /\ discardCnt = 0
    /\ queue = [w \in Queue |-> <<>>]
    /\ push = [w \in Queue |-> 0] /\ pop = [w \in Queue |-> 0]
    /\ done = <<>>
    /\ snapped = 0 /\ report = NoReport
    /\ lastRcvCnt = 0 /\ incSum = 0

-----------------------------------------------------------------------------
(* The main thread *)

\* SIGINT
Exit ==
    /\ ~isExit /\ isExit' = TRUE
    /\ UNCHANGED <<main, at, thread, rcv, queues, status>>

\* StartServer.  A failure is logged and otherwise ignored.
Create ==
    /\ main = "create" /\ at \in Created
    /\ \/ Goes(at, "none", "test")
       \/ at \in MayFail /\ Goes(at, "none", "failed")
    /\ at' = at + 1
    /\ UNCHANGED <<isExit, main, rcv, queues, status>>

Started ==
    /\ main = "create" /\ at \notin Created
    /\ main' = "run"
    /\ UNCHANGED <<isExit, at, thread, rcv, queues, status>>

\* the loop of systemInitialize ends, and with it the life of myServer
Leave ==
    /\ main = "run" /\ isExit
    /\ main' = "join" /\ at' = 1
    /\ UNCHANGED <<isExit, thread, rcv, queues, status>>

\* pthread_join.  The pthread_t of a thread that could not be created was
\* never written: joining it may fail at once or kill the process.
Join ==
    /\ main = "join" /\ at \in Joined
    /\ \/ thread[at] \in {"ended", "failed"} /\ at' = at + 1 /\ UNCHANGED main
       \/ thread[at] \in {"none", "failed"} /\ main' = "crashed" /\ UNCHANGED at
    /\ UNCHANGED <<isExit, thread, rcv, queues, status>>

Destroyed ==
    /\ main = "join" /\ at \notin Joined
    /\ main' = "end"
    /\ UNCHANGED <<isExit, at, thread, rcv, queues, status>>

-----------------------------------------------------------------------------
(* The listen thread *)

\* readFunc completes a DT_WAV message.  It goes on with what is in its
\* buffer, and with the other events of the batch, when g_isExit is set.
Receive(c) ==
    /\ rcvCnt < MaxMsgs
    /\ Goes(ListenThread, "test", "enqueue")
    /\ cur' = c
    /\ rcvCnt' = rcvCnt + 1
    /\ UNCHANGED <<process, offered, discardCnt, queues, status>>

\* Mutant: the queues are used in turn.
TargetInTurn == rcvCnt % ThreadCnt

\* idx starts from 0 for every message
Target == (0 + 1) % ThreadCnt

\* EnDataQueue returned a positive number
Enqueue ==
    /\ Goes(ListenThread, "enqueue", "test")
    /\ Len(queue[Target]) < QueueCap
    /\ offered' = [offered EXCEPT ![cur] = @ + 1]
    /\ queue' = [queue EXCEPT ![Target] =
                    Append(@, [conn |-> cur, no |-> offered[cur] + 1])]
    /\ push' = [push EXCEPT ![Target] = @ + 1]
    /\ UNCHANGED <<process, cur, rcvCnt, discardCnt, pop, done, status>>

\* EnDataQueue returned QUEUE_IS_FULL or another error
Refused ==
    /\ Goes(ListenThread, "enqueue", "discard")
    /\ offered' = [offered EXCEPT ![cur] = @ + 1]
    /\ UNCHANGED <<process, cur, rcvCnt, discardCnt, queues, status>>

\* Mutant: g_iDiscardCnt++ left out.
DiscardUncounted ==
    /\ Goes(ListenThread, "discard", "test")
    /\ UNCHANGED <<process, rcv, queues, status>>

Discard ==
    /\ Goes(ListenThread, "discard", "test")
    /\ discardCnt' = discardCnt + 1
    /\ UNCHANGED <<process, cur, offered, rcvCnt, queues, status>>

-----------------------------------------------------------------------------
(* Every thread's loop: while (!g_isExit) *)

\* Mutant: while (true).
LoopEndsNever(t) == FALSE /\ UNCHANGED vars

LoopEnds(t) ==
    /\ isExit /\ Goes(t, "test", "ended")
    /\ UNCHANGED <<process, rcv, queues, status>>

Looping(t) ==
    /\ ~isExit
    /\ Goes(t, "test", IF t = StatusThread THEN "queues" ELSE "take")

\* A worker enters its loop body.  (The scanner's body changes nothing here.)
WorkerTest(w) ==
    /\ Looping(WorkerThread(w))
    /\ UNCHANGED <<process, rcv, queues, status>>

\* DeDataQueue returned a message: it is at the worker's disposal.
Take(w) ==
    /\ Goes(WorkerThread(w), "take", "test")
    /\ queue[w] # <<>>
    /\ done' = Append(done, Head(queue[w]))
    /\ queue' = [queue EXCEPT ![w] = Tail(@)]
    /\ pop' = [pop EXCEPT ![w] = @ + 1]
    /\ UNCHANGED <<process, rcv, push, status>>

\* Mutant: break instead of continue.
TakeNoneEnds(w) ==
    /\ Goes(WorkerThread(w), "take", "ended")
    /\ queue[w] = <<>>
    /\ UNCHANGED <<process, rcv, queues, status>>

\* DeDataQueue returned EMPTY_QUEUE_NO_DATA: usleep and go on.
TakeNone(w) ==
    /\ Goes(WorkerThread(w), "take", "test")
    /\ queue[w] = <<>>
    /\ UNCHANGED <<process, rcv, queues, status>>

-----------------------------------------------------------------------------
(* The status thread *)

\* Mutant: iTotalRcvCnt and iTotalFinishCnt are not reset.
StatusTestNoReset ==
    /\ Looping(StatusThread)
    /\ snapped' = 0
    /\ UNCHANGED <<process, rcv, queues, report, lastRcvCnt, incSum>>

StatusTest ==
    /\ Looping(StatusThread)
    /\ report' = NoReport /\ snapped' = 0
    /\ UNCHANGED <<process, rcv, queues, lastRcvCnt, incSum>>

\* GetDataQueueInfo, one queue at a time
Snap ==
    /\ snapped \in Queue
    /\ Goes(StatusThread, "queues",
            IF snapped + 1 \in Queue THEN "queues" ELSE "query")
    /\ report' = [report EXCEPT !.push = @ + push[snapped],
                                !.pop = @ + pop[snapped]]
    /\ snapped' = snapped + 1
    /\ UNCHANGED <<process, rcv, queues, lastRcvCnt, incSum>>

\* g_iRcvPcmBlockCnt is read twice for one snprintf, in an order C++ leaves
\* open: RcvQuery ...
ReadRcv ==
    /\ \/ Goes(StatusThread, "query", "inc")
       \/ Goes(StatusThread, "rcv", "discards")
    /\ report' = [report EXCEPT !.rcv = rcvCnt]
    /\ UNCHANGED <<process, rcv, queues, snapped, lastRcvCnt, incSum>>

\* ... and inc, what came since the last report
ReadInc ==
    /\ \/ Goes(StatusThread, "query", "rcv")
       \/ Goes(StatusThread, "inc", "discards")
    /\ report' = [report EXCEPT !.inc = rcvCnt - lastRcvCnt]
    /\ incSum' = incSum + (rcvCnt - lastRcvCnt)
    /\ UNCHANGED <<process, rcv, queues, snapped, lastRcvCnt>>

\* g_iDiscardCnt, and the report is written.
WriteStatus ==
    /\ Goes(StatusThread, "discards", "last")
    /\ report' = [report EXCEPT !.discard = discardCnt]
    /\ UNCHANGED <<process, rcv, queues, snapped, lastRcvCnt, incSum>>

Keep ==
    /\ Goes(StatusThread, "last", "test")
    /\ lastRcvCnt' = rcvCnt
    /\ UNCHANGED <<process, rcv, queues, snapped, report, incSum>>

-----------------------------------------------------------------------------
Main      == Create \/ Started \/ Leave \/ Join \/ Destroyed
Dispatch  == Enqueue \/ Refused \/ Discard
Worker(w) == WorkerTest(w) \/ Take(w) \/ TakeNone(w)
Status    == StatusTest \/ Snap \/ ReadRcv \/ ReadInc \/ WriteStatus \/ Keep

Running == main \notin {"end", "crashed"}
Next ==
    /\ Running
    /\ \/ Exit \/ Main \/ Dispatch \/ Status
       \/ \E c \in Conn : Receive(c)
       \/ \E w \in Queue : Worker(w)
       \/ \E t \in Created : LoopEnds(t)

Spec == Init /\ [][Next]_vars

\* The scheduler runs every thread, and main.  Messages need not come.
FairSpec ==
    /\ Spec
    /\ WF_vars(Running /\ Main)
    /\ WF_vars(Running /\ (Dispatch \/ LoopEnds(ListenThread)))
    /\ WF_vars(Running /\ (Status \/ LoopEnds(StatusThread)))
    /\ WF_vars(Running /\ LoopEnds(ScanThread))
    /\ \A w \in Queue :
          WF_vars(Running /\ (Worker(w) \/ LoopEnds(WorkerThread(w))))
-----------------------------------------------------------------------------
(* Properties *)

Outside == {"none", "failed", "ended", "test"}

\* Every variable has its type; a thread is only where its own code can be.
TypeOK ==
    /\ isExit \in BOOLEAN
    /\ main \in {"create", "run", "join", "end", "crashed"}
    /\ at \in 1 .. ScanThread + 1
    /\ thread \in [1 .. ScanThread -> Outside \cup {"enqueue", "discard", "take",
                        "queues", "query", "rcv", "inc", "discards", "last"}]
    /\ thread[ListenThread] \in Outside \cup {"enqueue", "discard"}
    /\ \A w \in Queue : thread[WorkerThread(w)] \in Outside \cup {"take"}
    /\ thread[StatusThread] \in Outside \cup
            {"queues", "query", "rcv", "inc", "discards", "last"}
    /\ thread[ScanThread] \in Outside
    /\ cur \in Conn
    /\ offered \in [Conn -> Nat]
    /\ queue \in [Queue -> Seq(Message)]
    /\ push \in [Queue -> Nat] /\ pop \in [Queue -> Nat]
    /\ rcvCnt \in Nat /\ discardCnt \in Nat
    /\ done \in Seq(Message)
    /\ snapped \in 0 .. ThreadCnt
    /\ report \in [push : Nat, pop : Nat, rcv : Nat, inc : Nat, discard : Nat]
    /\ lastRcvCnt \in Nat /\ incSum \in Nat

InHand == IF thread[ListenThread] \in {"enqueue", "discard"} THEN 1 ELSE 0

\* Every message counted in g_iRcvPcmBlockCnt is in one place: taken by a
\* worker, in a queue, discarded and counted so, or in the listen thread's
\* hands; and just one of the queues is ever used.
Conservation ==
    /\ \A w \in Queue : queue[w] # <<>> => w = Target
    /\ rcvCnt = Len(done) + Len(queue[Target]) + discardCnt + InHand

\* ~AudioServer waits for every thread it started: none of them is left to
\* use the AudioServer, the queues or the logs once it is gone.
NoThreadOutlivesServer ==
    main = "end" => \A t \in 1 .. ScanThread : thread[t] \in {"none", "failed", "ended"}

\* A status report is made of reads at different times while messages come
\* and go.  Still, as its reader expects, no more was popped than pushed, no
\* more pushed than received, discards are not counted as pushed, and a message
\* is reported as new ("inc") at most once.
ReportConsistent ==
    /\ thread[StatusThread] = "last" =>
        /\ report.pop <= report.push /\ report.push <= report.rcv
        /\ report.push + report.discard <= rcvCnt
    /\ incSum <= rcvCnt

Fifo == INSTANCE LossyFifo WITH chan <- queue[Target], got <- done

\* The listen thread, its one data queue and the workers are a lossy fifo:
\* a message is dropped when it is offered or reaches the workers once.
DeliversInOrder == Fifo!Spec

\* Messages of a connection reach the workers in order, at most once.
WorkersSeeOrder == Fifo!OrderKept

\* What EnDataQueue accepted is taken by a worker, unless the server exits
\* first (it then drops what is queued).
AcceptedIsTaken ==
    \A c \in Conn, n \in 1 .. MaxMsgs :
        LET m == [conn |-> c, no |-> n]
        IN  (\E i \in 1 .. Len(queue[Target]) : queue[Target][i] = m)
                ~> (isExit \/ \E i \in 1 .. Len(done) : done[i] = m)

\* After SIGINT the process ends.
ShutdownCompletes == isExit ~> main = "end"
=============================================================================
