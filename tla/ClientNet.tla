------------------------------ MODULE ClientNet ------------------------------
(***************************************************************************)
(* The audio client: send_pcm fills the local queue, the network thread    *)
(* (netWorkFunc) connects, sends what is queued piece by piece and         *)
(* reconnects when the connection is lost; close_audio_client stops it.    *)
(*                                                                         *)
(* The server of this repository sends nothing, so recv finds no data or   *)
(* the end of the connection; what netWorkFunc does with received bytes    *)
(* is the subject of ClientRecv.  Data is counted in units, the first unit *)
(* of a message holding its NetMsgHeader.                                  *)
(***************************************************************************)
EXTENDS Integers, Sequences, FiniteSets

CONSTANTS
    Data,       \* what may be given to send_pcm, see DataAssumption
    QueueCap,   \* messages m_pQueueLocalRcv holds
    MaxFds,     \* descriptors left for sockets
    MayFail,    \* threads pthread_create may fail for
    MaxCalls,   \* bound: calls of send_pcm
    MaxBreaks   \* bound: connections that break

\* size: units of the data; want: units its first bytes announce when they
\* are read as a NetMsgHeader.  The header send_pcm makes is not enqueued, so
\* the two are equal only if the caller's data begins with one.
ASSUME DataAssumption ==
    /\ Data \subseteq [size : Nat \ {0}, want : Nat]
    /\ QueueCap \in Nat \ {0} /\ MaxFds \in Nat \ {0}
    /\ MaxCalls \in Nat /\ MaxBreaks \in Nat

Thread      == {"net", "status", "deal", "free"}
\* the order of initThreadFunc; free_memory_thread_ is never created
CreateOrder == <<"net", "status", "deal">>

\* Mutant: msg_deal_thread_ is not waited for.
JoinOrderButDeal == <<"net", "status", "free">>

\* the order of ~ClientManagement
JoinOrder   == <<"net", "deal", "status", "free">>

VARIABLES
    isExit,         \* g_isExit
    app,            \* the caller: "init", "run", "join", "closed", "crashed"
    at,             \* position in CreateOrder or JoinOrder
    thread,         \* thread[t]: "none", "failed", "ended", or where t is
    networkError,   \* g_networkError
    sock,           \* m_TcpClient.sock_fd: number of a connection, 0 for -1
    conns,          \* connections made so far
    open,           \* connections whose descriptor is not closed
    linkUp,         \* the connection of sock works
    given,          \* what send_pcm was called with, call by call
    queue,          \* m_pQueueLocalRcv, by number of call
    accepted,       \* history: calls whose data was enqueued
    cur,            \* pSendBuf, by number of call
    want,           \* iWantSendLen
    sent,           \* iSentBytes
    handed          \* history: units handed to TCP, in order

caller == <<isExit, app, at>>
link   == <<networkError, sock, conns, open, linkUp>>
api    == <<given, accepted>>
sends  == <<cur, want, sent, handed>>
vars   == <<caller, thread, link, api, queue, sends>>

Goes(t, from, to) == thread[t] = from /\ thread' = [thread EXCEPT ![t] = to]
Net(from, to) == Goes("net", from, to)

Init ==
    /\ isExit = FALSE /\ app = "init" /\ at = 1
    /\ thread = [t \in Thread |-> "none"]
    /\ networkError = TRUE /\ sock = 0 /\ conns = 0 /\ open = {} /\ linkUp = FALSE
    /\ given = <<>> /\ queue = <<>> /\ accepted = {}
    /\ cur = 0 /\ want = 0 /\ sent = 0 /\ handed = <<>>

-----------------------------------------------------------------------------
(* The caller: init_audio_client, send_pcm, close_audio_client *)

\* initThreadFunc.  A failure is logged and otherwise ignored.
Create ==
    /\ app = "init" /\ at <= Len(CreateOrder)
    /\ \/ Goes(CreateOrder[at], "none", "loop")
       \/ CreateOrder[at] \in MayFail /\ Goes(CreateOrder[at], "none", "failed")
    /\ at' = at + 1
    /\ UNCHANGED <<isExit, app, link, api, queue, sends>>

Created ==
    /\ app = "init" /\ at > Len(CreateOrder)
    /\ app' = "run"
    /\ UNCHANGED <<isExit, at, thread, link, api, queue, sends>>

\* Whether EnDataQueue takes the data or not, send_pcm returns 0: iRet is
\* compared with iBytes, which nobody has written.
SendPcm(d) ==
    /\ app = "run" /\ Len(given) < MaxCalls
    /\ given' = Append(given, d)
    /\ \/ /\ Len(queue) < QueueCap
          /\ queue' = Append(queue, Len(given) + 1)
          /\ accepted' = accepted \cup {Len(given) + 1}
       \/ UNCHANGED <<queue, accepted>>
    /\ UNCHANGED <<caller, thread, link, sends>>

Close ==
    /\ app = "run"
    /\ isExit' = TRUE /\ app' = "join" /\ at' = 1
    /\ UNCHANGED <<thread, link, api, queue, sends>>

\* pthread_join.  A pthread_t that pthread_create did not write holds
\* whatever was in that memory: the join fails at once or kills the process.
Join ==
    /\ app = "join" /\ at <= Len(JoinOrder)
    /\ \/ thread[JoinOrder[at]] \in {"none", "failed", "ended"}
          /\ at' = at + 1 /\ UNCHANGED app
       \/ thread[JoinOrder[at]] \in {"none", "failed"}
          /\ app' = "crashed" /\ UNCHANGED at
    /\ UNCHANGED <<isExit, thread, link, api, queue, sends>>

\* ~TcpClient closes the socket it knows of.
Closed ==
    /\ app = "join" /\ at > Len(JoinOrder)
    /\ app' = "closed"
    /\ open' = open \ {sock} /\ sock' = 0
    /\ UNCHANGED <<isExit, at, thread, networkError, conns, linkUp, api, queue, sends>>

-----------------------------------------------------------------------------
(* The network thread *)

Cur == given[cur]

\* what is left to send lies behind the data that was given
Overrun == want > 0 /\ sent >= Cur.size

\* while (!g_isExit)
LoopTest ==
    /\ Net("loop", IF isExit THEN "ended" ELSE "connect")
    /\ UNCHANGED <<caller, link, api, queue, sends>>

\* connectToServer finds the connection in order.
StillConnected ==
    /\ Net("connect", "recv") /\ ~networkError
    /\ UNCHANGED <<caller, link, api, queue, sends>>

\* connectServer overwrites sock_fd: the descriptor of the connection that
\* was lost is not closed.
Connected ==
    /\ Net("connect", "recv") /\ networkError
    /\ Cardinality(open) < MaxFds
    /\ networkError' = FALSE
    /\ conns' = conns + 1 /\ sock' = conns + 1
    /\ open' = open \cup {conns + 1} /\ linkUp' = TRUE
    /\ UNCHANGED <<caller, api, queue, sends>>

\* socket() or connect() fails, or keepAlive() does; the new descriptor, if
\* there is one, is closed.  Then the thread sleeps for up to 20 s.
ConnectFails ==
    /\ Net("connect", "retry") /\ networkError
    /\ sock' = 0 /\ linkUp' = FALSE
    /\ UNCHANGED <<caller, networkError, conns, open, api, queue, sends>>

\* Mutant: while (!connectToServer()).
RetryAlways ==
    /\ Net("retry", "connect")
    /\ UNCHANGED <<caller, link, api, queue, sends>>

\* while (!connectToServer() && !g_isExit): with g_isExit set the thread
\* goes on to recv, on socket -1.
Retry ==
    /\ Net("retry", IF isExit THEN "recv" ELSE "connect")
    /\ UNCHANGED <<caller, link, api, queue, sends>>

\* recv answers EAGAIN or EINTR.
RecvNothing ==
    /\ Net("recv", "send") /\ sock # 0 /\ linkUp
    /\ UNCHANGED <<caller, link, api, queue, sends>>

\* Mutant: the message is sent again from its start, but the length that
\* remains is not put back.
RecvLostRewinds ==
    /\ Net("recv", "loop") /\ ~linkUp
    /\ networkError' = TRUE /\ sent' = 0
    /\ UNCHANGED <<caller, sock, conns, open, linkUp, api, queue, cur, want, handed>>

\* Mutant: the send state is reset along with the receive state.
RecvLostForgets ==
    /\ Net("recv", "loop") /\ ~linkUp
    /\ networkError' = TRUE /\ sent' = 0 /\ want' = 0
    /\ UNCHANGED <<caller, sock, conns, open, linkUp, api, queue, cur, handed>>

\* Mutant: g_networkError = true left out.
RecvLostUnnoticed ==
    /\ Net("recv", "loop") /\ ~linkUp
    /\ UNCHANGED <<caller, link, api, queue, sends>>

\* recv answers 0 or an error.  The receive state is reset; the send state
\* and the socket stay as they are.
RecvLost ==
    /\ Net("recv", "loop") /\ ~linkUp
    /\ networkError' = TRUE
    /\ UNCHANGED <<caller, sock, conns, open, linkUp, api, queue, sends>>

\* DeDataQueue has nothing.
NothingToSend ==
    /\ Net("send", "loop") /\ want = 0 /\ queue = <<>>
    /\ UNCHANGED <<caller, link, api, queue, sends>>

\* DeDataQueue gives a message.  Its length is what its first bytes say.
TakeNext ==
    /\ want = 0 /\ queue # <<>>
    /\ cur' = Head(queue) /\ queue' = Tail(queue)
    /\ want' = given[cur'].want /\ sent' = 0
    /\ Net("send", IF want' = 0 THEN "loop" ELSE "send")
    /\ UNCHANGED <<caller, link, api, handed>>

\* send takes n units.  It still may when the connection has just gone.
SendSome(n) ==
    /\ Net("send", "loop") /\ want > 0
    /\ n \in 1 .. want
    /\ want' = want - n
    /\ sent' = IF want' = 0 THEN 0 ELSE sent + n
    /\ handed' = handed \o
          [k \in 1 .. n |-> [conn |-> sock, no |-> cur, unit |-> sent + k]]
    /\ UNCHANGED <<caller, link, api, queue, cur>>

\* send returns -1: EAGAIN, a broken connection or a bad address are all
\* answered by usleep and another turn.  (It never returns 0 here, so the
\* branch that closes the socket is not reached.)
SendFails ==
    /\ Net("send", "loop") /\ want > 0
    /\ UNCHANGED <<caller, link, api, queue, sends>>

-----------------------------------------------------------------------------
\* outputStatusThread and resultDealThread: while (!g_isExit)
LoopEnds(t) ==
    /\ isExit /\ Goes(t, "loop", "ended")
    /\ UNCHANGED <<caller, link, api, queue, sends>>

\* The server closes the connection, or the network does.
Break ==
    /\ linkUp /\ conns <= MaxBreaks
    /\ linkUp' = FALSE
    /\ UNCHANGED <<caller, thread, networkError, sock, conns, open, api, queue, sends>>

-----------------------------------------------------------------------------
Caller == Create \/ Created \/ Join \/ Closed
Connect == StillConnected \/ Connected \/ ConnectFails \/ Retry
Send == NothingToSend \/ TakeNext \/ SendFails \/ \E n \in 1 .. want : SendSome(n)
NetWork == LoopTest \/ Connect \/ RecvNothing \/ RecvLost \/ Send

Running == app \notin {"closed", "crashed"}
Next ==
    /\ Running
    /\ \/ Caller \/ Close \/ NetWork \/ Break
       \/ \E d \in Data : SendPcm(d)
       \/ \E t \in {"status", "deal"} : LoopEnds(t)

Spec == Init /\ [][Next]_vars

\* The caller's library code and the threads are scheduled.  The server can
\* be reached and reads: what is tried again and again succeeds at last.
FairSpec ==
    /\ Spec
    /\ WF_vars(Running /\ Caller)
    /\ WF_vars(Running /\ NetWork)
    /\ WF_vars(Running /\ LoopEnds("status"))
    /\ WF_vars(Running /\ LoopEnds("deal"))
    /\ SF_vars(Running /\ Connected)
    /\ SF_vars(Running /\ want > 0 /\ ~Overrun /\ \E n \in 1 .. want : SendSome(n))
-----------------------------------------------------------------------------
(* Properties *)

Stopped == {"none", "failed", "ended"}
Unit    == [conn : Nat \ {0}, no : Nat \ {0}, unit : Nat \ {0}]

\* Every variable has its type; a message being sent is one that was given.
TypeOK ==
    /\ isExit \in BOOLEAN
    /\ app \in {"init", "run", "join", "closed", "crashed"}
    /\ at \in 1 .. Len(JoinOrder) + 1
    /\ thread \in [Thread -> Stopped \cup {"loop", "connect", "retry", "recv", "send"}]
    /\ thread["status"] \in Stopped \cup {"loop"}
    /\ thread["deal"] \in Stopped \cup {"loop"} /\ thread["free"] = "none"
    /\ networkError \in BOOLEAN /\ linkUp \in BOOLEAN
    /\ conns \in Nat /\ sock \in 0 .. conns /\ open \subseteq 1 .. conns
    /\ given \in Seq(Data)
    /\ accepted \subseteq 1 .. Len(given)
    /\ queue \in Seq(accepted)
    /\ cur \in accepted \cup {0} /\ (want > 0 => cur \in accepted)
    /\ want \in Nat /\ sent \in Nat
    /\ handed \in Seq(Unit)

\* Unit v is the one to be sent after u: the next of its message, or the
\* first of the next message that was accepted and is not empty.
Follows(u, v) ==
    \/ v.no = u.no /\ v.unit = u.unit + 1
    \/ /\ v.unit = 1 /\ u.no < v.no /\ u.unit = given[u.no].want
       /\ \A m \in accepted : u.no < m /\ m < v.no => given[m].want = 0

\* Over all reconnections, and whatever send takes at a time, TCP gets the
\* accepted messages in order and each unit by unit as far as its first bytes
\* announce: no unit twice, and none left out in between.
UnitsInOrder ==
    \A i \in 1 .. Len(handed) - 1 : Follows(handed[i], handed[i + 1])

Handed(m, n) == \E i \in 1 .. Len(handed) : handed[i].no = m /\ handed[i].unit = n

\* The data of call m went to TCP to its end, as send_pcm was given it.
SentWhole(m) == Handed(m, given[m].size)

\* iWantSendLen is read from the data itself and the length send_pcm was given
\* is forgotten: data that announces less than it is gets cut there, and data
\* that announces nothing is skipped.
SentCut(m) ==
    /\ given[m].want < given[m].size
    /\ given[m].want = 0 \/ Handed(m, given[m].want)

\* No accepted message gets lost within the client: it is queued, being sent,
\* or was handed to TCP up to the last unit send_pcm was given.  One
\* exception: data that announces less than it is was cut there.
NothingDropped ==
    \A m \in accepted :
        \/ \E i \in 1 .. Len(queue) : queue[i] = m
        \/ m = cur /\ want > 0
        \/ SentWhole(m) \/ SentCut(m)

\* ~ClientManagement waits for the threads that use the object.
NoThreadOutlivesClient ==
    app = "closed" => \A t \in Thread : thread[t] \in Stopped

\* Descriptors run out because lost connections are not closed.
OutOfFds == Cardinality(open) >= MaxFds /\ networkError

\* What send_pcm enqueued is sent up to the last unit it was given, unless it
\* announces less and is cut there, the client is closed, no descriptor is
\* left for another connection, the network thread could not be created, or
\* data that announces more than it is made the thread read too far.
AcceptedIsSent ==
    \A m \in 1 .. MaxCalls :
        m \in accepted ~>
            \/ m \in accepted /\ (SentWhole(m) \/ SentCut(m))
            \/ isExit \/ OutOfFds \/ Overrun \/ thread["net"] = "failed"

\* close_audio_client comes to an end (or to the join that kills it).
CloseCompletes == isExit ~> ~Running
=============================================================================
