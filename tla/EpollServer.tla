------------------------------ MODULE EpollServer ------------------------------
(***************************************************************************)
(* EpollServer::epollRun: the listen thread of the server.  It accepts     *)
(* connections, gives each one an EpollMateData, waits for events, calls   *)
(* the read or the write callback, and re-arms or closes the connection    *)
(* by the callback's code.                                                 *)
(*                                                                         *)
(* A connection, its socket and its EpollMateData are one identity here:   *)
(* getOldEpollMateData always answers nullptr, so every accepted socket    *)
(* gets an EpollMateData of its own and the branch that reuses an old one  *)
(* is never taken.  Received data is counted in portions; what readFunc    *)
(* makes of the bytes is in ReadFunc.                                      *)
(*                                                                         *)
(* The sockets are TCP sockets that are always writable (the server never  *)
(* sends), so a registered socket has an event whenever it is (re-)armed:  *)
(* EPOLLIN when it is readable or its peer is gone, else EPOLLOUT.  TCP    *)
(* never reports EPOLLERR or EPOLLHUP without EPOLLIN, so the third branch *)
(* of the dispatcher does not run, and neither does the closing part of    *)
(* the second one because writeFunc returns no negative code.              *)
(***************************************************************************)
EXTENDS Integers, FiniteSets

CONSTANTS
    Conn,       \* the connections the clients make
    Ip,         \* client addresses
    IpOf,       \* IpOf[c]: the address c comes from
    Listen,     \* the listening socket, as an entry of the epoll lists
    None,
    MaxIn,      \* portions a socket buffer holds
    MaxSend,    \* portions a client sends; Endless: it never stops
    Endless,
    MaxFds,     \* sockets the process may have open
    Faults      \* {"add"}: epoll_ctl may fail; {"room"}: readFunc may be out
                \* of buffer room

ASSUME ConnAssumption ==
    /\ IsFiniteSet(Conn)
    /\ Listen \notin Conn /\ None \notin Conn /\ Listen # None
    /\ IpOf \in [Conn -> Ip]
    /\ MaxIn \in Nat \ {0} /\ MaxSend \in Nat /\ MaxFds \in Nat
    /\ Endless \in BOOLEAN

VARIABLES
    sock,       \* the server's socket: "none", "backlog", "open", "closed"
    peer,       \* the client's end: "none", "open", "fin", "rst"
    inq,        \* portions in the socket's receive buffer
    sent,       \* portions the client has sent
    registered, \* sockets epoll watches
    ready,      \* the epoll ready list
    batch,      \* the events in m_pEvents still to be handled
    transMap,   \* g_TransMap: address -> the EpollMateData
    clientCnt,  \* m_iClientCnt
    errno,      \* of the epoll thread: "EAGAIN" or another code
    pc,         \* "wait", "dispatch", "accept", "read", "done"
    cur,        \* the connection whose callback runs
    isExit      \* g_isExit

net  == <<peer, inq, sent>>
vars == <<sock, net, registered, ready, batch, transMap, clientCnt,
          errno, pc, cur, isExit>>

Readable(c) == inq[c] > 0 \/ peer[c] # "open"
OpenSocks   == {c \in Conn : sock[c] = "open"}
Backlog     == {c \in Conn : sock[c] = "backlog"}

Init ==
    /\ sock = [c \in Conn |-> "none"]
    /\ peer = [c \in Conn |-> "none"]
    /\ inq = [c \in Conn |-> 0]
    /\ sent = [c \in Conn |-> 0]
    /\ registered = {}
    /\ ready = {} /\ batch = {}
    /\ transMap = [a \in Ip |-> None]
    /\ clientCnt = 0
    /\ errno = "other"
    /\ pc = "wait" /\ cur = None
    /\ isExit = FALSE

-----------------------------------------------------------------------------
(* Clients, the kernel and the signal handler *)

\* An event on c: epoll puts a watched socket on the ready list.
Wake(c) == ready' = ready \cup ({c} \cap registered)

Connect(c) ==
    /\ sock[c] = "none"
    /\ sock' = [sock EXCEPT ![c] = "backlog"]
    /\ peer' = [peer EXCEPT ![c] = "open"]
    /\ ready' = ready \cup {Listen}
    /\ UNCHANGED <<inq, sent, registered, batch, transMap, clientCnt, errno,
                   pc, cur, isExit>>

Send(c) ==
    /\ peer[c] = "open" /\ sock[c] # "closed"
    /\ inq[c] < MaxIn
    /\ Endless \/ sent[c] < MaxSend
    /\ inq' = [inq EXCEPT ![c] = @ + 1]
    /\ sent' = IF Endless THEN sent ELSE [sent EXCEPT ![c] = @ + 1]
    /\ Wake(c)
    /\ UNCHANGED <<sock, peer, registered, batch, transMap, clientCnt,
                   errno, pc, cur, isExit>>

Leave(c) ==
    /\ peer[c] = "open"
    /\ \E how \in {"fin", "rst"} : peer' = [peer EXCEPT ![c] = how]
    /\ Wake(c)
    /\ UNCHANGED <<sock, inq, sent, registered, batch, transMap,
                   clientCnt, errno, pc, cur, isExit>>

Exit ==
    /\ ~isExit
    /\ isExit' = TRUE
    /\ UNCHANGED <<sock, net, registered, ready, batch, transMap,
                   clientCnt, errno, pc, cur>>

-----------------------------------------------------------------------------
(* epoll_wait and the loop over the events *)

\* The events of the ready list, in whatever order the kernel reports them.
\* The sockets are edge-triggered and leave the list; the listening socket is
\* level-triggered and stays while it is ready.
EpollWait ==
    /\ pc = "wait" /\ ~isExit
    /\ ready # {}
    /\ LET polled == ready \ IF Backlog = {} THEN {Listen} ELSE {}
       IN  /\ batch' = {[who |-> x, in |-> x = Listen \/ Readable(x)] : x \in polled}
           /\ ready' = polled \cap {Listen}
    /\ pc' = "dispatch"
    /\ UNCHANGED <<sock, net, registered, transMap, clientCnt, errno, cur,
                   isExit>>

BatchEnds ==
    /\ pc = "dispatch" /\ batch = {}
    /\ pc' = "wait"
    /\ UNCHANGED <<sock, net, registered, ready, batch, transMap, clientCnt,
                   errno, cur, isExit>>

RunEnds ==
    /\ pc = "wait" /\ isExit
    /\ pc' = "done"
    /\ UNCHANGED <<sock, net, registered, ready, batch, transMap,
                   clientCnt, errno, cur, isExit>>

\* data.fd == m_iServerFd
IsListen(event) == event.who = Listen

DispatchListen(event) ==
    /\ pc = "dispatch" /\ IsListen(event)
    /\ batch' = batch \ {event}
    /\ pc' = "accept"
    /\ UNCHANGED <<sock, net, registered, ready, transMap, clientCnt, errno,
                   cur, isExit>>

DispatchIn(event) ==
    /\ pc = "dispatch" /\ ~IsListen(event) /\ event.in
    /\ batch' = batch \ {event}
    /\ cur' = event.who
    /\ pc' = "read"
    /\ UNCHANGED <<sock, net, registered, ready, transMap, clientCnt, errno,
                   isExit>>

\* Mutant: EPOLL_CTL_MOD left out.
RearmNot(c) == UNCHANGED ready

\* EPOLL_CTL_MOD: readiness is looked at anew, and the socket is writable.
Rearm(c) == ready' = ready \cup ({c} \cap registered)

\* writeFunc finds m_iWantSndLen = 0 and the result queue empty: code 0.
DispatchOut(event) ==
    /\ pc = "dispatch" /\ ~IsListen(event) /\ ~event.in
    /\ batch' = batch \ {event}
    /\ Rearm(event.who)
    /\ UNCHANGED <<sock, net, registered, transMap, clientCnt, errno, pc, cur,
                   isExit>>

-----------------------------------------------------------------------------
(* The accept loop *)

\* Mutant: the socket is not added to epoll.
RegisterNot(c) == UNCHANGED <<registered, ready>>

\* epoll_ctl fails: the error is logged, and the connection stays open, in
\* g_TransMap and in m_iClientCnt, but no event of it is ever seen.
Register(c) ==
    \/ registered' = registered \cup {c} /\ ready' = ready \cup {c}
    \/ "add" \in Faults /\ UNCHANGED <<registered, ready>>

Accept(c) ==
    /\ pc = "accept" /\ c \in Backlog
    /\ Cardinality(OpenSocks) < MaxFds
    /\ sock' = [sock EXCEPT ![c] = "open"]
    /\ clientCnt' = clientCnt + 1
    /\ transMap' = [transMap EXCEPT ![IpOf[c]] = c]
    /\ Register(c)
    /\ UNCHANGED <<net, batch, errno, pc, cur, isExit>>

\* EAGAIN when the queue is empty, EMFILE when the process has no descriptor.
AcceptFails ==
    /\ pc = "accept"
    /\ \/ Backlog = {} /\ errno' = "EAGAIN"
       \/ /\ Backlog # {} /\ Cardinality(OpenSocks) >= MaxFds
          /\ errno' = "other"
    /\ pc' = "dispatch"
    /\ UNCHANGED <<sock, net, registered, ready, batch, transMap,
                   clientCnt, cur, isExit>>

-----------------------------------------------------------------------------
(* readFunc as the dispatcher sees it, with what follows its return *)

\* code >= 0: EPOLL_CTL_MOD.
ReadOk ==
    /\ Rearm(cur)
    /\ UNCHANGED <<sock, registered, clientCnt>>

\* Mutants: m_iClientCnt-- left out; EPOLL_CTL_DEL and close left out.
CloseUncounted ==
    /\ registered' = registered \ {cur} /\ ready' = ready \ {cur}
    /\ sock' = [sock EXCEPT ![cur] = "closed"]
    /\ UNCHANGED clientCnt
CloseKeepsEvents ==
    /\ clientCnt' = clientCnt - 1 /\ sock' = [sock EXCEPT ![cur] = "closed"]
    /\ UNCHANGED <<registered, ready>>

\* code < 0: EPOLL_CTL_DEL, m_iClientCnt--, close.  The EpollMateData stays in
\* g_TransMap with m_iFd = INVALID_CLIENT_FD.
CloseConnection ==
    /\ registered' = registered \ {cur}
    /\ ready' = ready \ {cur}
    /\ clientCnt' = clientCnt - 1
    /\ sock' = [sock EXCEPT ![cur] = "closed"]

\* Mutant: 0 is taken for an error.
Strictly(code) == code > 0

IsOk(code) == code >= 0

\* The callback returns `code`.
Returned(code) ==
    /\ IF IsOk(code) THEN ReadOk ELSE CloseConnection
    /\ pc' = "dispatch" /\ cur' = None

\* Mutant: while (true).
LoopingForever == TRUE

\* while (!g_isExit)
Looping == ~isExit

\* recv returned data and the loop goes on.
RecvData ==
    /\ pc = "read" /\ Looping
    /\ inq[cur] > 0
    /\ \E n \in 1 .. inq[cur] : inq' = [inq EXCEPT ![cur] = @ - n]
    /\ errno' \in {errno, "other"}
    /\ UNCHANGED <<sock, peer, sent, registered, ready, batch,
                   transMap, clientCnt, pc, cur, isExit>>

\* recv returned 0: the peer closed, or there was no room for what is there.
\* errno was set by an earlier call, if not by the log output.
RecvZero ==
    /\ pc = "read" /\ Looping
    /\ \/ inq[cur] = 0 /\ peer[cur] = "fin"
       \/ inq[cur] > 0 /\ "room" \in Faults
    /\ Returned(IF errno = "EAGAIN" THEN 0 ELSE -1)
    /\ UNCHANGED <<net, batch, transMap, errno, isExit>>

\* Mutant: the loop goes on after EAGAIN.
RecvFailsSpins ==
    /\ pc = "read" /\ Looping
    /\ inq[cur] = 0 /\ peer[cur] # "fin"
    /\ IF peer[cur] = "open" THEN UNCHANGED <<sock, registered, ready, clientCnt,
                                              pc, cur>>
                             ELSE Returned(-1)
    /\ errno' = "EAGAIN"
    /\ UNCHANGED <<net, batch, transMap, isExit>>

\* recv returned -1, with EAGAIN or with ECONNRESET.
RecvFails ==
    /\ pc = "read" /\ Looping
    /\ inq[cur] = 0 /\ peer[cur] # "fin"
    /\ errno' = IF peer[cur] = "open" THEN "EAGAIN" ELSE "other"
    /\ Returned(IF peer[cur] = "open" THEN 0 ELSE -1)
    /\ UNCHANGED <<net, batch, transMap, isExit>>

ReadStops ==
    /\ pc = "read" /\ ~Looping
    /\ Returned(0)
    /\ UNCHANGED <<net, batch, transMap, errno, isExit>>

-----------------------------------------------------------------------------
Client  == \E c \in Conn : Connect(c) \/ Send(c) \/ Leave(c)
Loop    == \/ EpollWait \/ BatchEnds \/ RunEnds
           \/ \E event \in batch : \/ DispatchListen(event)
                                  \/ DispatchIn(event)
                                  \/ DispatchOut(event)
Accepts == (\E c \in Conn : Accept(c)) \/ AcceptFails
Reads   == RecvData \/ RecvZero \/ RecvFails \/ ReadStops
Server  == Loop \/ Accepts \/ Reads

Next     == Client \/ Exit \/ Server
Spec     == Init /\ [][Next]_vars
\* The epoll thread keeps running.
FairSpec == Spec /\ WF_vars(Server)
-----------------------------------------------------------------------------
(* Properties *)

TypeOK ==
    /\ sock \in [Conn -> {"none", "backlog", "open", "closed"}]
    /\ peer \in [Conn -> {"none", "open", "fin", "rst"}]
    /\ inq \in [Conn -> 0 .. MaxIn]
    /\ sent \in [Conn -> 0 .. MaxSend]
    /\ registered \subseteq Conn
    /\ ready \subseteq Conn \cup {Listen}
    /\ batch \subseteq [who : Conn \cup {Listen}, in : BOOLEAN]
    /\ transMap \in [Ip -> Conn \cup {None}]
    /\ clientCnt \in Nat
    /\ errno \in {"EAGAIN", "other"}
    /\ pc \in {"wait", "dispatch", "accept", "read", "done"}
    /\ cur \in Conn \cup {None}
    /\ isExit \in BOOLEAN

\* No event of the current batch, and no running callback, belongs to a
\* connection that was closed meanwhile, and no connection is in the batch
\* twice: the dispatcher dereferences data.ptr and closes m_iFd on this ground.
EventsAreLive ==
    /\ pc = "read" => cur \in registered /\ sock[cur] = "open"
    /\ \A e \in batch : /\ e.who = Listen \/ sock[e.who] = "open"
                        /\ e.who # cur
                        /\ \A f \in batch : e.who = f.who => e = f

\* m_iClientCnt, which the status log prints as the number of links, is the
\* number of sockets the server holds open.
ClientCntIsOpenSocks == clientCnt = Cardinality(OpenSocks)

\* Edge-triggered epoll loses no wake-up: a watched socket with something to
\* read is in the batch, in its callback, or on the ready list.
NoLostWakeup ==
    \A c \in registered :
        \/ ~Readable(c)
        \/ cur = c \/ c \in ready
        \/ \E e \in batch : e.who = c

\* A connection is closed only after its peer left and when all it sent has
\* been read.
ClosesOnlyDrained ==
    [][\A c \in Conn : sock[c] = "open" /\ sock'[c] = "closed" =>
          peer[c] \in {"fin", "rst"} /\ inq[c] = 0]_vars

\* While the clients send finitely much and there are descriptors to spare,
\* every connection is accepted in the end.
EventuallyAccepted ==
    \A c \in Conn : sock[c] = "backlog" ~> sock[c] # "backlog" \/ isExit

\* While the clients send finitely much, what one sent is read in the end, and
\* a reset connection is closed.
EventuallyRead ==
    /\ \A c \in Conn : inq[c] > 0 ~> inq[c] = 0 \/ isExit
    /\ \A c \in Conn : peer[c] = "rst" ~> sock[c] = "closed" \/ isExit

\* epollRun returns after g_isExit was set, even in front of clients that
\* never stop sending.
ExitReturns == isExit ~> pc = "done"

\* EpollServer.cpp, where a second connection comes from an address:
\* "alive, forbid duplicate connection !!!!"
NoDuplicateConnection ==
    \A c, d \in OpenSocks : IpOf[c] = IpOf[d] => c = d
=============================================================================
