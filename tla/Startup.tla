------------------------------- MODULE Startup -------------------------------
(***************************************************************************)
(* Server processes that start, serve and end on one machine: daemon and   *)
(* already_running (main.cpp, global.cpp) with the lock on AudioServer.pid *)
(* in the current directory, systemInitialize, the set-up of the listening *)
(* socket by requestListenFunc, whose results nobody looks at, SIGINT,     *)
(* SIGKILL, and the kernel that closes what a process leaves open.         *)
(*                                                                         *)
(* All servers want one port.  A record lock belongs to a process: a child *)
(* does not inherit it, and the kernel drops it when the process closes    *)
(* the file.  What goes on between a server and its clients is in          *)
(* EpollServer, the threads but the listen thread are in AudioServer.      *)
(***************************************************************************)
EXTENDS Naturals

CONSTANTS
    Pid,        \* process numbers; the kernel reuses them
    Dir,        \* directories a server is started in
    None,       \* no process, no directory
    NoFile, Empty,  \* no pid file, an empty one
    MayFail     \* calls that may fail: "fork", "open", "fcntl", "ftruncate",
                \* "write", "load", "sigaction", "socket", "epoll"

ASSUME StartupAssumption ==
    /\ None \notin Pid \cup Dir
    /\ NoFile \notin Pid /\ Empty \notin Pid /\ NoFile # Empty

VARIABLES
    main,       \* main[p]: where the main thread is; "none": no process
    listen,     \* listen[p]: where the listen thread is
    dir,        \* dir[p]: the current directory
    isExit,     \* g_isExit
    sock,       \* sock[p]: what m_iServerFd is
    owner,      \* owner[d]: who holds the lock on d's AudioServer.pid
    pidFile,    \* pidFile[d]: the number in it, up to the 0 that ends it
    unnumbered  \* history: processes that could not write their number

files == <<owner, pidFile, unnumbered>>
vars  == <<main, listen, dir, isExit, sock, files>>

\* SIGINT still has its default action
Unhandled == {"daemon", "open", "lock", "refused", "truncate", "write", "load",
              "sigaction"}
Handled   == {"start", "run", "join", "destroy"}
\* Dead: it exits early, aborts or is killed; Left: main returns after
\* ~AudioServer.  Both: the pid file is still open, it is closed.
Dead      == {"dead", "dead, closed"}
Left      == {"left", "left, closed"}

\* already_running has returned 0
Past      == {"load", "sigaction"} \cup Handled
Holding   == {"truncate", "write"} \cup Past

Goes(p, from, to) == main[p] = from /\ main' = [main EXCEPT ![p] = to]
Listens(p, from, to) == listen[p] = from /\ listen' = [listen EXCEPT ![p] = to]

\* exit, abort or a deadly signal: all threads stop
Dies(p) ==
    /\ main' = [main EXCEPT ![p] = "dead"]
    /\ listen' = [listen EXCEPT ![p] = "none"]
    /\ isExit' = [isExit EXCEPT ![p] = FALSE]
    /\ UNCHANGED <<dir, sock, files>>

Init ==
    /\ main = [p \in Pid |-> "none"] /\ listen = [p \in Pid |-> "none"]
    /\ dir = [p \in Pid |-> None]
    /\ isExit = [p \in Pid |-> FALSE]
    /\ sock = [p \in Pid |-> "none"]
    /\ owner = [d \in Dir |-> None]
    /\ pidFile = [d \in Dir |-> NoFile]
    /\ unnumbered = {}

-----------------------------------------------------------------------------
(* main, already_running *)

\* A user starts a server in d, with -d or without.
Launch(p, d) ==
    /\ main[p] = "none"
    /\ \E first \in {"daemon", "open"} : main' = [main EXCEPT ![p] = first]
    /\ dir' = [dir EXCEPT ![p] = d]
    /\ UNCHANGED <<listen, isExit, sock, files>>

\* Mutant: daemon is called after already_running.
ForkLate(p, q) ==
    /\ main[p] = "load" /\ main[q] = "none"
    /\ main' = [main EXCEPT ![p] = "dead", ![q] = "load"]
    /\ dir' = [dir EXCEPT ![q] = dir[p]]
    /\ UNCHANGED <<listen, isExit, sock, files>>

\* daemon(1, 0): the child q goes on in the same directory, p exits.
Fork(p, q) ==
    /\ main[p] = "daemon" /\ main[q] = "none"
    /\ main' = [main EXCEPT ![p] = "dead", ![q] = "open"]
    /\ dir' = [dir EXCEPT ![q] = dir[p]]
    /\ UNCHANGED <<listen, isExit, sock, files>>

\* daemon returned -1, and nobody asks
ForkFails(p) ==
    /\ "fork" \in MayFail
    /\ Goes(p, "daemon", "open")
    /\ UNCHANGED <<listen, dir, isExit, sock, files>>

\* open(O_RDWR | O_CREAT)
OpenPidFile(p) ==
    /\ Goes(p, "open", "lock")
    /\ pidFile' = [pidFile EXCEPT ![dir[p]] = IF @ = NoFile THEN Empty ELSE @]
    /\ UNCHANGED <<listen, dir, isExit, sock, owner, unnumbered>>

OpenFails(p) ==
    /\ "open" \in MayFail /\ main[p] = "open"
    /\ Dies(p)

\* lockFile: F_SETLK does not wait
Lock(p) ==
    /\ Goes(p, "lock", "truncate")
    /\ owner[dir[p]] = None
    /\ owner' = [owner EXCEPT ![dir[p]] = p]
    /\ UNCHANGED <<listen, dir, isExit, sock, pidFile, unnumbered>>

\* Mutant: a server is taken to run if there is a number in the file.
RefusedByNumber(p) ==
    /\ Goes(p, "lock", "refused")
    /\ pidFile[dir[p]] \in Pid
    /\ UNCHANGED <<listen, dir, isExit, sock, files>>

\* EACCES or EAGAIN: "Server is already running", return 1
Refused(p) ==
    /\ Goes(p, "lock", "refused")
    /\ owner[dir[p]] # None
    /\ UNCHANGED <<listen, dir, isExit, sock, files>>

\* exit(1) after that, or at once on any other error of fcntl
GivesUp(p) ==
    /\ \/ main[p] = "refused"
       \/ "fcntl" \in MayFail /\ main[p] = "lock"
    /\ Dies(p)

\* ftruncate, whose result nobody looks at
Truncate(p) ==
    /\ Goes(p, "truncate", "write")
    /\ \/ pidFile' = [pidFile EXCEPT ![dir[p]] = Empty]
       \/ "ftruncate" \in MayFail /\ UNCHANGED pidFile
    /\ UNCHANGED <<listen, dir, isExit, sock, owner, unnumbered>>

\* write, with the 0 that ends the number, so that it does not matter what is
\* left behind it.  The file stays open, and with it the lock.
WritePid(p) ==
    /\ Goes(p, "write", "load")
    /\ pidFile' = [pidFile EXCEPT ![dir[p]] = p]
    /\ unnumbered' = unnumbered \ {p}
    /\ UNCHANGED <<listen, dir, isExit, sock, owner>>

\* The disk is full: nothing is written, or the first digits, which may be
\* the number of any process.  The server goes on.
WriteFails(p) ==
    /\ "write" \in MayFail
    /\ Goes(p, "write", "load")
    /\ \E found \in Pid \cup {pidFile[dir[p]]} :
          pidFile' = [pidFile EXCEPT ![dir[p]] = found]
    /\ unnumbered' = unnumbered \cup {p}
    /\ UNCHANGED <<listen, dir, isExit, sock, owner>>

-----------------------------------------------------------------------------
(* systemInitialize and ~AudioServer *)

\* dlopen and the nine dlsym of loadDecoderModule; the log files
LoadModule(p) ==
    /\ Goes(p, "load", "sigaction")
    /\ UNCHANGED <<listen, dir, isExit, sock, files>>

\* exit(-2)
LoadFails(p) ==
    /\ "load" \in MayFail /\ main[p] = "load"
    /\ Dies(p)

HandleSigint(p) ==
    /\ Goes(p, "sigaction", "start")
    /\ UNCHANGED <<listen, dir, isExit, sock, files>>

\* return 0, and main returns too
HandleFails(p) ==
    /\ "sigaction" \in MayFail /\ main[p] = "sigaction"
    /\ Dies(p)

\* the queues, and StartServer with the listen thread
StartServer(p) ==
    /\ Goes(p, "start", "run")
    /\ Listens(p, "none", "bind")
    /\ UNCHANGED <<dir, isExit, sock, files>>

LeaveLoop(p) ==
    /\ isExit[p] /\ Goes(p, "run", "join")
    /\ UNCHANGED <<listen, dir, isExit, sock, files>>

Join(p) ==
    /\ listen[p] = "ended" /\ Goes(p, "join", "destroy")
    /\ UNCHANGED <<listen, dir, isExit, sock, files>>

\* Mutant: ~EpollServer leaves the socket open.
DestroyOpen(p) ==
    /\ Goes(p, "destroy", "left")
    /\ listen' = [listen EXCEPT ![p] = "none"]
    /\ isExit' = [isExit EXCEPT ![p] = FALSE]
    /\ UNCHANGED <<dir, sock, files>>

\* ~EpollServer closes m_iServerFd; then main returns.
Destroy(p) ==
    /\ Goes(p, "destroy", "left")
    /\ sock' = [sock EXCEPT ![p] = "none"]
    /\ listen' = [listen EXCEPT ![p] = "none"]
    /\ isExit' = [isExit EXCEPT ![p] = FALSE]
    /\ UNCHANGED <<dir, files>>

-----------------------------------------------------------------------------
(* requestListenFunc, in the listen thread *)

PortInUse(p) == \E q \in Pid \ {p} : sock[q] = "listening"

\* Bind.  SO_REUSEADDR lets it succeed while no other socket listens.
Bind(p) ==
    /\ ~PortInUse(p)
    /\ Listens(p, "bind", "listen")
    /\ sock' = [sock EXCEPT ![p] = "bound"]
    /\ UNCHANGED <<main, dir, isExit, files>>

\* EADDRINUSE: return -1, before MakeSocketNonBlocking
BindFails(p) ==
    /\ PortInUse(p)
    /\ Listens(p, "bind", "listen")
    /\ sock' = [sock EXCEPT ![p] = "unbound"]
    /\ UNCHANGED <<main, dir, isExit, files>>

\* m_iServerFd is -1
SocketFails(p) ==
    /\ "socket" \in MayFail
    /\ Listens(p, "bind", "listen")
    /\ UNCHANGED <<main, dir, isExit, sock, files>>

\* Listen.  The kernel gives a socket without address some other port, and
\* refuses one whose address has been taken since.
Listen(p) ==
    /\ Listens(p, "listen", "create")
    /\ sock' = [sock EXCEPT ![p] =
                    CASE @ = "unbound" -> "elsewhere"
                      [] @ = "bound" /\ ~PortInUse(p) -> "listening"
                      [] OTHER -> @]
    /\ UNCHANGED <<main, dir, isExit, files>>

\* Create, and on to epollRun
Create(p) ==
    /\ Listens(p, "create", "loop")
    /\ UNCHANGED <<main, dir, isExit, sock, files>>

\* epoll_create failed: throw, which nobody catches
CreateThrows(p) ==
    /\ "epoll" \in MayFail /\ listen[p] = "create"
    /\ Dies(p)

\* Someone connects to the other port.  The accept after the first one waits,
\* since the socket was left blocking.
AcceptBlocks(p) ==
    /\ sock[p] = "elsewhere"
    /\ Listens(p, "loop", "accept")
    /\ UNCHANGED <<main, dir, isExit, sock, files>>

\* Mutant: an accept that failed is tried again.
LoopEndsServing(p) ==
    /\ isExit[p] /\ sock[p] # "bound"
    /\ Listens(p, "loop", "ended")
    /\ UNCHANGED <<main, dir, isExit, sock, files>>

\* while (!g_isExit).  A socket that does not listen makes epoll_wait return
\* and accept fail, turn after turn.
LoopEnds(p) ==
    /\ isExit[p]
    /\ Listens(p, "loop", "ended")
    /\ UNCHANGED <<main, dir, isExit, sock, files>>

-----------------------------------------------------------------------------
(* Signals, and the end of a process *)

\* exit_handler.  The thread that runs it leaves accept with EINTR.
Sigint(p) ==
    /\ main[p] \in Handled
    /\ isExit' = [isExit EXCEPT ![p] = TRUE]
    /\ \/ Listens(p, "accept", "loop")
       \/ UNCHANGED listen
    /\ UNCHANGED <<main, dir, sock, files>>

\* SIGKILL, or SIGINT before the handler is set
Kill(p) ==
    /\ main[p] \in Unhandled \cup Handled
    /\ Dies(p)

\* The kernel closes descriptors in their order: the pid file was opened
\* first, ...
CloseFile(p) ==
    /\ \/ Goes(p, "dead", "dead, closed")
       \/ Goes(p, "left", "left, closed")
    /\ owner' = [d \in Dir |-> IF owner[d] = p THEN None ELSE owner[d]]
    /\ UNCHANGED <<listen, dir, isExit, sock, pidFile, unnumbered>>

\* ... the socket later.
CloseSocket(p) ==
    /\ \/ Goes(p, "dead, closed", "none")
       \/ Goes(p, "left, closed", "none")
    /\ sock' = [sock EXCEPT ![p] = "none"]
    /\ dir' = [dir EXCEPT ![p] = None]
    /\ unnumbered' = unnumbered \ {p}
    /\ UNCHANGED <<listen, isExit, owner, pidFile>>

-----------------------------------------------------------------------------
AlreadyRunning(p) ==
    \/ OpenPidFile(p) \/ OpenFails(p) \/ Lock(p) \/ Refused(p) \/ GivesUp(p)
    \/ Truncate(p) \/ WritePid(p) \/ WriteFails(p)
SystemInitialize(p) ==
    \/ LoadModule(p) \/ LoadFails(p) \/ HandleSigint(p) \/ HandleFails(p)
    \/ StartServer(p) \/ LeaveLoop(p) \/ Join(p) \/ Destroy(p)
RequestListen(p) ==
    \/ Bind(p) \/ BindFails(p) \/ SocketFails(p) \/ Listen(p)
    \/ Create(p) \/ CreateThrows(p) \/ LoopEnds(p)
Main(p) == AlreadyRunning(p) \/ SystemInitialize(p)
Kernel(p) == CloseFile(p) \/ CloseSocket(p)

Next ==
    \E p \in Pid :
        \/ Main(p) \/ ForkFails(p) \/ RequestListen(p) \/ Kernel(p)
        \/ AcceptBlocks(p) \/ Sigint(p) \/ Kill(p)
        \/ \E d \in Dir : Launch(p, d)
        \/ \E q \in Pid : Fork(p, q)

Spec == Init /\ [][Next]_vars

\* The scheduler runs both threads, and the kernel cleans up.  Nobody has to
\* start, stop or connect to a server.
FairSpec ==
    /\ Spec
    /\ \A p \in Pid : WF_vars(Main(p)) /\ WF_vars(RequestListen(p))
                      /\ WF_vars(Kernel(p))
-----------------------------------------------------------------------------
(* Properties *)

Types ==
    /\ main \in [Pid -> {"none"} \cup Unhandled \cup Handled \cup Dead \cup Left]
    /\ listen \in [Pid -> {"none", "bind", "listen", "create", "loop", "accept",
                           "ended"}]
    /\ dir \in [Pid -> Dir \cup {None}]
    /\ isExit \in [Pid -> BOOLEAN]
    /\ sock \in [Pid -> {"none", "unbound", "bound", "listening", "elsewhere"}]
    /\ owner \in [Dir -> Pid \cup {None}]
    /\ pidFile \in [Dir -> Pid \cup {NoFile, Empty}]
    /\ unnumbered \subseteq Pid

\* A process has a directory, a listen thread only once it started one, and
\* a socket only once that thread made one.
Stages ==
    \A p \in Pid :
        /\ dir[p] = None <=> main[p] = "none"
        /\ listen[p] # "none" => main[p] \in Handled
        /\ sock[p] # "none" => main[p] \in Handled \cup Dead
        /\ isExit[p] => main[p] \in Handled

\* Every variable has its type, and fits where the process is.
TypeOK == Types /\ Stages

\* However starts, forks, kills and exits interleave, and whatever calls fail,
\* one directory has one server past already_running.  The number in the pid
\* file is its, unless its own write failed: other servers, refused ones too,
\* leave the number alone, and that ftruncate failed does no harm.
OneServer ==
    \A p \in Pid :
        main[p] \in Past =>
            /\ p \notin unnumbered => pidFile[dir[p]] = p
            /\ \A q \in Pid \ {p} : main[q] \in Past => dir[q] # dir[p]

\* "Server is already running" is said only while another process of the
\* directory is there: a pid file left by a killed server refuses nobody.
RefusedByLiving ==
    [][\A p \in Pid :
        (main[p] = "lock" /\ main'[p] = "refused") =>
            \E q \in Pid \ {p} : /\ dir[q] = dir[p]
                                 /\ main[q] \in Holding \cup {"dead", "left"}]_vars

\* A server that gets past already_running finds the port in use only if a
\* server of another directory has it, or one that died at a signal or an
\* exception and is being cleaned up: a server that exits on SIGINT gives up
\* the port before the lock.
PortPassesOn ==
    [][\A p \in Pid :
        (\/ sock'[p] = "unbound" /\ sock[p] # "unbound"
         \/ sock'[p] = "bound" /\ listen[p] = "listen" /\ listen'[p] = "create")
        => \E q \in Pid \ {p} :
              sock[q] = "listening" /\ (dir[q] # dir[p] \/ main[q] \in Dead)]_vars

\* SIGINT ends a server wherever its start-up is, even one that could not
\* get its port, unless the listen thread waits in accept for ever.
ExitCompletes ==
    \A p \in Pid : isExit[p] ~> (main[p] = "none" \/ listen[p] = "accept")
=============================================================================
