----------------------------- MODULE ClientLife -----------------------------
(***************************************************************************)
(* The life of the audio client, session after session: init_audio_client  *)
(* loads libmmdecoder.so, makes a ClientManagement with its two queues and *)
(* starts its threads; close_audio_client stops them and deletes it.       *)
(*                                                                         *)
(* The caller may send between the two, may go on after an exception and   *)
(* may call init_audio_client again, before or after closing.  It closes   *)
(* an object at most once.  What the threads do in a round is the subject  *)
(* of ClientNet and ClientRecv: here a round uses the object it was given. *)
(* g_writeLog stays false, as the call that reads the configuration is     *)
(* commented out: nothing is logged and no log is closed.                  *)
(***************************************************************************)
EXTENDS Integers, Sequences, FiniteSets

CONSTANTS
    MaxInits,   \* bound: calls of init_audio_client
    MaxSends,   \* bound: data waiting in a queue
    Libraries,  \* how many of Functions the library exports before one is missing
    MayFail     \* threads pthread_create may fail for

\* the order loadDecoderModule looks the functions up in
Functions == <<"OpenLogFile", "WriteLog", "CloseLog", "OpenDataQueue", "GetDataQueueInfo",
               "EnDataQueue", "DeDataQueue", "DataQueueIsFull", "CloseDataQueue">>

ASSUME LifeAssumption ==
    /\ MaxInits \in Nat \ {0} /\ MaxSends \in Nat
    /\ Libraries \subseteq 0..Len(Functions)

Kind  == {"net", "status", "deal"}
Queue == {"local", "rcv"}                 \* m_pQueueLocalRcv, m_pQueueNetRcv
Session == 1..MaxInits
Addr  == 1..MaxInits                      \* places new may return
NoThread == [at |-> "none", obj |-> 0]

VARIABLES
    isExit,     \* g_isExit
    app,        \* the caller: "out", "load", "new", "open", "create", "run", "join", "crashed"
    at,         \* position in CreateOrder or JoinOrder
    inits,      \* calls of init_audio_client
    timers,     \* SystemTimer threads: g_bSysKeepRun stays true
    exports,    \* what the library file exports, one of Libraries
    handle,     \* g_pMoudleHandle is set
    known,      \* functions whose pointer is not NULL
    mgr,        \* clientManagement, 0 for NULL
    single,     \* search_management_, 0 for nullptr
    live,       \* objects made and not deleted
    born,       \* born[a]: the call that made the object at a
    queues,     \* queues[a]: queues the object at a has open
    held,       \* held[a]: data in m_pQueueLocalRcv of a
    thread      \* thread[<<n, k>>]: the thread k of call n, and its this pointer

caller  == <<isExit, app, at, inits, timers>>
library == <<exports, handle, known>>
objects == <<mgr, single, live, born, queues>>
vars    == <<caller, library, objects, held, thread>>

Init ==
    /\ isExit = FALSE /\ app = "out" /\ at = 1 /\ inits = 0 /\ timers = 0
    /\ exports \in Libraries /\ handle = FALSE /\ known = {}
    /\ mgr = 0 /\ single = 0 /\ live = {}
    /\ born = [a \in Addr |-> 0] /\ queues = [a \in Addr |-> {}]
    /\ held = [a \in Addr |-> 0]
    /\ thread = [t \in Session \X Kind |-> NoThread]

Goes(t, from, to) == thread[t].at = from /\ thread' = [thread EXCEPT ![t].at = to]

-----------------------------------------------------------------------------
(* init_audio_client *)

\* Mutant: g_isExit is reset for the new session.
InitBeginAnew ==
    /\ app \in {"out", "run"} /\ inits < MaxInits
    /\ app' = "load" /\ inits' = inits + 1 /\ timers' = timers + 1 /\ isExit' = FALSE
    /\ UNCHANGED <<at, library, objects, held, thread>>

\* The timer thread is made first, once per call, and is never stopped.
InitBegin ==
    /\ app \in {"out", "run"} /\ inits < MaxInits
    /\ app' = "load" /\ inits' = inits + 1 /\ timers' = timers + 1
    /\ UNCHANGED <<isExit, at, library, objects, held, thread>>

\* dlopen fails, which it cannot any more for a library that is loaded.
NoModule ==
    /\ app = "load" /\ ~handle
    /\ app' = "out"
    /\ UNCHANGED <<isExit, at, inits, timers, library, objects, held, thread>>

Firsts(n) == {Functions[i] : i \in 1..n}

\* Mutant: a function that is missing is not noticed.
LoadModuleUnchecked ==
    /\ app = "load"
    /\ handle' = TRUE /\ known' = Firsts(exports)
    /\ app' \in {"new", "out"}
    /\ UNCHANGED <<isExit, at, inits, timers, exports, objects, held, thread>>

\* The functions are looked up one by one, up to the first that is missing.
\* When all are there the function ends without a return: its result may be
\* 0, and init goes on, or not, and init throws.  Before init goes on it opens
\* the log anew, which is as much state as the model has no use for.
LoadModule ==
    /\ app = "load"
    /\ handle' = TRUE /\ known' = Firsts(exports)
    /\ \/ exports = Len(Functions) /\ app' = "new"
       \/ app' = "out"
    /\ UNCHANGED <<isExit, at, inits, timers, exports, objects, held, thread>>

\* The constructor notes the first object as search_management_; no later
\* object takes its place.  new may return the place of a deleted object.
NewManagement ==
    /\ app = "new"
    /\ \E a \in Addr \ live :
          /\ mgr' = a /\ live' = live \cup {a}
          /\ single' = IF single = 0 THEN a ELSE single
          /\ born' = [born EXCEPT ![a] = inits]
          /\ held' = [held EXCEPT ![a] = 0]
    /\ app' = "open"
    /\ UNCHANGED <<isExit, at, inits, timers, library, queues, thread>>

\* Mutant: && for ||, one queue is enough.
OpenDataQueuesEither ==
    /\ app = "open"
    /\ \E got \in SUBSET Queue :
          /\ queues' = [queues EXCEPT ![mgr] = got]
          /\ app' = IF got # {} THEN "create" ELSE "out"
    /\ at' = 1
    /\ UNCHANGED <<isExit, inits, timers, library, mgr, single, live, born, held, thread>>

\* Both queues are tried; init throws unless both are there, and the object
\* stays.
OpenDataQueues ==
    /\ app = "open"
    /\ \E got \in SUBSET Queue :
          /\ queues' = [queues EXCEPT ![mgr] = got]
          /\ app' = IF got = Queue THEN "create" ELSE "out"
    /\ at' = 1
    /\ UNCHANGED <<isExit, inits, timers, library, mgr, single, live, born, held, thread>>

CreateOrder == <<"net", "status", "deal">>

\* initThreadFunc.  A failure is ignored.
Create ==
    /\ app = "create" /\ at <= Len(CreateOrder)
    /\ LET t == <<inits, CreateOrder[at]>> IN
          \/ Goes(t, "none", "born")
          \/ CreateOrder[at] \in MayFail /\ Goes(t, "none", "failed")
    /\ at' = at + 1
    /\ UNCHANGED <<isExit, app, inits, timers, library, objects, held>>

Created ==
    /\ app = "create" /\ at > Len(CreateOrder)
    /\ app' = "run"
    /\ UNCHANGED <<isExit, at, inits, timers, library, objects, held, thread>>

-----------------------------------------------------------------------------
(* send_pcm, close_audio_client *)

\* The data goes to the queue of the last object.
SendPcm ==
    /\ app = "run" /\ held[mgr] < MaxSends
    /\ held' = [held EXCEPT ![mgr] = @ + 1]
    /\ UNCHANGED <<caller, library, objects, thread>>

\* Without an object there is nothing to delete.
Close ==
    /\ app \in {"out", "run"} /\ mgr \in live \cup {0}
    /\ isExit' = TRUE /\ at' = 1
    /\ app' = IF mgr = 0 THEN "out" ELSE "join"
    /\ UNCHANGED <<inits, timers, library, objects, held, thread>>

JoinOrder == <<"net", "deal", "status", "free">>

\* ~ClientManagement waits for the threads of its own object.  A pthread_t
\* that was never written makes the join fail or kills the process.
Join ==
    /\ app = "join" /\ at <= Len(JoinOrder)
    /\ LET k == JoinOrder[at]
           state == IF k \in Kind THEN thread[<<born[mgr], k>>].at ELSE "none" IN
          \/ state \in {"none", "failed", "ended"} /\ at' = at + 1 /\ UNCHANGED app
          \/ state \in {"none", "failed"} /\ app' = "crashed" /\ UNCHANGED at
    /\ UNCHANGED <<isExit, inits, timers, library, objects, held, thread>>

\* The object is freed.  Its queues are not closed, and both pointers to it
\* stay as they are.
Deleted ==
    /\ app = "join" /\ at > Len(JoinOrder)
    /\ live' = live \ {mgr} /\ app' = "out"
    /\ UNCHANGED <<isExit, at, inits, timers, library, mgr, single, born, queues, held, thread>>

-----------------------------------------------------------------------------
(* networkThread, outputStatusThread, resultDealThread *)

Up == app # "crashed"

\* The object is the one get_pointer returns, and not the one that made the
\* thread.
Start(t) ==
    /\ Up /\ thread[t].at = "born"
    /\ thread' = [thread EXCEPT ![t] = [at |-> "test", obj |-> single]]
    /\ UNCHANGED <<caller, library, objects, held>>

\* Mutant: the loop does not look at g_isExit.
LoopTestForever(t) ==
    /\ Up /\ Goes(t, "test", "serve")
    /\ UNCHANGED <<caller, library, objects, held>>

\* while (!g_isExit)
LoopTest(t) ==
    /\ Up /\ Goes(t, "test", IF isExit THEN "ended" ELSE "serve")
    /\ UNCHANGED <<caller, library, objects, held>>

\* A round of netWorkFunc, which may take the next data from the queue of
\* its object.
ServeNet(t) ==
    /\ Up /\ t[2] = "net" /\ Goes(t, "serve", "test")
    /\ LET o == thread[t].obj IN
          \/ UNCHANGED held
          \/ /\ "local" \in queues[o] /\ held[o] > 0
             /\ held' = [held EXCEPT ![o] = @ - 1]
    /\ UNCHANGED <<caller, library, objects>>

\* A round of OutputStatusFunc: it asks both queues of its object how full
\* they are, ignores whether they answered, prints and sleeps.
OutputStatus(t) ==
    /\ Up /\ t[2] = "status" /\ Goes(t, "serve", "test")
    /\ UNCHANGED <<caller, library, objects, held>>

\* A round of ProcRcvQueueData, which looks at what it takes and drops it.
ProcRcvQueue(t) ==
    /\ Up /\ t[2] = "deal" /\ Goes(t, "serve", "test")
    /\ UNCHANGED <<caller, library, objects, held>>

Step(t) == Start(t) \/ LoopTest(t) \/ ServeNet(t) \/ OutputStatus(t) \/ ProcRcvQueue(t)

Api == \/ NoModule \/ LoadModule \/ NewManagement \/ OpenDataQueues
       \/ Create \/ Created \/ Join \/ Deleted

Next == InitBegin \/ SendPcm \/ Close \/ Api \/ \E t \in Session \X Kind : Step(t)

Spec == Init /\ [][Next]_vars

\* A call that was made runs on, and so does each thread; nothing says that
\* the caller makes a call.
FairSpec ==
    /\ Spec /\ WF_vars(Api)
    /\ \A t \in Session \X Kind : WF_vars(Step(t))

-----------------------------------------------------------------------------
(* Properties *)

ThreadState == [at : {"none", "failed", "born", "test", "serve", "ended"}, obj : Addr \cup {0}]

\* Every variable has its type; a thread that has started was given an object.
TypeOK ==
    /\ isExit \in BOOLEAN /\ at \in 1..5 /\ inits \in 0..MaxInits /\ timers \in 0..MaxInits
    /\ app \in {"out", "load", "new", "open", "create", "run", "join", "crashed"}
    /\ exports \in Libraries /\ handle \in BOOLEAN /\ known \subseteq Firsts(Len(Functions))
    /\ mgr \in Addr \cup {0} /\ single \in Addr \cup {0} /\ live \subseteq Addr
    /\ born \in [Addr -> 0..MaxInits] /\ queues \in [Addr -> SUBSET Queue]
    /\ held \in [Addr -> 0..MaxSends]
    /\ thread \in [Session \X Kind -> ThreadState]
    /\ \A t \in Session \X Kind :
          thread[t].obj = 0 <=> thread[t].at \in {"none", "failed", "born"}

\* No thread works on an object that was deleted, although search_management_
\* keeps pointing to the first one: what protects it is that ~ClientManagement
\* waits for its threads and that g_isExit is never reset.
NoUseAfterDelete ==
    \A t \in Session \X Kind : thread[t].at = "serve" => thread[t].obj \in live

\* Neither send_pcm nor a thread calls a function of the library whose
\* pointer is NULL: init throws before any is called.
CallsKnown ==
    (app = "run" \/ \E t \in Session \X Kind : thread[t].at = "serve") =>
        known = Firsts(Len(Functions))

\* After the first call of init_audio_client its threads work on the object
\* send_pcm fills, whose queues are both open.
FirstInitServes ==
    (app = "run" /\ inits = 1) =>
        \A k \in Kind : thread[<<1, k>>].at \in {"test", "serve"} =>
            thread[<<1, k>>].obj = mgr /\ queues[mgr] = Queue

\* Once close_audio_client was called all threads but the timers come to have
\* ended, also those of earlier calls that nobody waits for, unless the
\* process dies.
ExitEndsThreads ==
    isExit ~> (~Up \/ \A t \in Session \X Kind : thread[t].at \in {"none", "failed", "ended"})
=============================================================================
