--------------------------- MODULE ClientLifeProofs ---------------------------
(***************************************************************************)
(* Proofs about ClientLife, for any number of sessions, any data, any      *)
(* failing threads and any library: what the threads use is there.         *)
(***************************************************************************)
EXTENDS ClientLife, TLAPS

Thread == Session \X Kind
At(t)  == thread[t].at

\* A session past the check of the library knows all of it, and so does one
\* that made a thread.
LibraryInv ==
    /\ \/ app \in {"new", "open", "create", "run"}
       \/ \E t \in Thread : At(t) # "none"
       => exports = Len(Functions) /\ known = Firsts(Len(Functions))

\* Where an object is in use it is there; the first one made stays `single`.
ObjectInv ==
    /\ timers = inits
    /\ inits = 0 => app = "out" /\ single = 0
    /\ single = 0 => /\ mgr = 0 /\ live = {} /\ \A t \in Thread : At(t) = "none"
    /\ app \in {"open", "create", "run", "join"} => mgr \in live
    /\ app \in {"open", "create", "run"} => born[mgr] = inits
    /\ app \in {"create", "run"} => queues[mgr] = Queue
    /\ inits = 1 /\ app \in {"load", "new"} => single = 0
    /\ inits = 1 /\ app \in {"open", "create", "run"} => single = mgr
    /\ mgr \in live => born[mgr] \in Session

\* All threads work on `single`.  Once it was deleted g_isExit is set and no
\* thread is in its loop; while it may be deleted, being the last object too,
\* the threads that may use it are those of its own session, for which the
\* destructor waits.
UseInv ==
    /\ \A t \in Thread : At(t) \in {"test", "serve", "ended"} => thread[t].obj = single
    /\ single # 0 /\ single \notin live =>
           isExit /\ \A t \in Thread : At(t) # "serve"
    /\ single # 0 /\ mgr = single /\ ~isExit =>
           \A t \in Thread : At(t) \in {"born", "test", "serve"} => t[1] = born[single]
    /\ single # 0 /\ mgr = single /\ single \in live =>
           \A t \in Thread : At(t) = "serve" => t[1] = born[single]

\* The destructor has waited for the threads before `at`.
JoinInv ==
    app = "join" =>
        /\ isExit
        /\ \A j \in 1..3 : j < at => At(<<born[mgr], JoinOrder[j]>>) \in {"none", "failed", "ended"}

IInv == TypeOK /\ LibraryInv /\ ObjectInv /\ UseInv /\ JoinInv

LEMMA InitInv == Init => IInv
<1> SUFFICES ASSUME Init PROVE IInv
  OBVIOUS
<1>1. TypeOK
  <2>1. /\ isExit \in BOOLEAN /\ at \in 1..5 /\ inits \in 0..MaxInits /\ timers \in 0..MaxInits
        /\ app \in {"out", "load", "new", "open", "create", "run", "join", "crashed"}
        /\ exports \in Libraries /\ handle \in BOOLEAN /\ known \subseteq Firsts(Len(Functions))
        /\ mgr \in Addr \cup {0} /\ single \in Addr \cup {0} /\ live \subseteq Addr
    <3>1. /\ at \in 1..5 /\ inits \in 0..MaxInits /\ timers \in 0..MaxInits
          /\ mgr \in Addr \cup {0} /\ single \in Addr \cup {0} /\ live \subseteq Addr
      BY LifeAssumption DEF Init
    <3>2. /\ isExit \in BOOLEAN /\ handle \in BOOLEAN
          /\ app \in {"out", "load", "new", "open", "create", "run", "join", "crashed"}
          /\ exports \in Libraries /\ known \subseteq Firsts(Len(Functions))
      BY DEF Init
    <3>3. QED
      BY <3>1, <3>2
  <2>2. /\ born \in [Addr -> 0..MaxInits] /\ queues \in [Addr -> SUBSET Queue]
        /\ held \in [Addr -> 0..MaxSends]
    BY LifeAssumption DEF Init
  <2>3. /\ thread \in [Session \X Kind -> ThreadState]
        /\ \A t \in Session \X Kind :
              thread[t].obj = 0 <=> thread[t].at \in {"none", "failed", "born"}
    BY DEF Init, NoThread, ThreadState
  <2>4. QED
    BY <2>1, <2>2, <2>3 DEF TypeOK
<1>2. LibraryInv /\ ObjectInv /\ UseInv /\ JoinInv
  BY DEF Init, LibraryInv, ObjectInv, UseInv, JoinInv, At, Thread, NoThread
<1>3. QED
  BY <1>1, <1>2 DEF IInv

\* What the first n functions are lies within all of them.
LEMMA FirstsSubset ==
    ASSUME NEW n \in Libraries
    PROVE  Firsts(n) \subseteq Firsts(Len(Functions))
<1>1. Len(Functions) = 9
  BY DEF Functions
<1>2. QED
  BY <1>1, LifeAssumption DEF Firsts

\* The threads the destructor waits for are threads.
LEMMA JoinedThreads ==
    ASSUME IInv, app = "join", NEW j \in 1..3
    PROVE  <<born[mgr], JoinOrder[j]>> \in Thread
<1>1. born[mgr] \in Session
  BY DEF IInv, ObjectInv
<1>2. JoinOrder[j] \in Kind
  BY DEF JoinOrder, Kind
<1>3. QED
  BY <1>1, <1>2 DEF Thread

-----------------------------------------------------------------------------
(* The caller: init_audio_client *)

LEMMA InitBeginStep == ASSUME IInv, InitBegin PROVE IInv'
<1>1. TypeOK'
  BY LifeAssumption DEF IInv, TypeOK, ObjectInv, InitBegin, library, objects, At
<1>2. LibraryInv'
  BY DEF IInv, LibraryInv, InitBegin, library, At
<1>3. ObjectInv'
  BY DEF IInv, TypeOK, ObjectInv, InitBegin, objects, At
<1>4. UseInv'
  BY DEF IInv, UseInv, InitBegin, objects, At
<1>5. JoinInv'
  BY DEF IInv, JoinInv, InitBegin, At
<1>6. QED
  BY <1>1, <1>2, <1>3, <1>4, <1>5 DEF IInv

LEMMA NoModuleStep == ASSUME IInv, NoModule PROVE IInv'
<1>1. TypeOK'
  BY DEF IInv, TypeOK, NoModule, library, objects, At
<1>2. LibraryInv'
  BY DEF IInv, LibraryInv, NoModule, library, At
<1>3. ObjectInv'
  BY DEF IInv, ObjectInv, NoModule, objects, At
<1>4. UseInv'
  BY DEF IInv, UseInv, NoModule, objects, At
<1>5. JoinInv'
  BY DEF IInv, JoinInv, NoModule, At
<1>6. QED
  BY <1>1, <1>2, <1>3, <1>4, <1>5 DEF IInv

LEMMA LoadModuleStep == ASSUME IInv, LoadModule PROVE IInv'
<1>1. TypeOK'
  BY FirstsSubset, LifeAssumption DEF IInv, TypeOK, LoadModule, objects, At
<1>2. LibraryInv'
  BY DEF IInv, LibraryInv, LoadModule, At
<1>3. ObjectInv'
  BY DEF IInv, ObjectInv, LoadModule, objects, At
<1>4. UseInv'
  BY DEF IInv, UseInv, LoadModule, objects, At
<1>5. JoinInv'
  BY DEF IInv, JoinInv, LoadModule, At
<1>6. QED
  BY <1>1, <1>2, <1>3, <1>4, <1>5 DEF IInv

LEMMA NewManagementStep == ASSUME IInv, NewManagement PROVE IInv'
<1>1. TypeOK'
  <2>1. PICK a \in Addr \ live :
            /\ mgr' = a /\ live' = live \cup {a}
            /\ single' = IF single = 0 THEN a ELSE single
            /\ born' = [born EXCEPT ![a] = inits]
            /\ held' = [held EXCEPT ![a] = 0]
    BY DEF NewManagement
  <2>2. /\ mgr' \in Addr \cup {0} /\ single' \in Addr \cup {0} /\ live' \subseteq Addr
        /\ born' \in [Addr -> 0..MaxInits] /\ held' \in [Addr -> 0..MaxSends]
    BY <2>1, LifeAssumption DEF IInv, TypeOK
  <2>3. QED
    BY <2>2 DEF IInv, TypeOK, NewManagement, library
<1>2. LibraryInv'
  BY DEF IInv, LibraryInv, NewManagement, library, At
<1>3. ObjectInv'
  BY DEF IInv, TypeOK, ObjectInv, NewManagement, Addr, Session, At
<1>4. UseInv'
  BY DEF IInv, ObjectInv, UseInv, NewManagement, At
<1>5. JoinInv'
  BY DEF IInv, JoinInv, NewManagement, At
<1>6. QED
  BY <1>1, <1>2, <1>3, <1>4, <1>5 DEF IInv

LEMMA OpenDataQueuesStep == ASSUME IInv, OpenDataQueues PROVE IInv'
<1>1. TypeOK'
  BY DEF IInv, TypeOK, ObjectInv, OpenDataQueues, library, At
<1>2. LibraryInv'
  BY DEF IInv, LibraryInv, OpenDataQueues, library, At
<1>3. ObjectInv'
  BY DEF IInv, TypeOK, ObjectInv, OpenDataQueues, At
<1>4. UseInv'
  BY DEF IInv, UseInv, OpenDataQueues, At
<1>5. JoinInv'
  BY DEF IInv, JoinInv, OpenDataQueues, At
<1>6. QED
  BY <1>1, <1>2, <1>3, <1>4, <1>5 DEF IInv

LEMMA CreateStep == ASSUME IInv, Create PROVE IInv'
<1>1. TypeOK'
  <2>1. PICK to \in {"born", "failed"} : Goes(<<inits, CreateOrder[at]>>, "none", to)
    BY DEF Create
  <2>2. at \in 1..3 /\ <<inits, CreateOrder[at]>> \in Session \X Kind
    BY LifeAssumption DEF IInv, TypeOK, ObjectInv, Create, CreateOrder, Kind
  <2>3. /\ thread' \in [Session \X Kind -> ThreadState]
        /\ \A u \in Session \X Kind :
              thread'[u].obj = 0 <=> thread'[u].at \in {"none", "failed", "born"}
    <3> DEFINE t == <<inits, CreateOrder[at]>>
    <3>1. t \in Session \X Kind /\ thread' = [thread EXCEPT ![t].at = to] /\ thread[t].at = "none"
      BY <2>1, <2>2 DEF Goes
    <3>2. thread[t] \in ThreadState /\ thread[t].obj = 0
      BY <3>1 DEF IInv, TypeOK
    <3> HIDE DEF t
    <3>3. /\ thread'[t] \in ThreadState /\ thread'[t].obj = 0 /\ thread'[t].at = to
          /\ \A u \in Session \X Kind : u # t => thread'[u] = thread[u]
      BY <3>1, <3>2 DEF IInv, TypeOK, ThreadState
    <3>4. thread' \in [Session \X Kind -> ThreadState]
      BY <3>1, <3>3 DEF IInv, TypeOK
    <3>5. QED
      BY <3>3, <3>4 DEF IInv, TypeOK
  <2>4. QED
    BY <2>2, <2>3 DEF IInv, TypeOK, Create, library, objects
<1>2. LibraryInv'
  BY DEF IInv, LibraryInv, Create, library, At
<1>3. ObjectInv'
  BY DEF IInv, ObjectInv, Create, objects, At
<1>4. UseInv'
  <2>1. PICK to \in {"born", "failed"} : Goes(<<inits, CreateOrder[at]>>, "none", to)
    BY DEF Create
  <2>2. /\ born[mgr] = inits /\ UNCHANGED <<isExit, mgr, single, live, born>>
        /\ \A u \in Thread : u # <<inits, CreateOrder[at]>> => thread'[u] = thread[u]
        /\ \A u \in Thread : u = <<inits, CreateOrder[at]>> => At(u)' = to /\ u[1] = inits
    BY <2>1 DEF IInv, TypeOK, ObjectInv, Create, objects, Goes, Thread, At
  <2>3. \A u \in Thread : At(u)' \in {"test", "serve", "ended"} =>
            At(u) = At(u)' /\ thread'[u].obj = thread[u].obj
    BY <2>2 DEF At
  <2>4. \A u \in Thread : At(u)' \in {"born", "test", "serve"} =>
            At(u) = At(u)' \/ u[1] = born[mgr]
    BY <2>2 DEF At
  <2>5. QED
    BY <2>2, <2>3, <2>4 DEF IInv, UseInv
<1>5. JoinInv'
  BY DEF IInv, JoinInv, Create, At
<1>6. QED
  BY <1>1, <1>2, <1>3, <1>4, <1>5 DEF IInv

LEMMA CreatedStep == ASSUME IInv, Created PROVE IInv'
<1>1. TypeOK'
  BY DEF IInv, TypeOK, Created, library, objects, At
<1>2. LibraryInv'
  BY DEF IInv, LibraryInv, Created, library, At
<1>3. ObjectInv'
  BY DEF IInv, ObjectInv, Created, objects, At
<1>4. UseInv'
  BY DEF IInv, UseInv, Created, objects, At
<1>5. JoinInv'
  BY DEF IInv, JoinInv, Created, At
<1>6. QED
  BY <1>1, <1>2, <1>3, <1>4, <1>5 DEF IInv

-----------------------------------------------------------------------------
(* The caller: send_pcm, close_audio_client *)

LEMMA SendPcmStep == ASSUME IInv, SendPcm PROVE IInv'
<1>1. TypeOK'
  <2>1. mgr \in Addr
    BY DEF IInv, TypeOK, ObjectInv, SendPcm
  <2>2. held' \in [Addr -> 0..MaxSends]
    BY <2>1, LifeAssumption DEF IInv, TypeOK, SendPcm
  <2>3. QED
    BY <2>2 DEF IInv, TypeOK, SendPcm, caller, library, objects
<1>2. LibraryInv'
  BY DEF IInv, LibraryInv, SendPcm, library, At
<1>3. ObjectInv'
  BY DEF IInv, ObjectInv, SendPcm, objects, caller, At
<1>4. UseInv'
  BY DEF IInv, UseInv, SendPcm, objects, caller, At
<1>5. JoinInv'
  BY DEF IInv, JoinInv, SendPcm, caller, At
<1>6. QED
  BY <1>1, <1>2, <1>3, <1>4, <1>5 DEF IInv

LEMMA CloseStep == ASSUME IInv, Close PROVE IInv'
<1>1. TypeOK'
  BY DEF IInv, TypeOK, Close, library, objects, At
<1>2. LibraryInv'
  BY DEF IInv, LibraryInv, Close, library, At
<1>3. ObjectInv'
  BY DEF IInv, ObjectInv, Close, objects, At
<1>4. UseInv'
  BY DEF IInv, UseInv, Close, objects, At
<1>5. JoinInv'
  BY DEF IInv, JoinInv, Close, At
<1>6. QED
  BY <1>1, <1>2, <1>3, <1>4, <1>5 DEF IInv

LEMMA JoinStep == ASSUME IInv, Join PROVE IInv'
<1>1. TypeOK'
  BY DEF IInv, TypeOK, Join, library, objects, JoinOrder, At
<1>2. LibraryInv'
  BY DEF IInv, LibraryInv, Join, library, At
<1>3. ObjectInv'
  BY DEF IInv, ObjectInv, Join, objects, At
<1>4. UseInv'
  BY DEF IInv, UseInv, Join, objects, At
<1>5. JoinInv'
  <2>0. app' = "join" => isExit'
    BY DEF IInv, JoinInv, Join
  <2> SUFFICES ASSUME app' = "join", NEW j \in 1..3, j < at'
               PROVE  At(<<born[mgr], JoinOrder[j]>>)' \in {"none", "failed", "ended"}
    BY <2>0 DEF JoinInv
  <2>1. /\ app = "join" /\ at' = at + 1 /\ UNCHANGED <<isExit, born, mgr, thread>>
        /\ at \in 1..3 => thread[<<born[mgr], JoinOrder[at]>>].at \in {"none", "failed", "ended"}
    BY DEF Join, objects, JoinOrder, Kind
  <2>2. CASE j < at
    BY <2>1, <2>2 DEF IInv, JoinInv, At
  <2>3. CASE j = at
    BY <2>1, <2>3 DEF IInv, JoinInv, At
  <2>4. QED
    BY <2>1, <2>2, <2>3 DEF IInv, TypeOK
<1>6. QED
  BY <1>1, <1>2, <1>3, <1>4, <1>5 DEF IInv

LEMMA DeletedStep == ASSUME IInv, Deleted PROVE IInv'
<1>1. TypeOK'
  BY DEF IInv, TypeOK, Deleted, library, At
<1>2. LibraryInv'
  BY DEF IInv, LibraryInv, Deleted, library, At
<1>3. ObjectInv'
  BY DEF IInv, ObjectInv, Deleted, At
<1>4. UseInv'
  <2>1. app = "join" /\ isExit /\ mgr \in live /\ live' = live \ {mgr}
    BY DEF IInv, ObjectInv, JoinInv, Deleted
  <2>2. \A k \in Kind : At(<<born[mgr], k>>) \in {"none", "failed", "ended"}
    <3>1. \A j \in 1..3 : j < at
      BY DEF IInv, TypeOK, Deleted, JoinOrder
    <3>2. \A k \in Kind : \E j \in 1..3 : JoinOrder[j] = k
      BY DEF Kind, JoinOrder
    <3>3. QED
      BY <2>1, <3>1, <3>2 DEF IInv, JoinInv
  <2>3. mgr = single => \A t \in Thread : At(t) # "serve"
    <3> SUFFICES ASSUME mgr = single, NEW t \in Thread, At(t) = "serve" PROVE FALSE
      OBVIOUS
    <3>1. t[1] = born[mgr] /\ t[2] \in Kind /\ t = <<t[1], t[2]>>
      BY <2>1 DEF IInv, TypeOK, UseInv, Thread, Addr
    <3>2. QED
      BY <2>2, <3>1
  <2>4. QED
    BY <2>1, <2>3 DEF IInv, UseInv, Deleted, At
<1>5. JoinInv'
  BY DEF IInv, JoinInv, Deleted, At
<1>6. QED
  BY <1>1, <1>2, <1>3, <1>4, <1>5 DEF IInv

-----------------------------------------------------------------------------
(* The threads *)

LEMMA StartStep == ASSUME IInv, NEW t \in Thread, Start(t) PROVE IInv'
<1>1. TypeOK'
  BY DEF IInv, TypeOK, ObjectInv, Start, library, objects, caller, At, ThreadState
<1>2. LibraryInv'
  BY DEF IInv, LibraryInv, Start, library, At
<1>3. ObjectInv'
  BY DEF IInv, ObjectInv, Start, objects, caller, At
<1>4. UseInv'
  BY DEF IInv, UseInv, Start, objects, caller, At
<1>5. JoinInv'
  BY JoinedThreads DEF IInv, JoinInv, Start, objects, caller, Thread, At
<1>6. QED
  BY <1>1, <1>2, <1>3, <1>4, <1>5 DEF IInv

LEMMA LoopTestStep == ASSUME IInv, NEW t \in Thread, LoopTest(t) PROVE IInv'
<1>1. TypeOK'
  BY ZenonT(30) DEF IInv, TypeOK, LoopTest, library, objects, caller, Goes, Thread, At,
     ThreadState
<1>2. LibraryInv'
  BY DEF IInv, LibraryInv, LoopTest, library, Goes, At
<1>3. ObjectInv'
  BY DEF IInv, ObjectInv, LoopTest, objects, caller, Goes, At
<1>4. UseInv'
  BY DEF IInv, UseInv, LoopTest, objects, caller, Goes, At
<1>5. JoinInv'
  BY JoinedThreads DEF IInv, JoinInv, LoopTest, objects, caller, Goes, At
<1>6. QED
  BY <1>1, <1>2, <1>3, <1>4, <1>5 DEF IInv

LEMMA ServeNetStep == ASSUME IInv, NEW t \in Thread, ServeNet(t) PROVE IInv'
<1>1. TypeOK'
  <2>1. held' \in [Addr -> 0..MaxSends]
    <3>1. CASE UNCHANGED held
      BY <3>1 DEF IInv, TypeOK
    <3>2. CASE /\ held[thread[t].obj] > 0
               /\ held' = [held EXCEPT ![thread[t].obj] = @ - 1]
      <4>1. thread[t].obj \in Addr
        BY DEF IInv, TypeOK, Thread, ServeNet, Goes, ThreadState
      <4>2. QED
        BY <3>2, <4>1, LifeAssumption DEF IInv, TypeOK
    <3>3. QED
      BY <3>1, <3>2 DEF ServeNet
  <2>2. /\ thread' \in [Session \X Kind -> ThreadState]
        /\ \A u \in Session \X Kind :
              thread'[u].obj = 0 <=> thread'[u].at \in {"none", "failed", "born"}
    <3>1. /\ t \in Session \X Kind /\ thread' = [thread EXCEPT ![t].at = "test"]
          /\ thread[t].at = "serve" /\ thread[t] \in ThreadState /\ thread[t].obj # 0
      BY DEF IInv, TypeOK, Thread, ServeNet, Goes
    <3>2. /\ thread'[t] \in ThreadState /\ thread'[t].obj # 0 /\ thread'[t].at = "test"
          /\ \A u \in Session \X Kind : u # t => thread'[u] = thread[u]
      BY <3>1 DEF IInv, TypeOK, ThreadState
    <3>3. thread' \in [Session \X Kind -> ThreadState]
      BY <3>1, <3>2 DEF IInv, TypeOK
    <3>4. QED
      BY <3>2, <3>3 DEF IInv, TypeOK
  <2>3. QED
    BY <2>1, <2>2 DEF IInv, TypeOK, ServeNet, caller, library, objects
<1>2. LibraryInv'
  BY DEF IInv, LibraryInv, ServeNet, library, Goes, At
<1>3. ObjectInv'
  BY DEF IInv, ObjectInv, ServeNet, objects, caller, Goes, At
<1>4. UseInv'
  BY DEF IInv, UseInv, ServeNet, objects, caller, Goes, At
<1>5. JoinInv'
  BY JoinedThreads DEF IInv, JoinInv, ServeNet, objects, caller, Goes, Thread, At
<1>6. QED
  BY <1>1, <1>2, <1>3, <1>4, <1>5 DEF IInv

LEMMA OutputStatusStep == ASSUME IInv, NEW t \in Thread, OutputStatus(t) PROVE IInv'
<1>1. TypeOK'
  BY ZenonT(30) DEF IInv, TypeOK, OutputStatus, library, objects, caller, Goes, Thread, At,
     ThreadState
<1>2. LibraryInv'
  BY DEF IInv, LibraryInv, OutputStatus, library, Goes, At
<1>3. ObjectInv'
  BY DEF IInv, ObjectInv, OutputStatus, objects, caller, Goes, At
<1>4. UseInv'
  BY DEF IInv, UseInv, OutputStatus, objects, caller, Goes, At
<1>5. JoinInv'
  BY JoinedThreads DEF IInv, JoinInv, OutputStatus, objects, caller, Goes, Thread, At
<1>6. QED
  BY <1>1, <1>2, <1>3, <1>4, <1>5 DEF IInv

LEMMA ProcRcvQueueStep == ASSUME IInv, NEW t \in Thread, ProcRcvQueue(t) PROVE IInv'
<1>1. TypeOK'
  BY ZenonT(30) DEF IInv, TypeOK, LibraryInv, ProcRcvQueue, library, objects,
     caller, Goes, At, ThreadState
<1>2. LibraryInv'
  BY DEF IInv, LibraryInv, ProcRcvQueue, library, Goes, At
<1>3. ObjectInv'
  BY DEF IInv, ObjectInv, ProcRcvQueue, objects, caller, Goes, At
<1>4. UseInv'
  BY DEF IInv, UseInv, ProcRcvQueue, objects, caller, Goes, At
<1>5. JoinInv'
  BY JoinedThreads DEF IInv, JoinInv, ProcRcvQueue, objects, caller, Goes, Thread, At
<1>6. QED
  BY <1>1, <1>2, <1>3, <1>4, <1>5 DEF IInv

-----------------------------------------------------------------------------
LEMMA StepInv == IInv /\ [Next]_vars => IInv'
<1> SUFFICES ASSUME IInv, [Next]_vars PROVE IInv'
  OBVIOUS
<1>1. CASE InitBegin
  BY <1>1, InitBeginStep
<1>2. CASE NoModule
  BY <1>2, NoModuleStep
<1>3. CASE LoadModule
  BY <1>3, LoadModuleStep
<1>4. CASE NewManagement
  BY <1>4, NewManagementStep
<1>5. CASE OpenDataQueues
  BY <1>5, OpenDataQueuesStep
<1>6. CASE Create
  BY <1>6, CreateStep
<1>7. CASE Created
  BY <1>7, CreatedStep
<1>8. CASE SendPcm
  BY <1>8, SendPcmStep
<1>9. CASE Close
  BY <1>9, CloseStep
<1>10. CASE Join
  BY <1>10, JoinStep
<1>11. CASE Deleted
  BY <1>11, DeletedStep
<1>12. ASSUME NEW t \in Thread, Step(t) PROVE IInv'
  <2>1. CASE Start(t)
    BY <2>1, StartStep
  <2>2. CASE LoopTest(t)
    BY <2>2, LoopTestStep
  <2>3. CASE ServeNet(t)
    BY <2>3, ServeNetStep
  <2>4. CASE OutputStatus(t)
    BY <2>4, OutputStatusStep
  <2>5. CASE ProcRcvQueue(t)
    BY <2>5, ProcRcvQueueStep
  <2>6. QED
    BY <1>12, <2>1, <2>2, <2>3, <2>4, <2>5 DEF Step
<1>13. CASE UNCHANGED vars
  BY <1>13 DEF IInv, TypeOK, LibraryInv, ObjectInv, UseInv, JoinInv, At, vars,
     caller, library,
             objects
<1>14. QED
  BY <1>1, <1>2, <1>3, <1>4, <1>5, <1>6, <1>7, <1>8, <1>9, <1>10, <1>11, <1>12,
     <1>13 DEF Next, Api, Thread

LEMMA InvHolds == Spec => []IInv
BY InitInv, StepInv, PTL DEF Spec

-----------------------------------------------------------------------------
(* The theorems *)

\* Every variable of the client's life keeps its type: a thread that runs was
\* given an object, the queues never hold less than nothing.
THEOREM TypeCorrect == Spec => []TypeOK
<1>1. IInv => TypeOK
  BY DEF IInv
<1>2. QED
  BY <1>1, InvHolds, PTL

\* However the caller opens and closes clients, no networkThread,
\* outputStatusThread or resultDealThread works on a deleted
\* ClientManagement.
THEOREM ObjectsAreAlive == Spec => []NoUseAfterDelete
<1>1. IInv => NoUseAfterDelete
  BY DEF IInv, TypeOK, UseInv, NoUseAfterDelete, At, Thread
<1>2. QED
  BY <1>1, InvHolds, PTL

\* loadDecoderModule lets nothing run that could call a function the
\* library lacks.
THEOREM PointersAreKnown == Spec => []CallsKnown
<1>1. IInv => CallsKnown
  BY DEF IInv, LibraryInv, CallsKnown, At, Thread
<1>2. QED
  BY <1>1, InvHolds, PTL

\* The threads of the first init_audio_client serve what send_pcm fills.
THEOREM FirstSessionServes == Spec => []FirstInitServes
<1>1. IInv => FirstInitServes
  BY LifeAssumption DEF IInv, ObjectInv, UseInv, FirstInitServes, At, Thread
<1>2. QED
  BY <1>1, InvHolds, PTL
=============================================================================
