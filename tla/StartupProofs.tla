---------------------------- MODULE StartupProofs ----------------------------
(***************************************************************************)
(* Proofs about Startup, for any number of processes and directories and   *)
(* with every fault: one server per directory, refusals by the living      *)
(* only, and who may have the port.                                        *)
(***************************************************************************)
EXTENDS Startup, TLAPS

\* The lock belongs to the process that is past F_SETLK or was when it
\* ended, and the number in the file is that of the server past that, unless
\* it could not write it.
Owning == Holding \cup {"dead", "left"}

LockHeld ==
    /\ \A p \in Pid : main[p] \in Holding => owner[dir[p]] = p
    /\ \A d \in Dir : owner[d] # None =>
          main[owner[d]] \in Owning /\ dir[owner[d]] = d

NumberWritten ==
    \A p \in Pid : main[p] \in Past => p \in unnumbered \/ pidFile[dir[p]] = p

IInv == TypeOK /\ LockHeld /\ NumberWritten

LEMMA InitInv == Init => IInv
BY StartupAssumption
   DEF Init, IInv, TypeOK, Types, Stages, LockHeld, NumberWritten, Past, Owning, Holding, Handled, Unhandled

-----------------------------------------------------------------------------
(* One lemma per part of the code *)

\* A step within one process keeps the lock if it neither begins nor ends
\* to hold it there, ...
LEMMA MoveKeepsLock ==
    ASSUME IInv, NEW p \in Pid, NEW from, NEW to, Goes(p, from, to),
           to \in Holding => from \in Holding,
           from \in Owning => to \in Owning,
           owner' = owner, dir' = dir
    PROVE  LockHeld'
<1>1. /\ main[p] = from /\ main'[p] = to
      /\ \A q \in Pid \ {p} : main'[q] = main[q]
  BY DEF IInv, TypeOK, Types, Stages, Goes
<1>2. \A q \in Pid : main'[q] \in Holding => owner'[dir'[q]] = q
  BY <1>1 DEF IInv, LockHeld
<1>3. \A d \in Dir : owner'[d] # None =>
          main'[owner'[d]] \in Owning /\ dir'[owner'[d]] = d
  BY <1>1 DEF IInv, LockHeld, TypeOK, Types, Stages
<1>4. QED
  BY <1>2, <1>3 DEF LockHeld

\* ... and the number if it does not come past already_running.
LEMMA MoveKeepsNumber ==
    ASSUME IInv, NEW p \in Pid, NEW from, NEW to, Goes(p, from, to),
           to \in Past => from \in Past,
           pidFile' = pidFile, unnumbered' = unnumbered, dir' = dir
    PROVE  NumberWritten'
<1>1. /\ main[p] = from /\ main'[p] = to
      /\ \A q \in Pid \ {p} : main'[q] = main[q]
  BY DEF IInv, TypeOK, Types, Stages, Goes
<1>2. QED
  BY <1>1 DEF IInv, NumberWritten

\* A step of one process within its directory keeps the others where they are.
LEMMA MoveKeepsStages ==
    ASSUME IInv, NEW p \in Pid, NEW from, NEW to, Goes(p, from, to),
           from # "none", to # "none",
           from \in Handled => to \in Handled,
           from \in Handled \cup Dead => to \in Handled \cup Dead,
           UNCHANGED <<listen, dir, isExit, sock>>
    PROVE  Stages'
<1>1. main \in [Pid -> {"none"} \cup Unhandled \cup Handled \cup Dead \cup Left]
  BY DEF IInv, TypeOK, Types
<1>2. /\ main[p] = from /\ main'[p] = to
      /\ \A q \in Pid \ {p} : main'[q] = main[q]
  BY <1>1 DEF Goes
<1>3. QED
  BY <1>2 DEF IInv, TypeOK, Stages

\* So does a step of its listen thread, which is there only while SIGINT is
\* handled.
LEMMA ListenKeepsStages ==
    ASSUME IInv, NEW p \in Pid, NEW from, NEW to, Listens(p, from, to),
           from # "none", UNCHANGED <<main, dir, isExit>>,
           \A q \in Pid \ {p} : sock'[q] = sock[q]
    PROVE  Stages'
<1>1. listen[p] = from /\ \A q \in Pid \ {p} : listen'[q] = listen[q]
  BY DEF IInv, TypeOK, Types, Listens
<1>2. main[p] \in Handled
  BY <1>1 DEF IInv, TypeOK, Stages
<1>3. QED
  BY <1>1, <1>2 DEF IInv, TypeOK, Stages

\* A process that dies keeps its directory, its socket and its lock.
LEMMA DiesInv ==
    ASSUME IInv, NEW p \in Pid, main[p] \in Unhandled \cup Handled, Dies(p)
    PROVE  IInv'
<1>1. TypeOK'
  <2>1. Types'
    BY DEF IInv, TypeOK, Types, Dies, Unhandled, Handled, Dead, Left, files
  <2>2. Stages'
    BY DEF IInv, TypeOK, Types, Stages, Dies, Unhandled, Handled, Dead, Left, files
  <2>3. QED
    BY <2>1, <2>2 DEF TypeOK
<1>2. Goes(p, main[p], "dead") /\ UNCHANGED <<owner, dir, pidFile, unnumbered>>
  BY DEF Goes, Dies, files
<1>3. "dead" \in Owning /\ "dead" \notin Holding /\ "dead" \notin Past
  BY DEF Owning, Holding, Past, Handled
<1>4. LockHeld'
  BY <1>2, <1>3, MoveKeepsLock
<1>5. NumberWritten'
  BY <1>2, <1>3, MoveKeepsNumber
<1>6. QED
  BY <1>1, <1>4, <1>5 DEF IInv

LEMMA LaunchStep ==
    ASSUME IInv, NEW p \in Pid, NEW d \in Dir, Launch(p, d)
    PROVE  IInv'
<1>1. PICK first \in {"daemon", "open"} : main' = [main EXCEPT ![p] = first]
  BY DEF Launch
<1>2. TypeOK'
  <2>1. Types'
    BY <1>1
       DEF IInv, TypeOK, Types, Launch, Unhandled, Handled, Dead, Left, files
  <2>2. Stages'
    <3>1. /\ main[p] = "none" /\ main'[p] # "none" /\ dir'[p] # None
          /\ UNCHANGED <<listen, isExit, sock>>
      BY <1>1, StartupAssumption DEF Launch, IInv, TypeOK, Types
    <3>2. \A q \in Pid \ {p} : main'[q] = main[q] /\ dir'[q] = dir[q]
      BY <1>1 DEF Launch, IInv, TypeOK, Types
    <3>3. QED
      BY <3>1, <3>2 DEF IInv, TypeOK, Stages, Handled, Dead
  <2>3. QED
    BY <2>1, <2>2 DEF TypeOK
<1>3. /\ main'[p] \notin Holding /\ main[p] \notin Owning
      /\ \A r \in Pid \ {p} : main'[r] = main[r] /\ dir'[r] = dir[r]
  BY <1>1 DEF Launch, IInv, TypeOK, Types, Stages, Owning, Holding, Past, Handled
<1>4. UNCHANGED <<owner, pidFile, unnumbered>>
  BY DEF Launch, files
<1>5. \A r \in Pid : main'[r] \in Holding => owner'[dir'[r]] = r
  BY <1>3, <1>4 DEF IInv, LockHeld
<1>6. \A e \in Dir : owner'[e] # None =>
          main'[owner'[e]] \in Owning /\ dir'[owner'[e]] = e
  BY <1>3, <1>4 DEF IInv, TypeOK, Types, Stages, LockHeld
<1>7. NumberWritten'
  BY <1>3, <1>4 DEF IInv, NumberWritten, Holding
<1>8. QED
  BY <1>2, <1>5, <1>6, <1>7 DEF IInv, LockHeld

LEMMA ForkStep ==
    ASSUME IInv, NEW p \in Pid, NEW q \in Pid, Fork(p, q)
    PROVE  IInv'
<1>1. TypeOK'
  <2>1. Types'
    BY DEF IInv, TypeOK, Types, Fork, Unhandled, Handled, Dead, Left, files
  <2>2. Stages'
    BY StartupAssumption DEF IInv, TypeOK, Types, Stages, Fork, Unhandled, Handled, Dead, Left, files
  <2>3. QED
    BY <2>1, <2>2 DEF TypeOK
<1>2. /\ main'[p] \notin Holding /\ main'[q] \notin Holding
      /\ main[p] \notin Owning /\ main[q] \notin Owning
      /\ \A r \in Pid \ {p, q} : main'[r] = main[r] /\ dir'[r] = dir[r]
  BY DEF Fork, IInv, TypeOK, Types, Stages, Owning, Holding, Past, Handled
<1>3. UNCHANGED <<owner, pidFile, unnumbered>>
  BY DEF Fork, files
<1>4. \A r \in Pid : main'[r] \in Holding => owner'[dir'[r]] = r
  BY <1>2, <1>3 DEF IInv, LockHeld
<1>5. \A d \in Dir : owner'[d] # None =>
          main'[owner'[d]] \in Owning /\ dir'[owner'[d]] = d
  BY <1>2, <1>3 DEF IInv, TypeOK, Types, Stages, LockHeld
<1>6. NumberWritten'
  BY <1>2, <1>3 DEF IInv, NumberWritten, Holding
<1>7. QED
  BY <1>1, <1>4, <1>5, <1>6 DEF IInv, LockHeld

\* The pid file is opened.
LEMMA OpenStep ==
    ASSUME IInv, NEW p \in Pid,
           OpenPidFile(p) \/ OpenFails(p)
    PROVE  IInv'
<1>1. CASE OpenPidFile(p)
  <2>1. TypeOK'
    <3>1. Types'
      BY <1>1 DEF IInv, TypeOK, Types, OpenPidFile, Goes,
         Unhandled, Handled, Dead, Left, files
    <3>2. Stages'
      BY <1>1, MoveKeepsStages DEF OpenPidFile, Handled, Dead
    <3>3. QED
      BY <3>1, <3>2 DEF TypeOK
  <2>2. LockHeld'
    BY <1>1, MoveKeepsLock DEF OpenPidFile, Owning, Holding, Past, Handled
  <2>3. \A q \in Pid : main'[q] \in Past => main[q] \in Past
    BY <1>1 DEF OpenPidFile, Goes, Past, Handled, IInv, TypeOK, Types, Stages
  <2>4. \A d \in Dir : pidFile[d] \in Pid => pidFile'[d] = pidFile[d]
    BY <1>1, StartupAssumption DEF OpenPidFile, IInv, TypeOK, Types, Stages
  <2>5. \A q \in Pid : main[q] \in Past => dir[q] \in Dir
    BY DEF IInv, TypeOK, Types, Stages, Past, Handled
  <2>6. NumberWritten'
    BY <1>1, <2>3, <2>4, <2>5 DEF OpenPidFile, IInv, NumberWritten
  <2>7. QED
    BY <2>1, <2>2, <2>6 DEF IInv
<1>2. CASE OpenFails(p)
  BY <1>2, DiesInv DEF OpenFails, Unhandled, Handled
<1>3. QED
  BY <1>1, <1>2

\* LockFile and what follows.
LEMMA LockStep ==
    ASSUME IInv, NEW p \in Pid,
           Lock(p) \/ Refused(p) \/ GivesUp(p) \/ Truncate(p)
           \/ WritePid(p) \/ WriteFails(p)
    PROVE  IInv'
<1>1. CASE Lock(p)
  <2>1. TypeOK'
    <3>1. Types'
      BY <1>1 DEF IInv, TypeOK, Types, Lock, Goes,
         Unhandled, Handled, Dead, Left, files
    <3>2. Stages'
      BY <1>1, MoveKeepsStages DEF Lock, Handled, Dead
    <3>3. QED
      BY <3>1, <3>2 DEF TypeOK
  <2>2. /\ main'[p] = "truncate" /\ main[p] = "lock" /\ dir[p] \in Dir
        /\ \A q \in Pid \ {p} : main'[q] = main[q]
    BY <1>1 DEF Lock, Goes, IInv, TypeOK, Types, Stages
  <2>3. /\ owner[dir[p]] = None /\ owner'[dir[p]] = p
        /\ \A d \in Dir \ {dir[p]} : owner'[d] = owner[d]
    BY <1>1, <2>2 DEF Lock, IInv, TypeOK, Types, Stages
  <2>4. \A q \in Pid \ {p} : main[q] \in Holding => dir[q] \in Dir /\ dir[q] # dir[p]
    BY <2>3, StartupAssumption DEF IInv, TypeOK, Types, Stages, LockHeld, Holding, Past, Handled
  <2>5. \A q \in Pid : main'[q] \in Holding => owner'[dir'[q]] = q
    BY <1>1, <2>2, <2>3, <2>4 DEF Lock, IInv, LockHeld
  <2>6. ASSUME NEW d \in Dir, owner'[d] # None
        PROVE  main'[owner'[d]] \in Owning /\ dir'[owner'[d]] = d
    <3>1. CASE d = dir[p]
      BY <1>1, <2>2, <2>3, <3>1 DEF Lock, Owning, Holding
    <3>2. CASE d # dir[p]
      <4>1. owner'[d] = owner[d] /\ owner[d] \in Pid /\ main[owner[d]] \in Owning
            /\ dir[owner[d]] = d
        BY <2>3, <2>6, <3>2 DEF IInv, TypeOK, Types, Stages, LockHeld
      <4>2. QED
        BY <1>1, <2>2, <3>2, <4>1 DEF Lock
    <3>3. QED
      BY <3>1, <3>2
  <2>7. NumberWritten'
    BY <1>1, MoveKeepsNumber DEF Lock, Past, Handled
  <2>8. QED
    BY <2>1, <2>5, <2>6, <2>7 DEF IInv, LockHeld
<1>2. CASE Refused(p)
  <2>1. TypeOK'
    <3>1. Types'
      BY <1>2 DEF IInv, TypeOK, Types, Refused, Goes,
         Unhandled, Handled, Dead, Left, files
    <3>2. Stages'
      BY <1>2, MoveKeepsStages DEF Refused, Handled, Dead
    <3>3. QED
      BY <3>1, <3>2 DEF TypeOK
  <2>2. LockHeld'
    BY <1>2, MoveKeepsLock DEF Refused, files, Owning, Holding, Past, Handled
  <2>3. NumberWritten'
    BY <1>2, MoveKeepsNumber DEF Refused, files, Past, Handled
  <2>4. QED
    BY <2>1, <2>2, <2>3 DEF IInv
<1>3. CASE GivesUp(p)
  BY <1>3, DiesInv DEF GivesUp, Unhandled, Handled
<1>4. CASE Truncate(p)
  <2>1. TypeOK'
    <3>1. Types'
      BY <1>4 DEF IInv, TypeOK, Types, Truncate, Goes,
         Unhandled, Handled, Dead, Left, files
    <3>2. Stages'
      BY <1>4, MoveKeepsStages DEF Truncate, Handled, Dead
    <3>3. QED
      BY <3>1, <3>2 DEF TypeOK
  <2>2. LockHeld'
    BY <1>4, MoveKeepsLock DEF Truncate, Owning, Holding, Past, Handled
  <2>3. main[p] \in Holding /\ dir[p] \in Dir
    BY <1>4 DEF Truncate, Goes, Holding, IInv, TypeOK, Types, Stages
  <2>4. ASSUME NEW q \in Pid, main'[q] \in Past
        PROVE  q \in unnumbered' \/ pidFile'[dir'[q]] = q
    <3>1. CASE q = p
      BY <1>4, <2>3, <2>4, <3>1 DEF Truncate, Goes, IInv, TypeOK, Types, Stages, Past, Handled
    <3>2. CASE q # p
      <4>1. main[q] \in Past /\ dir[q] \in Dir
        BY <1>4, <2>4, <3>2 DEF Truncate, Goes, IInv, TypeOK, Types, Stages, Past, Handled
      <4>2. dir[q] # dir[p]
        BY <2>3, <3>2, <4>1 DEF IInv, LockHeld, Holding
      <4>3. QED
        BY <1>4, <4>1, <4>2 DEF Truncate, IInv, TypeOK, Types, Stages, NumberWritten
    <3>3. QED
      BY <3>1, <3>2
  <2>5. QED
    BY <2>1, <2>2, <2>4 DEF IInv, NumberWritten
<1>5. CASE WritePid(p)
  <2>1. TypeOK'
    <3>1. Types'
      BY <1>5 DEF IInv, TypeOK, Types, WritePid, Goes,
         Unhandled, Handled, Dead, Left, files
    <3>2. Stages'
      BY <1>5, MoveKeepsStages DEF WritePid, Handled, Dead
    <3>3. QED
      BY <3>1, <3>2 DEF TypeOK
  <2>2. LockHeld'
    BY <1>5, MoveKeepsLock DEF WritePid, Owning, Holding, Past, Handled
  <2>3. main[p] \in Holding /\ dir[p] \in Dir
    BY <1>5 DEF WritePid, Goes, Holding, IInv, TypeOK, Types, Stages
  <2>4. ASSUME NEW q \in Pid, main'[q] \in Past
        PROVE  q \in unnumbered' \/ pidFile'[dir'[q]] = q
    <3>1. CASE q = p
      BY <1>5, <2>3, <2>4, <3>1 DEF WritePid, Goes, IInv, TypeOK, Types, Stages, Past, Handled
    <3>2. CASE q # p
      <4>1. main[q] \in Past /\ dir[q] \in Dir
        BY <1>5, <2>4, <3>2 DEF WritePid, Goes, IInv, TypeOK, Types, Stages, Past, Handled
      <4>2. dir[q] # dir[p]
        BY <2>3, <3>2, <4>1 DEF IInv, LockHeld, Holding
      <4>3. QED
        BY <1>5, <4>1, <4>2 DEF WritePid, IInv, TypeOK, Types, Stages, NumberWritten
    <3>3. QED
      BY <3>1, <3>2
  <2>5. QED
    BY <2>1, <2>2, <2>4 DEF IInv, NumberWritten
<1>6. CASE WriteFails(p)
  <2>1. TypeOK'
    <3>1. Types'
      <4>1. PICK found \in Pid \cup {pidFile[dir[p]]} :
                pidFile' = [pidFile EXCEPT ![dir[p]] = found]
        BY <1>6 DEF WriteFails
      <4>2. dir[p] \in Dir
        BY <1>6 DEF WriteFails, Goes, IInv, TypeOK, Types, Stages
      <4>3. pidFile' \in [Dir -> Pid \cup {NoFile, Empty}]
        BY <4>1, <4>2 DEF IInv, TypeOK, Types
      <4>4. QED
        BY <1>6, <4>3 DEF IInv, TypeOK, Types, WriteFails, Goes,
           Unhandled, Handled
    <3>2. Stages'
      BY <1>6, MoveKeepsStages DEF WriteFails, Handled, Dead
    <3>3. QED
      BY <3>1, <3>2 DEF TypeOK
  <2>2. LockHeld'
    BY <1>6, MoveKeepsLock DEF WriteFails, Owning, Holding, Past, Handled
  <2>3. main[p] \in Holding /\ dir[p] \in Dir
    BY <1>6 DEF WriteFails, Goes, Holding, IInv, TypeOK, Types, Stages
  <2>4. ASSUME NEW q \in Pid, main'[q] \in Past
        PROVE  q \in unnumbered' \/ pidFile'[dir'[q]] = q
    <3>1. CASE q = p
      BY <1>6, <2>3, <2>4, <3>1 DEF WriteFails, Goes, IInv, TypeOK, Types, Stages, Past, Handled
    <3>2. CASE q # p
      <4>1. main[q] \in Past /\ dir[q] \in Dir
        BY <1>6, <2>4, <3>2 DEF WriteFails, Goes, IInv, TypeOK, Types, Stages, Past, Handled
      <4>2. dir[q] # dir[p]
        BY <2>3, <3>2, <4>1 DEF IInv, LockHeld, Holding
      <4>3. QED
        BY <1>6, <4>1, <4>2 DEF WriteFails, IInv, TypeOK, Types, Stages, NumberWritten
    <3>3. QED
      BY <3>1, <3>2
  <2>5. QED
    BY <2>1, <2>2, <2>4 DEF IInv, NumberWritten
<1>7. QED
  BY <1>1, <1>2, <1>3, <1>4, <1>5, <1>6

\* SystemInitialize.
LEMMA InitializeStep ==
    ASSUME IInv, NEW p \in Pid,
           LoadModule(p) \/ LoadFails(p) \/ HandleSigint(p) \/ HandleFails(p)
           \/ StartServer(p) \/ LeaveLoop(p) \/ Join(p) \/ Destroy(p)
    PROVE  IInv'
<1>1. CASE LoadModule(p)
  <2>1. TypeOK'
    <3>1. Types'
      BY <1>1 DEF IInv, TypeOK, Types, LoadModule, Goes,
         Unhandled, Handled, Dead, Left, files
    <3>2. Stages'
      BY <1>1, MoveKeepsStages DEF LoadModule, Handled, Dead
    <3>3. QED
      BY <3>1, <3>2 DEF TypeOK
  <2>2. LockHeld'
    BY <1>1, MoveKeepsLock DEF LoadModule, files, Owning, Holding, Past, Handled
  <2>3. NumberWritten'
    BY <1>1, MoveKeepsNumber DEF LoadModule, files, Past, Handled
  <2>4. QED
    BY <2>1, <2>2, <2>3 DEF IInv
<1>2. CASE LoadFails(p)
  BY <1>2, DiesInv DEF LoadFails, Unhandled, Handled
<1>3. CASE HandleSigint(p)
  <2>1. TypeOK'
    <3>1. Types'
      BY <1>3 DEF IInv, TypeOK, Types, HandleSigint, Goes,
         Unhandled, Handled, Dead, Left, files
    <3>2. Stages'
      BY <1>3, MoveKeepsStages DEF HandleSigint, Handled, Dead
    <3>3. QED
      BY <3>1, <3>2 DEF TypeOK
  <2>2. LockHeld'
    BY <1>3, MoveKeepsLock DEF HandleSigint, files, Owning, Holding, Past, Handled
  <2>3. NumberWritten'
    BY <1>3, MoveKeepsNumber DEF HandleSigint, files, Past, Handled
  <2>4. QED
    BY <2>1, <2>2, <2>3 DEF IInv
<1>4. CASE HandleFails(p)
  BY <1>4, DiesInv DEF HandleFails, Unhandled, Handled
<1>5. CASE StartServer(p)
  <2>1. TypeOK'
    <3>1. Types'
      BY <1>5 DEF IInv, TypeOK, Types, StartServer, Goes, Listens,
         Unhandled, Handled, Dead, Left, files
    <3>2. Stages'
      <4>1. /\ main[p] = "start" /\ main'[p] = "run"
            /\ UNCHANGED <<dir, isExit, sock>>
        BY <1>5 DEF StartServer, Goes, IInv, TypeOK, Types
      <4>2. \A q \in Pid \ {p} : main'[q] = main[q] /\ listen'[q] = listen[q]
        BY <1>5 DEF StartServer, Goes, Listens, IInv, TypeOK, Types
      <4>3. QED
        BY <4>1, <4>2 DEF IInv, TypeOK, Stages, Handled
    <3>3. QED
      BY <3>1, <3>2 DEF TypeOK
  <2>2. LockHeld'
    BY <1>5, MoveKeepsLock DEF StartServer, files, Owning, Holding, Past, Handled
  <2>3. NumberWritten'
    BY <1>5, MoveKeepsNumber DEF StartServer, files, Past, Handled
  <2>4. QED
    BY <2>1, <2>2, <2>3 DEF IInv
<1>6. CASE LeaveLoop(p)
  <2>1. TypeOK'
    <3>1. Types'
      BY <1>6 DEF IInv, TypeOK, Types, LeaveLoop, Goes,
         Unhandled, Handled, Dead, Left, files
    <3>2. Stages'
      BY <1>6, MoveKeepsStages DEF LeaveLoop, Handled, Dead
    <3>3. QED
      BY <3>1, <3>2 DEF TypeOK
  <2>2. LockHeld'
    BY <1>6, MoveKeepsLock DEF LeaveLoop, files, Owning, Holding, Past, Handled
  <2>3. NumberWritten'
    BY <1>6, MoveKeepsNumber DEF LeaveLoop, files, Past, Handled
  <2>4. QED
    BY <2>1, <2>2, <2>3 DEF IInv
<1>7. CASE Join(p)
  <2>1. TypeOK'
    <3>1. Types'
      BY <1>7 DEF IInv, TypeOK, Types, Join, Goes,
         Unhandled, Handled, Dead, Left, files
    <3>2. Stages'
      BY <1>7, MoveKeepsStages DEF Join, Handled, Dead
    <3>3. QED
      BY <3>1, <3>2 DEF TypeOK
  <2>2. LockHeld'
    BY <1>7, MoveKeepsLock DEF Join, files, Owning, Holding, Past, Handled
  <2>3. NumberWritten'
    BY <1>7, MoveKeepsNumber DEF Join, files, Past, Handled
  <2>4. QED
    BY <2>1, <2>2, <2>3 DEF IInv
<1>8. CASE Destroy(p)
  <2>1. TypeOK'
    <3>1. Types'
      BY <1>8 DEF IInv, TypeOK, Types, Destroy, Goes,
         Unhandled, Handled, Dead, Left, files
    <3>2. Stages'
      <4>1. /\ main[p] = "destroy" /\ main'[p] = "left" /\ dir' = dir
            /\ listen'[p] = "none" /\ sock'[p] = "none" /\ ~isExit'[p]
        BY <1>8 DEF Destroy, Goes, IInv, TypeOK, Types
      <4>2. \A q \in Pid \ {p} :
                /\ main'[q] = main[q] /\ listen'[q] = listen[q]
                /\ sock'[q] = sock[q] /\ isExit'[q] = isExit[q]
        BY <1>8 DEF Destroy, Goes, IInv, TypeOK, Types
      <4>3. QED
        BY <4>1, <4>2 DEF IInv, TypeOK, Stages, Handled
    <3>3. QED
      BY <3>1, <3>2 DEF TypeOK
  <2>2. LockHeld'
    BY <1>8, MoveKeepsLock DEF Destroy, files, Owning, Holding, Past, Handled
  <2>3. NumberWritten'
    BY <1>8, MoveKeepsNumber DEF Destroy, files, Past, Handled
  <2>4. QED
    BY <2>1, <2>2, <2>3 DEF IInv
<1>9. QED
  BY <1>1, <1>2, <1>3, <1>4, <1>5, <1>6, <1>7, <1>8

\* RequestListenFunc.
LEMMA ListenStep ==
    ASSUME IInv, NEW p \in Pid,
           Bind(p) \/ BindFails(p) \/ SocketFails(p) \/ Listen(p)
           \/ Create(p) \/ CreateThrows(p) \/ AcceptBlocks(p) \/ LoopEnds(p)
    PROVE  IInv'
<1>1. CASE Bind(p)
  <2>1. TypeOK'
    <3>1. Types'
      BY <1>1 DEF IInv, TypeOK, Types, Bind, Listens, PortInUse,
         Unhandled, Handled, Dead, Left, files
    <3>2. Stages'
      <4>1. \A q \in Pid \ {p} : sock'[q] = sock[q]
        BY <1>1 DEF Bind, IInv, TypeOK, Types
      <4>2. QED
        BY <1>1, <4>1, ListenKeepsStages DEF Bind
    <3>3. QED
      BY <3>1, <3>2 DEF TypeOK
  <2>2. LockHeld' /\ NumberWritten'
    BY <1>1 DEF IInv, LockHeld, NumberWritten, Bind, files
  <2>3. QED
    BY <2>1, <2>2 DEF IInv
<1>2. CASE BindFails(p)
  <2>1. TypeOK'
    <3>1. Types'
      BY <1>2 DEF IInv, TypeOK, Types, BindFails, Listens, PortInUse,
         Unhandled, Handled, Dead, Left, files
    <3>2. Stages'
      <4>1. \A q \in Pid \ {p} : sock'[q] = sock[q]
        BY <1>2 DEF BindFails, IInv, TypeOK, Types
      <4>2. QED
        BY <1>2, <4>1, ListenKeepsStages DEF BindFails
    <3>3. QED
      BY <3>1, <3>2 DEF TypeOK
  <2>2. LockHeld' /\ NumberWritten'
    BY <1>2 DEF IInv, LockHeld, NumberWritten, BindFails, files
  <2>3. QED
    BY <2>1, <2>2 DEF IInv
<1>3. CASE SocketFails(p)
  <2>1. TypeOK'
    <3>1. Types'
      BY <1>3 DEF IInv, TypeOK, Types, SocketFails, Listens,
         Unhandled, Handled, Dead, Left, files
    <3>2. Stages'
      BY <1>3, ListenKeepsStages DEF SocketFails
    <3>3. QED
      BY <3>1, <3>2 DEF TypeOK
  <2>2. LockHeld' /\ NumberWritten'
    BY <1>3 DEF IInv, LockHeld, NumberWritten, SocketFails, files
  <2>3. QED
    BY <2>1, <2>2 DEF IInv
<1>4. CASE Listen(p)
  <2>1. TypeOK'
    <3>1. Types'
      BY <1>4 DEF IInv, TypeOK, Types, Listen, Listens, PortInUse,
         Unhandled, Handled, Dead, Left, files
    <3>2. Stages'
      <4>1. \A q \in Pid \ {p} : sock'[q] = sock[q]
        BY <1>4 DEF Listen, IInv, TypeOK, Types
      <4>2. QED
        BY <1>4, <4>1, ListenKeepsStages DEF Listen
    <3>3. QED
      BY <3>1, <3>2 DEF TypeOK
  <2>2. LockHeld' /\ NumberWritten'
    BY <1>4 DEF IInv, LockHeld, NumberWritten, Listen, files
  <2>3. QED
    BY <2>1, <2>2 DEF IInv
<1>5. CASE Create(p)
  <2>1. TypeOK'
    <3>1. Types'
      BY <1>5 DEF IInv, TypeOK, Types, Create, Listens,
         Unhandled, Handled, Dead, Left, files
    <3>2. Stages'
      BY <1>5, ListenKeepsStages DEF Create
    <3>3. QED
      BY <3>1, <3>2 DEF TypeOK
  <2>2. LockHeld' /\ NumberWritten'
    BY <1>5 DEF IInv, LockHeld, NumberWritten, Create, files
  <2>3. QED
    BY <2>1, <2>2 DEF IInv
<1>6. CASE CreateThrows(p)
  BY <1>6, DiesInv DEF CreateThrows, Unhandled, Handled, TypeOK, Types, Stages, IInv
<1>7. CASE AcceptBlocks(p)
  <2>1. TypeOK'
    <3>1. Types'
      BY <1>7 DEF IInv, TypeOK, Types, AcceptBlocks, Listens,
         Unhandled, Handled, Dead, Left, files
    <3>2. Stages'
      BY <1>7, ListenKeepsStages DEF AcceptBlocks
    <3>3. QED
      BY <3>1, <3>2 DEF TypeOK
  <2>2. LockHeld' /\ NumberWritten'
    BY <1>7 DEF IInv, LockHeld, NumberWritten, AcceptBlocks, files
  <2>3. QED
    BY <2>1, <2>2 DEF IInv
<1>8. CASE LoopEnds(p)
  <2>1. TypeOK'
    <3>1. Types'
      BY <1>8 DEF IInv, TypeOK, Types, LoopEnds, Listens,
         Unhandled, Handled, Dead, Left, files
    <3>2. Stages'
      BY <1>8, ListenKeepsStages DEF LoopEnds
    <3>3. QED
      BY <3>1, <3>2 DEF TypeOK
  <2>2. LockHeld' /\ NumberWritten'
    BY <1>8 DEF IInv, LockHeld, NumberWritten, LoopEnds, files
  <2>3. QED
    BY <2>1, <2>2 DEF IInv
<1>9. QED
  BY <1>1, <1>2, <1>3, <1>4, <1>5, <1>6, <1>7, <1>8

\* Signals and the end of a process.
LEMMA KernelStep ==
    ASSUME IInv, NEW p \in Pid,
           ForkFails(p) \/ Sigint(p) \/ Kill(p) \/ CloseFile(p)
           \/ CloseSocket(p)
    PROVE  IInv'
<1>1. CASE ForkFails(p)
  <2>1. TypeOK'
    <3>1. Types'
      BY <1>1 DEF IInv, TypeOK, Types, ForkFails, Goes,
         Unhandled, Handled, Dead, Left, files
    <3>2. Stages'
      BY <1>1, MoveKeepsStages DEF ForkFails, Handled, Dead
    <3>3. QED
      BY <3>1, <3>2 DEF TypeOK
  <2>2. LockHeld'
    BY <1>1, MoveKeepsLock DEF ForkFails, files, Owning, Holding, Past, Handled
  <2>3. NumberWritten'
    BY <1>1, MoveKeepsNumber DEF ForkFails, files, Past, Handled
  <2>4. QED
    BY <2>1, <2>2, <2>3 DEF IInv
<1>2. CASE Sigint(p)
  <2>1. TypeOK'
    <3>1. Types'
      BY <1>2 DEF IInv, TypeOK, Types, Sigint, Listens,
         Unhandled, Handled, Dead, Left, files
    <3>2. Stages'
      <4>1. main[p] \in Handled /\ UNCHANGED <<main, dir, sock>>
        BY <1>2 DEF Sigint
      <4>2. \A q \in Pid \ {p} : listen'[q] = listen[q] /\ isExit'[q] = isExit[q]
        BY <1>2 DEF Sigint, Listens, IInv, TypeOK, Types
      <4>3. QED
        BY <4>1, <4>2 DEF IInv, TypeOK, Stages
    <3>3. QED
      BY <3>1, <3>2 DEF TypeOK
  <2>2. LockHeld' /\ NumberWritten'
    BY <1>2 DEF IInv, LockHeld, NumberWritten, Sigint, files
  <2>3. QED
    BY <2>1, <2>2 DEF IInv
<1>3. CASE Kill(p)
  BY <1>3, DiesInv DEF Kill, Unhandled, Handled
<1>4. CASE CloseFile(p)
  <2>1. TypeOK'
    <3>1. Types'
      BY <1>4 DEF IInv, TypeOK, Types, CloseFile, Goes,
         Unhandled, Handled, Dead, Left, files
    <3>2. Stages'
      BY <1>4, MoveKeepsStages DEF CloseFile, Handled, Dead
    <3>3. QED
      BY <3>1, <3>2 DEF TypeOK
  <2>2. main[p] \notin Holding /\ main'[p] \notin Holding
        /\ \A q \in Pid \ {p} : main'[q] = main[q] /\ dir'[q] = dir[q]
    BY <1>4 DEF CloseFile, Goes, IInv, TypeOK, Types, Stages, Holding, Past, Handled
  <2>3. \A d \in Dir : owner'[d] = IF owner[d] = p THEN None ELSE owner[d]
    BY <1>4 DEF CloseFile
  <2>4. \A q \in Pid : main'[q] \in Holding => dir[q] \in Dir
    BY <2>2 DEF IInv, TypeOK, Types, Stages, Holding, Past, Handled
  <2>5. \A q \in Pid : main'[q] \in Holding => owner'[dir'[q]] = q
    BY <2>2, <2>3, <2>4 DEF IInv, LockHeld
  <2>6. \A d \in Dir : owner'[d] # None =>
            main'[owner'[d]] \in Owning /\ dir'[owner'[d]] = d
    BY <2>2, <2>3 DEF IInv, TypeOK, Types, Stages, LockHeld
  <2>7. NumberWritten'
    BY <1>4, <2>2 DEF CloseFile, IInv, NumberWritten, Holding
  <2>8. QED
    BY <2>1, <2>5, <2>6, <2>7 DEF IInv, LockHeld
<1>5. CASE CloseSocket(p)
  <2>1. TypeOK'
    <3>1. Types'
      BY <1>5 DEF IInv, TypeOK, Types, CloseSocket, Goes,
         Unhandled, Handled, Dead, Left, files
    <3>2. Stages'
      <4>1. /\ main[p] \in {"dead, closed", "left, closed"} /\ main'[p] = "none"
            /\ dir'[p] = None /\ sock'[p] = "none"
            /\ UNCHANGED <<listen, isExit>>
        BY <1>5 DEF CloseSocket, Goes, IInv, TypeOK, Types
      <4>2. \A q \in Pid \ {p} :
                main'[q] = main[q] /\ dir'[q] = dir[q] /\ sock'[q] = sock[q]
        BY <1>5 DEF CloseSocket, Goes, IInv, TypeOK, Types
      <4>3. QED
        BY <4>1, <4>2 DEF IInv, TypeOK, Stages, Handled
    <3>3. QED
      BY <3>1, <3>2 DEF TypeOK
  <2>2. main[p] \notin Holding /\ main'[p] \notin Holding
        /\ \A q \in Pid \ {p} : main'[q] = main[q] /\ dir'[q] = dir[q]
    BY <1>5 DEF CloseSocket, Goes, IInv, TypeOK, Types, Stages, Holding, Past, Handled
  <2>3. /\ main[p] \notin Owning /\ owner' = owner /\ pidFile' = pidFile
        /\ unnumbered' = unnumbered \ {p}
    BY <1>5 DEF CloseSocket, Goes, files, Owning, Holding, Past, Handled
  <2>4. \A q \in Pid : main'[q] \in Holding => owner'[dir'[q]] = q
    BY <2>2, <2>3 DEF IInv, LockHeld
  <2>5. \A d \in Dir : owner'[d] # None =>
            main'[owner'[d]] \in Owning /\ dir'[owner'[d]] = d
    BY <2>2, <2>3 DEF IInv, TypeOK, Types, Stages, LockHeld
  <2>6. NumberWritten'
    BY <2>2, <2>3 DEF IInv, NumberWritten, Holding
  <2>7. QED
    BY <2>1, <2>4, <2>5, <2>6 DEF IInv, LockHeld
<1>6. QED
  BY <1>1, <1>2, <1>3, <1>4, <1>5

-----------------------------------------------------------------------------
(* The theorems *)

LEMMA StepInv == IInv /\ [Next]_vars => IInv'
<1> SUFFICES ASSUME IInv, [Next]_vars
             PROVE  IInv'
  OBVIOUS
<1>1. CASE UNCHANGED vars
  BY <1>1 DEF vars, files, IInv, TypeOK, Types, Stages, LockHeld, NumberWritten, Past, Owning, Holding
<1>2. CASE Next
  <2>1. PICK p \in Pid :
            \/ Main(p) \/ ForkFails(p) \/ RequestListen(p) \/ Kernel(p)
            \/ AcceptBlocks(p) \/ Sigint(p) \/ Kill(p)
            \/ \E d \in Dir : Launch(p, d)
            \/ \E q \in Pid : Fork(p, q)
    BY <1>2 DEF Next
  <2>2. CASE Main(p)
    BY <2>2, OpenStep, LockStep, InitializeStep DEF Main, AlreadyRunning, SystemInitialize
  <2>3. CASE RequestListen(p) \/ AcceptBlocks(p)
    BY <2>3, ListenStep DEF RequestListen
  <2>4. CASE ForkFails(p) \/ Kernel(p) \/ Sigint(p) \/ Kill(p)
    BY <2>4, KernelStep DEF Kernel
  <2>5. CASE \E d \in Dir : Launch(p, d)
    BY <2>5, LaunchStep
  <2>6. CASE \E q \in Pid : Fork(p, q)
    BY <2>6, ForkStep
  <2>7. QED
    BY <2>1, <2>2, <2>3, <2>4, <2>5, <2>6
<1>3. QED
  BY <1>1, <1>2

LEMMA Inductive == Spec => []IInv
BY InitInv, StepInv, PTL DEF Spec

\* Types, and where a socket or a listen thread may be.
THEOREM TypeCorrect == Spec => []TypeOK
<1>1. IInv => TypeOK
  BY DEF IInv
<1>2. QED
  BY <1>1, Inductive, PTL

LEMMA InvImpliesOneServer == IInv => OneServer
<1> SUFFICES ASSUME IInv, NEW p \in Pid, main[p] \in Past
             PROVE  /\ p \notin unnumbered => pidFile[dir[p]] = p
                    /\ \A q \in Pid \ {p} : main[q] \in Past => dir[q] # dir[p]
  BY DEF OneServer
<1>1. p \notin unnumbered => pidFile[dir[p]] = p
  BY DEF IInv, NumberWritten
<1>2. ASSUME NEW q \in Pid \ {p}, main[q] \in Past, dir[q] = dir[p]
      PROVE  FALSE
  BY <1>2 DEF IInv, LockHeld, Holding
<1>3. QED
  BY <1>1, <1>2

\* However many servers are started, forked, refused, killed and stopped, and
\* whatever calls fail, a directory has one past already_running, and the pid
\* file names it, unless its own write of its number failed.
THEOREM OneServerPerDirectory == Spec => []OneServer
BY Inductive, InvImpliesOneServer, PTL

\* Only Refused takes a process from F_SETLK to the refusal.
LEMMA RefusingIsRefused ==
    ASSUME IInv, [Next]_vars, NEW p \in Pid,
           main[p] = "lock", main'[p] = "refused"
    PROVE  owner[dir[p]] # None
<1>1. Next
  BY DEF vars
<1>2. PICK q \in Pid :
          \/ Main(q) \/ ForkFails(q) \/ RequestListen(q) \/ Kernel(q)
          \/ AcceptBlocks(q) \/ Sigint(q) \/ Kill(q)
          \/ \E d \in Dir : Launch(q, d)
          \/ \E r \in Pid : Fork(q, r)
  BY <1>1 DEF Next
<1>3. CASE AlreadyRunning(q)
  BY <1>3 DEF AlreadyRunning, OpenPidFile, OpenFails, Lock, Refused, GivesUp, Truncate,
     WritePid, WriteFails, Goes, Dies, IInv, TypeOK, Types, Stages
<1>4. CASE SystemInitialize(q)
  BY <1>4 DEF SystemInitialize, LoadModule, LoadFails, HandleSigint, HandleFails,
     StartServer, LeaveLoop, Join, Destroy, Goes, Dies, IInv, TypeOK, Types, Stages
<1>5. CASE RequestListen(q) \/ AcceptBlocks(q) \/ Sigint(q)
  BY <1>5 DEF RequestListen, Bind, BindFails, SocketFails, Listen, Create, CreateThrows,
     AcceptBlocks, LoopEnds, Sigint, Dies, IInv, TypeOK, Types, Stages
<1>6. CASE ForkFails(q) \/ Kernel(q) \/ Kill(q)
  BY <1>6 DEF ForkFails, Kernel, CloseFile, CloseSocket, Kill, Dies, Goes, IInv, TypeOK, Types, Stages
<1>7. CASE \E d \in Dir : Launch(q, d)
  BY <1>7 DEF Launch, IInv, TypeOK, Types, Stages
<1>8. CASE \E r \in Pid : Fork(q, r)
  BY <1>8 DEF Fork, IInv, TypeOK, Types, Stages
<1>9. QED
  BY <1>2, <1>3, <1>4, <1>5, <1>6, <1>7, <1>8 DEF Main

\* "Server is already running" is said only while another process of the
\* directory is there.
THEOREM RefusalsByLiving == Spec => RefusedByLiving
<1>1. IInv /\ [Next]_vars =>
        \A p \in Pid :
            (main[p] = "lock" /\ main'[p] = "refused") =>
                \E q \in Pid \ {p} : /\ dir[q] = dir[p]
                                     /\ main[q] \in Holding \cup {"dead", "left"}
  <2> SUFFICES ASSUME IInv, [Next]_vars, NEW p \in Pid,
                      main[p] = "lock", main'[p] = "refused"
               PROVE  \E q \in Pid \ {p} : /\ dir[q] = dir[p]
                                              /\ main[q] \in Holding \cup {"dead", "left"}
    OBVIOUS
  <2>1. dir[p] \in Dir /\ main[p] \notin Owning
    BY DEF IInv, TypeOK, Types, Stages, Owning, Holding, Past, Handled
  <2>2. owner[dir[p]] # None
    BY RefusingIsRefused
  <2>3. /\ owner[dir[p]] \in Pid \ {p} /\ dir[owner[dir[p]]] = dir[p]
        /\ main[owner[dir[p]]] \in Owning
    BY <2>1, <2>2 DEF IInv, TypeOK, Types, Stages, LockHeld
  <2>4. QED
    BY <2>3 DEF Owning
<1>2. QED
  BY <1>1, Inductive, PTL DEF Spec, RefusedByLiving

\* What it takes to be refused the port.
LEMMA PortRefusal ==
    ASSUME IInv, [Next]_vars, NEW p \in Pid,
           \/ sock'[p] = "unbound" /\ sock[p] # "unbound"
           \/ sock'[p] = "bound" /\ listen[p] = "listen" /\ listen'[p] = "create"
    PROVE  listen[p] # "none" /\ PortInUse(p)
<1>1. Next
  BY DEF vars
<1>2. PICK q \in Pid :
          \/ Main(q) \/ ForkFails(q) \/ RequestListen(q) \/ Kernel(q)
          \/ AcceptBlocks(q) \/ Sigint(q) \/ Kill(q)
          \/ \E d \in Dir : Launch(q, d)
          \/ \E r \in Pid : Fork(q, r)
  BY <1>1 DEF Next
<1>3. CASE AlreadyRunning(q)
  BY <1>3 DEF AlreadyRunning, OpenPidFile, OpenFails, Lock, Refused, GivesUp, Truncate,
     WritePid, WriteFails, Goes, Dies, IInv, TypeOK, Types, Stages
<1>4. CASE SystemInitialize(q)
  BY <1>4 DEF SystemInitialize, LoadModule, LoadFails, HandleSigint, HandleFails,
     StartServer, LeaveLoop, Join, Destroy, Goes, Listens, Dies, IInv, TypeOK, Types, Stages
<1>5. CASE RequestListen(q)
  <2>1. CASE Bind(q) \/ BindFails(q)
    BY <2>1 DEF Bind, BindFails, Listens, IInv, TypeOK, Types, Stages
  <2>2. CASE Listen(q)
    BY <2>2 DEF Listen, Listens, IInv, TypeOK, Types, Stages
  <2>3. CASE SocketFails(q) \/ Create(q) \/ CreateThrows(q) \/ LoopEnds(q)
    BY <2>3 DEF SocketFails, Create, CreateThrows, LoopEnds, Listens, Dies, IInv, TypeOK, Types, Stages
  <2>4. QED
    BY <1>5, <2>1, <2>2, <2>3 DEF RequestListen
<1>6. CASE AcceptBlocks(q) \/ Sigint(q)
  BY <1>6 DEF AcceptBlocks, Sigint, Listens, IInv, TypeOK, Types, Stages
<1>7. CASE ForkFails(q) \/ Kernel(q) \/ Kill(q)
  BY <1>7 DEF ForkFails, Kernel, CloseFile, CloseSocket, Kill, Dies, Goes, IInv, TypeOK, Types, Stages
<1>8. CASE (\E d \in Dir : Launch(q, d)) \/ (\E r \in Pid : Fork(q, r))
  BY <1>8 DEF Launch, Fork, IInv, TypeOK, Types, Stages
<1>9. QED
  BY <1>2, <1>3, <1>4, <1>5, <1>6, <1>7, <1>8 DEF Main

\* A server finds its port in use only if a server of another directory has
\* it, or one that did not end by itself.
THEOREM PortHandover == Spec => PortPassesOn
<1>1. IInv /\ [Next]_vars =>
        \A p \in Pid :
            (\/ sock'[p] = "unbound" /\ sock[p] # "unbound"
             \/ sock'[p] = "bound" /\ listen[p] = "listen" /\ listen'[p] = "create")
            => \E q \in Pid \ {p} :
                  sock[q] = "listening" /\ (dir[q] # dir[p] \/ main[q] \in Dead)
  <2> SUFFICES ASSUME IInv, [Next]_vars, NEW p \in Pid,
                  \/ sock'[p] = "unbound" /\ sock[p] # "unbound"
                  \/ sock'[p] = "bound" /\ listen[p] = "listen" /\ listen'[p] = "create"
               PROVE  \E q \in Pid \ {p} :
                  sock[q] = "listening" /\ (dir[q] # dir[p] \/ main[q] \in Dead)
    OBVIOUS
  <2>1. PICK q \in Pid \ {p} : sock[q] = "listening"
    BY PortRefusal DEF PortInUse
  <2>2. main[p] \in Past
    BY PortRefusal DEF IInv, TypeOK, Types, Stages, Past
  <2>3. main[q] \in Handled => main[q] \in Past /\ dir[q] # dir[p]
    BY <2>2, InvImpliesOneServer DEF OneServer, Past
  <2>4. QED
    BY <2>1, <2>3 DEF IInv, TypeOK, Types, Stages
<1>2. QED
  BY <1>1, Inductive, PTL DEF Spec, PortPassesOn

=============================================================================
