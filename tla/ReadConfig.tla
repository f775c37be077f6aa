----------------------------- MODULE ReadConfig -----------------------------
(***************************************************************************)
(* How the server (readConfig) and the client (readFunctionConfig) take    *)
(* their settings from a parsed configuration file.  The two check the     *)
(* result of parseFile in different ways, and the values too.              *)
(*                                                                         *)
(* Both programs have commented out the call; this is the code as it       *)
(* stands.  Numbers that only pass through are left out, and so is the '/' *)
(* that is put behind a path.                                              *)
(***************************************************************************)
EXTENDS CfgParser, SequencesExt

CONSTANTS
    OneChar,    \* words of one character
    HostNames,  \* words that overrun the 20 bytes of g_strAudioServerIP
    LongNames,  \* words that overrun the 256 bytes of DirName, too
    Denied,     \* directories that mkdir cannot make
    KBWrap      \* 2^32 / 1024: the range of m_iMsgLen in KB

\* An int32_t holds the default port.
ASSUME KBWrapAssumption == KBWrap \in Nat /\ KBWrap >= 64

\* The default of the log path fits its buffer.
ASSUME LogsAssumption == "logs" \notin LongNames

VARIABLES
    prog,       \* "server" or "client"
    settings,   \* the global variables that are read
    made        \* directories that are there because of myMakeDir

vars == <<file, pc, parser, prog, settings, made>>

Short(v)    == v = <<>> \/ \E w \in OneChar : v = <<w>>
WidePath(v) == \E i \in 1 .. Len(v) : v[i] \in LongNames
WideIP(v)   == \E i \in 1 .. Len(v) : v[i] \in HostNames \cup LongNames

\* atol gives a long, and the variable has fewer bits.
UInt16    == {n \in Nat : n < 65536}
uint16(n) == n % 65536
Half      == 512 * KBWrap
Int32     == - Half .. Half - 1
int32(n)  == LET m == n % (2 * Half) IN IF m < Half THEN m ELSE m - 2 * Half

\* atof gives a double: the processor makes the least number of what does
\* not fit.
truncated(n) == IF n \in Int32 THEN n ELSE - Half

DefaultLogPath == <<"logs">>
LocalRcvBufMB  == 512
NetRcvBufMB    == 256

\* what the variables hold at first
Defaults(p) ==
    IF p = "server"
    THEN [queueMB |-> 1024, logPath |-> DefaultLogPath, interval |-> 10,
          threads |-> 10, port |-> 6500, maxMsgKB |-> 65536]
    ELSE [ip |-> <<>>, port |-> 0, logPath |-> DefaultLogPath, interval |-> 20,
          localBufMB |-> LocalRcvBufMB, netBufMB |-> NetRcvBufMB]

-----------------------------------------------------------------------------
(* myMakeDir *)

\* the path and every directory on the way to it
Parents(path) ==
    {SubSeq(path, 1, i - 1) : i \in Positions(path, {"/"}) \ {1}}
    \cup {Front(path) : x \in {path[Len(path)]} \cap {"/"}}
    \cup {path : x \in {path[Len(path)]} \ {"/"}}

\* It stops at the first one that cannot be made.
myMakeDir(path) ==
    {d \in Parents(path) : ~\E e \in Denied \cap Parents(path) : Len(e) <= Len(d)}

\* a path that is not too short is taken, and made if possible
ReadPath(s, k) ==
    made' = IF Short(getValue(s, k)) THEN made
            ELSE made \cup myMakeDir(getValue(s, k))

-----------------------------------------------------------------------------
(* The server *)

\* access
Accessible ==
    /\ pc = "access" /\ file # NoFile
    /\ pc' = "open"
    /\ UNCHANGED <<file, parser, prog, settings, made>>

\* return -1
NotAccessible ==
    /\ pc = "access" /\ file = NoFile
    /\ pc' = "failed"
    /\ UNCHANGED <<file, parser, prog, settings, made>>

\* Someone removes the file after that.
Vanish ==
    /\ pc = "open" /\ prog = "server"
    /\ file' = NoFile
    /\ UNCHANGED <<pc, parser, prog, settings, made>>

AtLeast(n, least, default) == IF n < least THEN default ELSE n

SystemLogPath == getValue("Settings", "SystemLogPath")
ServerPort    == int32(getIntValue("NetSettings", "AudioServerPort"))

\* What is stored before the log path is asked for, ...
QueueSet ==
    [settings EXCEPT
        !.queueMB = AtLeast(getIntValue("Settings", "QueryQueueMB"), 512, 512)]

\* ... before the port is looked at, ...
PortSet ==
    [QueueSet EXCEPT
        !.logPath  = SystemLogPath,
        !.interval = AtLeast(truncated(getIntValue("Settings", "StatusLogInterval")), 1, 20),
        !.threads  = AtLeast(int32(getIntValue("Settings", "ProcessThreadCnt")), 1, 1),
        !.port     = ServerPort]

\* ... and in the end.  n * 1024 is stored in a uint32_t.
ServerSettings ==
    [PortSet EXCEPT
        !.maxMsgKB = LET n == int32(getIntValue("NetSettings", "MaxNetMsgByte"))
                     IN  IF n > 0 THEN n % KBWrap ELSE 1024]

\* The errors of parseFile are positive, so that its test for < 0 is never
\* true.  exit without a log path, throw without a port.
readConfig ==
    /\ pc = "parsed" /\ prog = "server" /\ ~(ret < 0)
    /\ ~WidePath(SystemLogPath)
    /\ ReadPath("Settings", "SystemLogPath")
    /\ \/ /\ Short(SystemLogPath)
          /\ pc' = "exited" /\ settings' = QueueSet
       \/ /\ ~Short(SystemLogPath) /\ ServerPort < 1024
          /\ pc' = "thrown" /\ settings' = PortSet
       \/ /\ ~Short(SystemLogPath) /\ ServerPort >= 1024
          /\ pc' = "done" /\ settings' = ServerSettings
    /\ UNCHANGED <<file, parser, prog>>

\* strcpy writes behind DirName.  Nothing can be said of what follows, so the
\* model ends.
ServerOverruns ==
    /\ pc = "parsed" /\ prog = "server" /\ ~(ret < 0)
    /\ WidePath(SystemLogPath)
    /\ pc' = "overrun"
    /\ UNCHANGED <<file, parser, prog, settings, made>>

-----------------------------------------------------------------------------
(* The client *)

\* a number read as uint64_t: below 0 is huge
BufMB(n, default) == IF n < 0 \/ n > 32 THEN n ELSE default

AudioServerIP == getValue("Settings", "AudioServerIP")
ClientPort    == uint16(getIntValue("Settings", "AudioServerPort"))
LogPath       == getValue("Settings", "LogPath")

\* What is stored before the port is looked at, ...
AddressSet == [settings EXCEPT !.ip = AudioServerIP, !.port = ClientPort]

\* ... and in the end
ClientSettings ==
    [AddressSet EXCEPT
        !.logPath    = IF Short(LogPath) THEN @ ELSE LogPath,
        !.interval   = LET n == getIntValue("Settings", "StatusLogInterval")
                       IN  IF n = 0 THEN 20 ELSE IF n < 0 \/ n > 600 THEN 600 ELSE n,
        !.localBufMB = BufMB(getIntValue("Settings", "CLIENT_LOCAL_RCV_BUF_MB"), @),
        !.netBufMB   = BufMB(getIntValue("Settings", "CLIENT_NET_RCV_BUF_MB"), @)]

\* Mutant: the test of the server's readConfig.
RefusedNegative == ret < 0

Refused == ret # 0

\* parseFile returned an error: return -1
Fails ==
    /\ pc = "parsed" /\ prog = "client" /\ Refused
    /\ pc' = "failed"
    /\ UNCHANGED <<file, parser, prog, settings, made>>

\* Mutant: the port is checked at the end.
ThrowsLate ==
    /\ pc = "parsed" /\ prog = "client" /\ ~Refused /\ ~WideIP(AudioServerIP)
    /\ \/ Short(AudioServerIP) /\ UNCHANGED settings
       \/ ~Short(AudioServerIP) /\ ClientPort < 1 /\ settings' = ClientSettings
    /\ pc' = "thrown"
    /\ UNCHANGED <<file, parser, prog, made>>

\* throw without a server's address or port
Throws ==
    /\ pc = "parsed" /\ prog = "client" /\ ~Refused /\ ~WideIP(AudioServerIP)
    /\ \/ Short(AudioServerIP) /\ UNCHANGED settings
       \/ ~Short(AudioServerIP) /\ ClientPort < 1 /\ settings' = AddressSet
    /\ pc' = "thrown"
    /\ UNCHANGED <<file, parser, prog, made>>

\* strcpy writes behind g_strAudioServerIP, or behind DirName.
ClientOverruns ==
    /\ pc = "parsed" /\ prog = "client" /\ ~Refused
    /\ \/ WideIP(AudioServerIP)
       \/ ~Short(AudioServerIP) /\ ClientPort >= 1 /\ WidePath(LogPath)
    /\ pc' = "overrun"
    /\ UNCHANGED <<file, parser, prog, settings, made>>

readFunctionConfig ==
    /\ pc = "parsed" /\ prog = "client" /\ ~Refused
    /\ ~Short(AudioServerIP) /\ ~WideIP(AudioServerIP) /\ ClientPort >= 1
    /\ ~WidePath(LogPath)
    /\ ReadPath("Settings", "LogPath")
    /\ pc' = "done" /\ settings' = ClientSettings
    /\ UNCHANGED <<file, parser, prog>>

-----------------------------------------------------------------------------
Init ==
    /\ ParserInit
    /\ prog \in {"server", "client"}
    /\ pc = IF prog = "server" THEN "access" ELSE "open"
    /\ settings = Defaults(prog) /\ made = {}

Parse  == parseFile /\ UNCHANGED <<prog, settings, made>>
Server == Accessible \/ NotAccessible \/ readConfig \/ ServerOverruns
Client == Fails \/ Throws \/ readFunctionConfig \/ ClientOverruns

Next == Parse \/ Server \/ Client \/ Vanish
Spec == Init /\ [][Next]_vars
FairSpec == Spec /\ WF_vars(Parse \/ Server \/ Client)
-----------------------------------------------------------------------------
(* Properties *)

Returned == {"failed", "exited", "thrown", "done"}

\* What a reader that gave up has changed: a server without a log path its
\* queues, one without a port all but the message length, and it is left with
\* that port; a client without a port the address, any other nothing.
LeftBehind ==
    /\ pc \notin {"exited", "thrown", "done", "overrun"} => settings = Defaults(prog)
    /\ pc = "exited" => \A x \in DOMAIN settings \ {"queueMB"} :
                            settings[x] = Defaults(prog)[x]
    /\ pc = "thrown" =>
          /\ prog = "server" => /\ settings.maxMsgKB = Defaults(prog).maxMsgKB
                                /\ settings.port < 1024
          /\ prog = "client" => \A x \in DOMAIN settings \ {"ip"} :
                                    settings[x] = Defaults(prog)[x]

ParserTypes ==
    /\ file # NoFile => \A i \in 1 .. Len(file) :
            file[i].means.kind \in {"section", "set", "nothing", "bad"}
    /\ pc \in {"access", "open", "copy", "endless", "parse", "undefined", "parsed",
               "overrun"} \cup Returned
    /\ errorLine \in Nat /\ (file # NoFile => errorLine <= Len(file))
    /\ \A sk \in DOMAIN content : Len(sk) = 2
    /\ ret \in {0, 2, SyntaxError}
    /\ prog \in {"server", "client"}

SettingTypes ==
    /\ DOMAIN settings = DOMAIN Defaults(prog)
    /\ prog = "server" => {settings.threads, settings.port, settings.interval} \subseteq Int32
    /\ prog = "client" => settings.port \in UInt16
    /\ (prog = "server" /\ made # {}) => pc \in {"done", "thrown"}

\* Every variable has its type, and whatever file it reads, a reader that
\* gives up has stored only what it read before.
TypeOK == ParserTypes /\ SettingTypes /\ LeftBehind

\* What the lines that were read say about a setting.
Meant(s, k) ==
    LET set == Setters(<<s>>, <<k>>, errorLine)
    IN  IF set = {} THEN <<>> ELSE file[Min(set)].means.value
MeantInt(s, k) ==
    LET v == Meant(s, k)
    IN  IF v # <<>> /\ v[1] \in DOMAIN Number THEN Number[v[1]] ELSE 0

ServerInForce ==
    /\ settings.threads >= 1 /\ settings.queueMB >= 512
    /\ settings.port >= 1024
    /\ MeantInt("NetSettings", "AudioServerPort") \in 0 .. Half - 1
        => settings.port = MeantInt("NetSettings", "AudioServerPort")
    /\ MeantInt("Settings", "ProcessThreadCnt") \in 1 .. Half - 1
        => settings.threads = MeantInt("Settings", "ProcessThreadCnt")
    /\ MeantInt("NetSettings", "MaxNetMsgByte") \in 1 .. KBWrap - 1
        => settings.maxMsgKB = MeantInt("NetSettings", "MaxNetMsgByte")
    /\ settings.logPath = Meant("Settings", "SystemLogPath")

Port == UInt16 \ {0}

ClientInForce ==
    /\ BadLines = {} /\ errorLine = Len(file)
    /\ settings.ip = Meant("Settings", "AudioServerIP")
    /\ settings.ip # <<>> /\ ~WideIP(settings.ip)
    /\ settings.port \in Port
    /\ settings.interval \in 1 .. 600
    /\ settings.localBufMB \notin 0 .. 32 /\ settings.netBufMB \notin 0 .. 32

LogPathMade ==
    \A d \in Parents(settings.logPath) :
        \/ d \in made
        \/ prog = "client" /\ Short(Meant("Settings", "LogPath"))
        \/ \E e \in Denied \cap Parents(settings.logPath) : Len(e) <= Len(d)

\* A program that goes on has settings from the section and the first line
\* that name them: a server at least one worker, queues and a port of 1024 or
\* more, those of the file if they fit an int32_t (what does not is wrapped,
\* and the port has no upper limit, of which Bind takes 16 bits); a client an
\* address that fits its buffer; and both the log directory with all its
\* parents, up to the first that cannot be made, and a path that fits DirName.
\* The client goes on only with a file of which every line was understood, the
\* server with any.
SettingsInForce ==
    pc = "done" =>
        /\ prog = "server" => ServerInForce
        /\ prog = "client" => ClientInForce
        /\ LogPathMade /\ ~WidePath(settings.logPath)

\* a value of the file that is longer than the memory it is copied to
TooWide ==
    IF prog = "server" THEN WidePath(Meant("Settings", "SystemLogPath"))
    ELSE \/ WideIP(Meant("Settings", "AudioServerIP"))
         \/ WidePath(Meant("Settings", "LogPath"))

\* Reading ends, unless a line is too long for the buffer, a key is empty, or
\* a path or the address is too long for what it is copied to.
EventuallyReturns ==
    <>(\/ pc \in Returned
       \/ pc = "endless" /\ TooLong
       \/ pc = "undefined" /\ Line[1] = "="
       \/ pc = "overrun" /\ TooWide)
=============================================================================
