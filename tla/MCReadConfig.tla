---------------------------- MODULE MCReadConfig ----------------------------
(***************************************************************************)
(* TLC instance of ReadConfig: two files that are as they should be, one   *)
(* for each program, with any one line replaced by, or preceded by, any    *)
(* line of a pool; and all files of two lines of the pool.                 *)
(***************************************************************************)
EXTENDS ReadConfig

Means(kind)       == [kind |-> kind]
Heading(s)        == [text |-> <<"[", s, "]">>, means |-> [kind |-> "section", name |-> <<s>>]]
Set(text, k, v)   == [text |-> text, means |-> [kind |-> "set", key |-> k, value |-> v]]
Plain(k, v)       == Set(<<k, "=", v>>, <<k>>, <<v>>)
Spaced(k, v)      == Set(<<" ", k, " ", "=", " ", v, " ">>, <<k>>, <<v>>)
Ended(k, v)       == Set(<<k, "=", v, ";", "x", "=">>, <<k>>, <<v>>)
Dos(k, v)         == Set(<<k, "=", v, "CR">>, <<k>>, <<v>>)
Other(text, kind) == [text |-> text, means |-> Means(kind)]

ServerFile ==
    <<Heading("Settings"), Set(<<"SystemLogPath", "=", "var", "/", "log">>,
                               <<"SystemLogPath">>, <<"var", "/", "log">>),
      Plain("ProcessThreadCnt", "4"),
      Heading("NetSettings"), Plain("AudioServerPort", "6500")>>

ClientFile ==
    <<Heading("Settings"), Plain("AudioServerIP", "10.0.0.1"),
      Plain("AudioServerPort", "6500"),
      Set(<<"LogPath", "=", "var", "/", "log", "/">>,
          <<"LogPath">>, <<"var", "/", "log", "/">>)>>

Pool ==
    {Heading("Settings"), Heading("NetSettings"),
     [text |-> <<" ", "[", "Settings", "]", "x">>,
      means |-> [kind |-> "section", name |-> <<"Settings">>]],
     Plain("ProcessThreadCnt", "0"), Spaced("ProcessThreadCnt", "8"),
     Plain("QueryQueueMB", "4096"), Dos("AudioServerPort", "70000"),
     Ended("AudioServerPort", "80"), Plain("AudioServerPort", "65536"),
     Plain("AudioServerPort", "40000"), Plain("AudioServerPort", "4294973796"),
     Plain("AudioServerPort", "2147483648"), Plain("ProcessThreadCnt", "4294967300"),
     Plain("AudioServerIP", "audio-server.example.org"),
     Set(<<"SystemLogPath", "=", "/", "WIDE">>, <<"SystemLogPath">>, <<"/", "WIDE">>),
     Plain("LogPath", "WIDE"),
     Plain("MaxNetMsgByte", "64"), Plain("MaxNetMsgByte", "4194304"),
     Ended("SystemLogPath", "x"), Dos("LogPath", "x"),
     Set(<<"SystemLogPath", "=", "/", "root", "/", "log">>,
         <<"SystemLogPath">>, <<"/", "root", "/", "log">>),
     Plain("AudioServerIP", "x"), Plain("StatusLogInterval", "1000"),
     Spaced("CLIENT_LOCAL_RCV_BUF_MB", "64"), Plain("CLIENT_NET_RCV_BUF_MB", "-1"),
     Set(<<"AudioServerIP", "=", " ">>, <<"AudioServerIP">>, <<>>),
     Set(<<"[", "x", "=", "=", "8">>, <<"[", "x">>, <<"=", "8">>),
     Set(<<" ", "=", "8">>, <<>>, <<"8">>),
     Other(<<>>, "nothing"), Other(<<" ", "CR">>, "nothing"),
     Other(<<" ", "#", "x", "=", "8">>, "nothing"),
     Other(<<"[", "Settings">>, "bad"), Other(<<"x">>, "bad"),
     Other(<<";", "x", "=", "8">>, "bad"), Other(<<"x", "CR", "=">>, "bad"),
     Other(<<"#", "LONG">>, "nothing")}

Changed(f) ==
    {[f EXCEPT ![i] = l] : i \in 1 .. Len(f), l \in Pool}
    \cup {InsertAt(f, i, l) : i \in 1 .. Len(f) + 1, l \in Pool}

MCFiles == {ServerFile, ClientFile} \cup Changed(ServerFile) \cup Changed(ClientFile)
           \cup {<<l, m>> : l \in Pool, m \in Pool}

\* 2^27 stands for 2^32, which TLC has no room for.
MCKBWrap  == 131072

MCNumber ==
    [w \in {"0", "4", "8", "64", "80", "1000", "4096", "6500", "40000", "65536",
            "70000", "4194304", "2147483648", "4294967300", "4294973796", "-1",
            "10.0.0.1"} |->
        CASE w = "0" -> 0 [] w = "4" -> 4 [] w = "8" -> 8 [] w = "64" -> 64
          [] w = "80" -> 80 [] w = "1000" -> 1000 [] w = "4096" -> 4096
          [] w = "6500" -> 6500 [] w = "40000" -> 40000 [] w = "65536" -> 65536
          [] w = "70000" -> 70000 [] w = "4194304" -> 32 * MCKBWrap
          [] w = "2147483648" -> 512 * MCKBWrap
          [] w = "4294967300" -> 1024 * MCKBWrap + 4
          [] w = "4294973796" -> 1024 * MCKBWrap + 6500
          [] w = "-1" -> -1 [] w = "10.0.0.1" -> 10]

MCOneChar == {"x", "0", "4", "8"}
MCDenied  == {<<"/", "root">>}
MCHostNames == {"audio-server.example.org"}
MCLongNames == {"WIDE"}
=============================================================================
